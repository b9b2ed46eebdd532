-------------------------------- MODULE Inbox --------------------------------
(****************************************************************************)
(* Conversations and messages (chat/chatsvc over chat/mem_repo.go and over  *)
(* chat/pgrepo).  In memory a conversation has its messages as a list and   *)
(* an index by client id; in Postgres messages and per-viewer deletions are *)
(* rows of two tables, and a sequence orders the conversations.             *)
(*                                                                          *)
(* A conversation is known by its pair: its id is made of the two accounts. *)
(* Blocks and mutual follows, which the service looks up first, are given   *)
(* by their outcome.                                                        *)
(****************************************************************************)
EXTENDS Stores, SequencesExt, FiniteSetsExt

Couples == {p \in SUBSET AccountIds : Cardinality(p) = 2}
InitialStates == {"request", "active"}
ClientIds == {"m", "n"}        \* bound: ids clients give their messages

NoTalk == [convs |-> <<>>, messages |-> [p \in Couples |-> <<>>], byClient |-> <<>>, order |-> 0]
NoChats == [convs |-> {}, messages |-> {}, deletes |-> {}, nextval |-> 1]

-----------------------------------------------------------------------------
(* In memory *)

MemGetOrCreateConversation(m, a, p, state) ==
    IF p \in DOMAIN m.convs
    THEN Says(m, Given(m.convs[p].state))
    ELSE LET c == [state |-> state, by |-> a, order |-> m.order + 1]
         IN  Says([m EXCEPT !.convs = (p :> c) @@ @, !.order = @ + 1], Given(state))

MemSetConversationState(m, p, state) ==
    Says([m EXCEPT !.convs[p].state = state], Given(state))

MemInsertMessage(m, a, p, id) ==
    IF <<p, id>> \in DOMAIN m.byClient
    THEN Says(m, <<"ok", m.byClient[<<p, id>>], "not new">>)
    ELSE LET n == Len(m.messages[p]) + 1
             msg == [id |-> id, from |-> a, seq |-> n, read |-> FALSE, hidden |-> {}, gone |-> FALSE]
         IN  Says([m EXCEPT !.messages[p] = Append(@, msg),
                            !.byClient = (<<p, id>> :> n) @@ @,
                            !.convs[p].order = m.order + 1,
                            !.order = @ + 1],
                  <<"ok", n, "new">>)

MemMarkRead(m, a, p, upTo) ==
    Says([m EXCEPT !.messages[p] = [i \in DOMAIN @ |->
             IF @[i].from # a /\ @[i].seq <= upTo THEN [@[i] EXCEPT !.read = TRUE] ELSE @[i]]],
         Given("read"))

MemDeleteMessage(m, a, p, n, everyone) ==
    CASE a \notin p -> Says(m, <<"not a participant">>)
      [] everyone /\ m.messages[p][n].from # a -> Says(m, <<"not a participant">>)
      [] everyone -> Says([m EXCEPT !.messages[p][n].gone = TRUE], Given("deleted"))
      [] OTHER -> Says([m EXCEPT !.messages[p][n].hidden = @ \cup {a}], Given("deleted"))

(* a message as it is serialized *)
Shown(msg) == <<msg.id, msg.from, msg.seq, msg.read, msg.gone>>

MemUnread(m, a, p) ==
    Len(SelectSeq(m.messages[p], LAMBDA msg :
            msg.from # a /\ ~msg.read /\ a \notin msg.hidden /\ ~msg.gone))

MemListConversations(m, a, folder) ==
    LET listed == {p \in DOMAIN m.convs :
                    /\ a \in p
                    /\ IF folder = "requests"
                       THEN m.convs[p].state = "request" /\ m.convs[p].by # a
                       ELSE \/ m.convs[p].state = "active"
                            \/ m.convs[p].state = "request" /\ m.convs[p].by = a}
        last(p) == IF m.messages[p] = <<>> THEN <<>> ELSE Shown(Last(m.messages[p]))
        newest == SetToSortSeq(listed, LAMBDA p, q : m.convs[p].order > m.convs[q].order)
    IN  [i \in DOMAIN newest |-> <<newest[i], last(newest[i]), MemUnread(m, a, newest[i])>>]

(* the service leaves out what the viewer deleted for itself *)
MemListMessages(m, a, p) ==
    LET visible == SelectSeq(m.messages[p], LAMBDA msg : a \notin msg.hidden)
    IN  [i \in DOMAIN visible |-> Shown(visible[i])]

-----------------------------------------------------------------------------
(* In Postgres *)

ConversationRow(t, p) == CHOOSE c \in t.convs : c.pair = p

MessagesOf(t, p) == {r \in t.messages : r.pair = p}

(* the default of order_seq is taken from the sequence even when the row is there already *)
PgGetOrCreateConversation(t, a, p, state) ==
    LET used == [t EXCEPT !.nextval = @ + 1]
    IN  IF \E c \in t.convs : c.pair = p
        THEN Says(used, Given(ConversationRow(t, p).state))
        ELSE Says([used EXCEPT !.convs = @ \cup
                    {[pair |-> p, by |-> a, state |-> state, order |-> t.nextval]}],
                  Given(state))

PgSetConversationState(t, p, state) ==
    Says([t EXCEPT !.convs = {IF c.pair = p THEN [c EXCEPT !.state = state] ELSE c : c \in @}],
         Given(state))

PgInsertMessage(t, a, p, id) ==
    LET old == {r \in MessagesOf(t, p) : r.id = id}
        n == 1 + Max({r.seq : r \in MessagesOf(t, p)} \cup {0})
        row == [pair |-> p, id |-> id, from |-> a, seq |-> n, read |-> FALSE, gone |-> FALSE]
    IN  IF old # {}
        THEN Says(t, <<"ok", (CHOOSE r \in old : TRUE).seq, "not new">>)
        ELSE Says([t EXCEPT !.messages = @ \cup {row},
                            !.convs = {IF c.pair = p THEN [c EXCEPT !.order = t.nextval] ELSE c
                                        : c \in @},
                            !.nextval = @ + 1],
                  <<"ok", n, "new">>)

PgMarkRead(t, a, p, upTo) ==
    Says([t EXCEPT !.messages =
            {IF r.pair = p /\ r.from # a /\ r.seq <= upTo THEN [r EXCEPT !.read = TRUE] ELSE r
                : r \in @}],
         Given("read"))

PgDeleteMessage(t, a, p, n, everyone) ==
    LET row == CHOOSE r \in MessagesOf(t, p) : r.seq = n
    IN  CASE a \notin p -> Says(t, <<"not a participant">>)
          [] everyone /\ row.from # a -> Says(t, <<"not a participant">>)
          [] everyone -> Says([t EXCEPT !.messages = (@ \ {row}) \cup {[row EXCEPT !.gone = TRUE]}],
                              Given("deleted"))
          [] OTHER -> Says([t EXCEPT !.deletes = @ \cup {<<p, n, a>>}], Given("deleted"))

PgLastMessage(t, p) ==
    IF MessagesOf(t, p) = {} THEN <<>>
    ELSE Shown(CHOOSE r \in MessagesOf(t, p) : \A o \in MessagesOf(t, p) : o.seq <= r.seq)

PgUnreadCount(t, a, p) ==
    Cardinality({r \in MessagesOf(t, p) :
        r.from # a /\ ~r.read /\ ~r.gone /\ <<p, r.seq, a>> \notin t.deletes})

PgListConversations(t, a, folder) ==
    LET listed == {c \in t.convs :
                    /\ a \in c.pair
                    /\ \/ folder = "requests" /\ c.state = "request" /\ c.by # a
                       \/ folder = "inbox" /\ (c.state = "active" \/ (c.state = "request" /\ c.by = a))}
        newest == SetToSortSeq(listed, LAMBDA c, d : c.order > d.order)
    IN  [i \in DOMAIN newest |->
            <<newest[i].pair, PgLastMessage(t, newest[i].pair), PgUnreadCount(t, a, newest[i].pair)>>]

(* message_deletes is not read: the service finds no message deleted for the viewer *)
PgListMessages(t, p) ==
    LET inOrder == SetToSortSeq(MessagesOf(t, p), LAMBDA r, s : r.seq < s.seq)
    IN  [i \in DOMAIN inOrder |-> Shown(inOrder[i])]

-----------------------------------------------------------------------------
(* The requests *)

AskStartConversation(a, p) ==
    /\ a \in p
    /\ \E state \in InitialStates :
        Ask("inbox", MemGetOrCreateConversation(Mem, a, p, state),
                     PgGetOrCreateConversation(Pg, a, p, state))

AskSendMessage(a, p) ==
    /\ p \in DOMAIN Mem.convs /\ a \in p
    /\ \E id \in ClientIds :
        Ask("inbox", MemInsertMessage(Mem, a, p, id), PgInsertMessage(Pg, a, p, id))

AskMarkRead(a, p) ==
    /\ p \in DOMAIN Mem.convs /\ a \in p
    /\ \E upTo \in DOMAIN Mem.messages[p] :
        Ask("inbox", MemMarkRead(Mem, a, p, upTo), PgMarkRead(Pg, a, p, upTo))

(* the one who started a conversation neither accepts nor declines it *)
AskAnswerRequest(a, p) ==
    /\ p \in DOMAIN Mem.convs /\ a \in p /\ Mem.convs[p].by # a
    /\ \E state \in {"active", "declined"} :
        Ask("inbox", MemSetConversationState(Mem, p, state), PgSetConversationState(Pg, p, state))

AskDeleteMessage(a, p) ==
    \E n \in DOMAIN Mem.messages[p], everyone \in BOOLEAN :
        Ask("inbox", MemDeleteMessage(Mem, a, p, n, everyone),
                     PgDeleteMessage(Pg, a, p, n, everyone))

InboxNext ==
    \E a \in AccountIds, p \in Couples :
        \/ AskStartConversation(a, p) \/ AskSendMessage(a, p) \/ AskMarkRead(a, p)
        \/ AskAnswerRequest(a, p) \/ AskDeleteMessage(a, p)

(* The lists of conversations, with their last messages and what is unread, and the
   messages of each.  What a viewer deleted for itself is known to stay in the list the
   tables give. *)
InboxReadsAlike ==
    \A a \in AccountIds :
        /\ \A folder \in {"inbox", "requests"} :
            MemListConversations(Mem, a, folder) = PgListConversations(Pg, a, folder)
        /\ \A p \in Couples :
            MemListMessages(Mem, a, p)
                = SelectSeq(PgListMessages(Pg, p), LAMBDA msg : <<p, msg[3], a>> \notin Pg.deletes)
=============================================================================
