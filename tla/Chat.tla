-------------------------------- MODULE Chat ---------------------------------
(****************************************************************************)
(* Private chat (chat/chatsvc over its Postgres repository): conversations  *)
(* between two accounts, and messages a client may send again under the     *)
(* same client_msg_id.                                                      *)
(*                                                                          *)
(* A conversation is known by its pair, as the UNIQUE constraint has it.    *)
(* Statements of one transaction under READ COMMITTED see what others have  *)
(* committed; a row that would break a unique constraint waits for the      *)
(* transaction that holds the other row, and fails if that one commits.     *)
(****************************************************************************)
EXTENDS Social, SequencesExt

CONSTANTS ClientMsgIds

VARIABLES
    conv,       \* conversations: state and initiator, or NoConv
    msgs        \* direct_messages of each pair, in the order of their commits

chatVars == <<conv, msgs>>

NoConv == [state |-> "none"]

Message(id, from, n) ==
    [id |-> id, from |-> from, seq |-> n, read |-> FALSE, hidden |-> {}, gone |-> FALSE]

(* where a page is to be opened there is a conversation already *)
ChatInit ==
    /\ LET none == [p \in Pairs |-> NoConv] IN
       \/ ~Serving({"thread"}) /\ conv = none
       \/ /\ Serving({"thread"})
          /\ \E old \in Pairs : \E a \in old :
                conv = [none EXCEPT ![old] = [state |-> "active", by |-> a]]
    /\ msgs = [p \in Pairs |-> <<>>]

-----------------------------------------------------------------------------
(* StartConversation *)

StartConversation(k, a, p) ==
    /\ a \in p
    /\ ~IsBlocked(p)
    /\ Begin("start", k, Contact("converse", "upsert", p,
                [by |-> a, state |-> IF IsMutual(p) THEN "active" ELSE "request"]))
    /\ UNCHANGED <<socialVars, chatVars>>

(* INSERT ... ON CONFLICT: the conversation there is stays as it is *)
GetOrCreateConversation(k) ==
    /\ At(k, "converse", "upsert")
    /\ LET p == call[k].pair IN
       conv' = IF conv[p] # NoConv THEN conv
               ELSE [conv EXCEPT ![p] = [state |-> call[k].state, by |-> call[k].by]]
    /\ Answer(k)
    /\ UNCHANGED <<socialVars, msgs>>

-----------------------------------------------------------------------------
(* SendMessage, for POST /conversations/{id}/messages or for a MESSAGE frame; the
   two differ only where somebody may listen *)

Ways == IF Serving({"thread"}) THEN BOOLEAN ELSE {FALSE}

SendMessageUnchecked(k, a, p, id) ==
    /\ a \in p /\ conv[p] # NoConv
    /\ \E socket \in Ways :
        Begin("chat", k, Contact("send", "look", p,
                                 [by |-> a, id |-> id, seq |-> 0, socket |-> socket]))
    /\ UNCHANGED <<socialVars, chatVars>>

SendMessage(k, a, p, id) ==
    /\ a \in p /\ conv[p] # NoConv
    /\ ~IsBlocked(p)
    /\ \E socket \in Ways :
        Begin("chat", k, Contact("send", "look", p,
                                 [by |-> a, id |-> id, seq |-> 0, socket |-> socket]))
    /\ UNCHANGED <<socialVars, chatVars>>

Taken(p, id, n) == \E i \in DOMAIN msgs[p] : msgs[p][i].id = id \/ msgs[p][i].seq = n

(* another transaction holds a row for the conversation it has not committed;
   its number is the one this transaction wants *)
Contended(k) == \E j \in Slots \ {k} :
                    At(j, "send", "commit") /\ call[j].pair = call[k].pair

(* SendMessage answers with message n, which a MESSAGE frame goes on to publish *)
AnswerWith(k, n) ==
    IF call[k].socket THEN GoOn(k, [call[k] EXCEPT !.pc = "publish", !.seq = n])
    ELSE Answer(k)

StoredAs(p, id) == {i \in DOMAIN msgs[p] : msgs[p][i].id = id}

(* Mutant of LookForMessage: what is not new is not published again. *)
LookForNewMessage(k) ==
    /\ At(k, "send", "look")
    /\ IF StoredAs(call[k].pair, call[k].id) # {} THEN Answer(k) ELSE Goto(k, "insert")
    /\ UNCHANGED <<socialVars, chatVars>>

(* a message already stored under the client's id is the answer *)
LookForMessage(k) ==
    /\ At(k, "send", "look")
    /\ \/ \E i \in StoredAs(call[k].pair, call[k].id) : AnswerWith(k, i)
       \/ StoredAs(call[k].pair, call[k].id) = {} /\ Goto(k, "insert")
    /\ UNCHANGED <<socialVars, chatVars>>

(* Mutant of InsertMessage: no constraint looks at what the statement did not see. *)
InsertUnconstrained(k) ==
    /\ At(k, "send", "insert")
    /\ GoOn(k, [call[k] EXCEPT !.pc = "commit", !.seq = Len(msgs[call[k].pair]) + 1])
    /\ UNCHANGED <<socialVars, chatVars>>

(* INSERT ... SELECT MAX(seq) + 1 *)
InsertMessage(k) ==
    /\ At(k, "send", "insert")
    /\ LET p == call[k].pair
           n == Len(msgs[p]) + 1 IN
       IF Taken(p, call[k].id, n) THEN Answer(k)
       ELSE GoOn(k, [call[k] EXCEPT !.pc = IF Contended(k) THEN "wait" ELSE "commit",
                                    !.seq = n])
    /\ UNCHANGED <<socialVars, chatVars>>

(* the other transaction has ended *)
StopWaiting(k) ==
    /\ At(k, "send", "wait")
    /\ ~Contended(k)
    /\ IF Taken(call[k].pair, call[k].id, call[k].seq) THEN Answer(k) ELSE Goto(k, "commit")
    /\ UNCHANGED <<socialVars, chatVars>>

CommitMessage(k) ==
    /\ At(k, "send", "commit")
    /\ msgs' = [msgs EXCEPT ![call[k].pair] =
                    Append(@, Message(call[k].id, call[k].by, call[k].seq))]
    /\ AnswerWith(k, call[k].seq)
    /\ UNCHANGED <<socialVars, conv>>

-----------------------------------------------------------------------------
(* The requests that change one row: what people do with a conversation they have *)

MarkRead(a, p, upTo) ==
    /\ a \in p /\ conv[p] # NoConv
    /\ Serve("marks")
    /\ msgs' = [msgs EXCEPT ![p] = [i \in DOMAIN @ |->
                    IF @[i].from # a /\ @[i].seq <= upTo
                    THEN [@[i] EXCEPT !.read = TRUE] ELSE @[i]]]
    /\ UNCHANGED <<call, socialVars, conv>>

DeleteForMe(a, p, i) ==
    /\ a \in p
    /\ Serve("marks")
    /\ msgs' = [msgs EXCEPT ![p][i].hidden = @ \cup {a}]
    /\ UNCHANGED <<call, socialVars, conv>>

DeleteForEveryone(a, p, i) ==
    /\ msgs[p][i].from = a
    /\ Serve("marks")
    /\ msgs' = [msgs EXCEPT ![p][i].gone = TRUE]
    /\ UNCHANGED <<call, socialVars, conv>>

(* AcceptRequest and DeclineRequest look at who started the conversation, not
   at the state it is in *)
SetConversationState(a, p, state) ==
    /\ a \in p /\ conv[p] # NoConv
    /\ conv[p].by # a
    /\ Serve("marks")
    /\ conv' = [conv EXCEPT ![p].state = state]
    /\ UNCHANGED <<call, socialVars, msgs>>

ChatNext ==
    \/ \E k \in Slots, a \in AccountIds, p \in Pairs :
        \/ StartConversation(k, a, p)
        \/ \E id \in ClientMsgIds : SendMessage(k, a, p, id)
    \/ \E k \in Slots :
        \/ GetOrCreateConversation(k)
        \/ LookForMessage(k) \/ InsertMessage(k) \/ StopWaiting(k) \/ CommitMessage(k)
    \/ \E a \in AccountIds, p \in Pairs :
        \/ \E i \in DOMAIN msgs[p] : MarkRead(a, p, i) \/ DeleteForMe(a, p, i)
                                        \/ DeleteForEveryone(a, p, i)
        \/ SetConversationState(a, p, "active") \/ SetConversationState(a, p, "declined")

-----------------------------------------------------------------------------
(* A conversation holds one message per client_msg_id, and its messages are
   numbered 1, 2, 3... in the order they were committed, whatever requests to send
   overlap or end early: a client that sends again gets no second message, and one
   that pages on after the last number it has seen misses none (pgrepo
   InsertMessage and ListMessages). *)
DeliveredOnceInOrder ==
    \A p \in Pairs :
        /\ \A i \in DOMAIN msgs[p] : msgs[p][i].seq = i
        /\ \A i, j \in DOMAIN msgs[p] : msgs[p][i].id = msgs[p][j].id => i = j

-----------------------------------------------------------------------------
(****************************************************************************)
(* A conversation open in a browser (webui.go ConversationThread): the      *)
(* history it has loaded once, the messages that came over its socket since *)
(* (useRealtimeConversation), and the gateway that stores a MESSAGE frame   *)
(* and then publishes it on conv:{id} (gateway/ws handlePrivateMessage).    *)
(*                                                                          *)
(* One page is followed.  On its way to it a message waits in the channel   *)
(* of the subscription and in the connection's send buffer, and what comes  *)
(* to either when it is full is dropped.  Unlike the page of a room it asks *)
(* for nothing it has missed: not what was dropped, nor when its socket     *)
(* comes back, nor when messages came between the history and the           *)
(* subscription.  TYPING and READ, which take room in the buffers too, are  *)
(* left out, and so is the end of a list of 200 live messages.              *)
(****************************************************************************)

CONSTANTS
    HistoryLimit,   \* 50 in chat/handlers
    PageBuffer      \* of the channel (64) and of the connection (128)

(* chan and send are the two buffers; dropped is auxiliary: what they lost of the
   connection there is *)
VARIABLES page

threadVars == <<page>>

NoPage == [pair |-> {}]

ThreadInit == page = NoPage

Listening(p) == page.pair = p /\ page.up

(* setSelected: the thread is mounted *)
OpenThread(a, p) ==
    /\ page = NoPage /\ a \in p /\ conv[p] # NoConv
    /\ page' = [pair |-> p, viewer |-> a, up |-> FALSE, loaded |-> FALSE,
                history |-> <<>>, live |-> <<>>, chan |-> <<>>, send |-> <<>>, dropped |-> {}]
    /\ UNCHANGED callVars

(* GET /conversations/{id}/messages, without a cursor: the oldest messages, from
   which those the viewer has deleted are taken out afterwards *)
ListMessages(a, p) ==
    SelectSeq([i \in 1..Min({Len(msgs[p]), HistoryLimit}) |-> i],
              LAMBDA i : a \notin msgs[p][i].hidden)

LoadHistory ==
    /\ page # NoPage /\ ~page.loaded
    /\ page' = [page EXCEPT !.loaded = TRUE, !.history = ListMessages(page.viewer, page.pair)]
    /\ UNCHANGED callVars

(* onopen, and SUBSCRIBE as the gateway handles it for a participant; the
   acknowledgement is ignored *)
Subscribe ==
    /\ page # NoPage /\ ~page.up
    /\ page' = [page EXCEPT !.up = TRUE]
    /\ UNCHANGED callVars

(* onclose, by which a reconnect is scheduled; nobody gets what is under way *)
Disconnect ==
    /\ page # NoPage /\ page.up
    /\ Fail
    /\ page' = [page EXCEPT !.up = FALSE, !.chan = <<>>, !.send = <<>>, !.dropped = {}]
    /\ UNCHANGED call

(* onBack: the thread is unmounted *)
CloseThread ==
    /\ page # NoPage
    /\ Serve("thread")
    /\ page' = NoPage
    /\ UNCHANGED call

(* a send with a default branch, in Publish and in forward: what a full buffer has no
   room for is lost *)
Enqueue(pg, buffer, m) ==
    IF Len(pg[buffer]) < PageBuffer THEN [pg EXCEPT ![buffer] = Append(@, m)]
    ELSE [pg EXCEPT !.dropped = @ \cup {m}]

(* handlePrivateMessage: the message SendMessage answered with, new or not, is
   published to who is subscribed *)
PublishMessage(k) ==
    /\ At(k, "send", "publish")
    /\ page' = IF Listening(call[k].pair) THEN Enqueue(page, "chan", call[k].seq) ELSE page
    /\ Answer(k)

(* client.forward, the goroutine of the subscription *)
Forward ==
    /\ page # NoPage /\ page.chan # <<>>
    /\ page' = Enqueue([page EXCEPT !.chan = Tail(@)], "send", Head(page.chan))
    /\ UNCHANGED callVars

(* each publication has a msg_id of its own, so that dedup lets a second one pass *)
ApplyEvent(pg, m) == [pg EXCEPT !.live = Append(@, m)]

(* writePump writes a frame and the page's onmessage takes it *)
Deliver ==
    /\ page # NoPage /\ page.send # <<>>
    /\ page' = ApplyEvent([page EXCEPT !.send = Tail(@)], Head(page.send))
    /\ UNCHANGED callVars

ThreadNext ==
    \/ \E a \in AccountIds, p \in Pairs : OpenThread(a, p)
    \/ LoadHistory \/ Subscribe \/ Forward \/ Deliver \/ Disconnect \/ CloseThread
    \/ \E k \in Slots : PublishMessage(k)

-----------------------------------------------------------------------------
(* what is rendered: each message where it comes first *)
Merged(pg) ==
    FoldLeft(LAMBDA shown, m : IF Contains(shown, m) THEN shown ELSE Append(shown, m),
             <<>>, pg.history \o pg.live)

(* k is a MESSAGE frame whose handling ends with no error in this step *)
Sends(k) ==
    /\ \E pc \in {"look", "commit", "publish"} : At(k, "send", pc)
    /\ call[k].socket /\ call'[k] = Idle /\ failed' = failed

(* what a page shows, is still to get, or lost to a full buffer *)
Handed(pg) == ToSet(Merged(pg)) \cup ToSet(pg.chan) \cup ToSet(pg.send) \cup pg.dropped

(* A message whose sender was not told of an error is on the page that is subscribed to
   the conversation, on its way there, or lost to a full buffer, though an earlier try
   may have stored it and published nothing (its commit answered with an error); and
   nothing else than a full buffer loses it while the connection lasts, whenever the
   history comes. *)
AnsweredIsOnItsWay ==
    /\ \A k \in Slots : Sends(k) /\ page' # NoPage /\ page'.pair = call[k].pair /\ page'.up =>
        \E i \in Handed(page') : msgs'[call[k].pair][i].id = call[k].id
    /\ page # NoPage /\ page' # NoPage /\ (page.up => page'.up) => Handed(page) \subseteq Handed(page')
=============================================================================
