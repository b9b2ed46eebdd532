---------------------------- MODULE GatewayProofs ----------------------------
(***************************************************************************)
(* Proofs about Gateway for any accounts, connections, limits and buffers: *)
(* the events of a subscription keep their order, the viewer count is the  *)
(* number of subscribers, and replay and live events join without a gap.   *)
(***************************************************************************)
EXTENDS Gateway, FiniteSetTheorems, TLAPS

-----------------------------------------------------------------------------
(* The inductive invariant *)

Lives == {"free", "up", "cut", "closing", "gone"}
Pcs == {"read", "ack", "answer", "publish"}
FrameKinds == {"SUBSCRIBED", "BACKFILL_RESULT", "CATCHUP_REQUIRED", "ERROR", "event"}

Chan == [topic : Topics, on : BOOLEAN, q : Seq(Nat), got : Nat]
Message == {<<"SUBSCRIBE">>, <<"UNSUBSCRIBE">>}
           \cup ({"BACKFILL"} \X Nat) \cup ({"SAY"} \X Chatter \X Accounts)
Frame == [kind : FrameKinds, last : Nat, events : SUBSET Nat, list : Seq(Nat), via : Nat,
          topic : Topics]

(* A connection's record. *)
IsClient(x) ==
    x \in [acct : Accounts, life : Lives, chans : Seq(Chan), inbox : Seq(Message),
           send : Seq(Frame), pc : Pcs, last : Nat, todo : {x.todo}, dropped : SUBSET Nat]

(* A browser's. *)
Page == [cur : Conns \cup {NoConn}, lastSeq : Nat, seen : Seq(Topics \X Nat), shown : SUBSET Nat,
         taken : SUBSET Nat, acked : BOOLEAN, ack : Nat, since : Nat]

(* Events keep their order, and none is ahead of its topic's count. *)
Ordered(x, n) ==
    /\ \A k \in DOMAIN x.chans :
           /\ Ascends(x, k)
           /\ x.chans[k].got <= n[x.chans[k].topic]
           /\ \A j \in DOMAIN x.chans[k].q : x.chans[k].q[j] <= n[x.chans[k].topic]
    /\ \A i \in DOMAIN x.send : x.send[i].kind = "event" =>
           /\ x.send[i].via \in DOMAIN x.chans
           /\ x.send[i].last <= n[x.chans[x.send[i].via].topic]

(* Which events a frame carries: a replay those it lists, an event itself,  *)
(* an ack none.                                                             *)
Carries(f) ==
    /\ f.kind = "BACKFILL_RESULT" => \A s \in f.events : \E j \in DOMAIN f.list : f.list[j] = s
    /\ f.kind = "event" => \A s \in f.events : f.topic = Room /\ s = f.last
    /\ f.kind \in {"SUBSCRIBED", "ERROR"} => f.events = {}

(* What a connection is about to publish or to answer. *)
Busy(x) ==
    /\ x.pc = "publish" => x.todo \in Seq(Topics) /\ x.todo # <<>>
    /\ x.pc = "answer" =>
           /\ x.todo[2] \in Nat
           /\ x.todo[1].ok \in BOOLEAN
           /\ x.todo[1].ok =>
                  /\ x.todo[1].events \in Seq(Nat)
                  /\ \A s \in (x.last + 1)..x.todo[2] :
                         \E i \in DOMAIN x.todo[1].events : x.todo[1].events[i] = s
    /\ \A i \in DOMAIN x.send : Carries(x.send[i])

Holds(x) == \E k \in DOMAIN x.chans : x.chans[k].topic = Room /\ x.chans[k].on
Asking(x, what) == {i \in DOMAIN x.inbox : x.inbox[i][1] = what}
Acking(x) == {i \in DOMAIN x.send : x.send[i].kind = "SUBSCRIBED"}

(* No subscription is being made. *)
Settled(x) == x.pc # "ack" /\ Asking(x, "SUBSCRIBE") = {} /\ Acking(x) = {}

(* A client subscribes when it does not hold the room, once, and waits for  *)
(* the ack.                                                                 *)
Polite(x) ==
    /\ \A i, j \in Asking(x, "SUBSCRIBE") : i = j
    /\ \A i, j \in Acking(x) : i = j
    /\ Asking(x, "SUBSCRIBE") = {} \/ Acking(x) = {}
    /\ x.pc = "ack" => Holds(x) /\ Asking(x, "SUBSCRIBE") = {} /\ Acking(x) = {}
    /\ \A j \in Asking(x, "SUBSCRIBE") :
           ~ Holds(x) \/ \E i \in Asking(x, "UNSUBSCRIBE") : i < j
    /\ \A i \in Asking(x, "UNSUBSCRIBE") : \E j \in Asking(x, "SUBSCRIBE") : i < j
    /\ Acking(x) # {} => Holds(x)

ClientOK(x, n) == IsClient(x) /\ Ordered(x, n) /\ Busy(x) /\ Polite(x)

(* Event s of the room is, as a live event, with the client or on its way,  *)
(* or was lost to a full buffer.                                            *)
Comes(x, p, s) ==
    \/ s \in p.taken
    \/ s \in x.dropped
    \/ \E k \in DOMAIN x.chans : x.chans[k].topic = Room
                                 /\ \E j \in DOMAIN x.chans[k].q : x.chans[k].q[j] = s
    \/ \E i \in DOMAIN x.send : x.send[i].kind = "event" /\ s \in x.send[i].events

(* ... or the replay brings it. *)
Replays(x, p, s) ==
    \/ s \in p.taken
    \/ s \in x.dropped
    \/ \E i \in DOMAIN x.send : s \in x.send[i].events
    \/ \E i \in Asking(x, "BACKFILL") : x.inbox[i][2] < s
    \/ x.pc = "answer" /\ s \in (x.last + 1)..x.todo[2]

LiveSince(x, p, base, n) == base <= n /\ \A s \in (base + 1)..n : Comes(x, p, s)

(* A client and its connection: from the ack on everything comes live, and  *)
(* what it asked for up to the ack is replayed.                             *)
Joined(x, p, n) ==
    /\ x.pc = "ack" => LiveSince(x, p, x.last, n)
    /\ \A i \in Acking(x) : LiveSince(x, p, x.send[i].last, n)
    /\ p.acked => /\ Holds(x) /\ Settled(x)
                  /\ LiveSince(x, p, p.ack, n)
                  /\ \A s \in (p.since + 1)..p.ack : Replays(x, p, s)

PageOK(p) ==
    /\ p \in Page
    /\ \A i \in DOMAIN p.seen : p.seen[i][1] = Room => p.seen[i][2] \in p.taken
    /\ p.acked => p.cur # NoConn

Counts(x) == x.acct # Host /\ Holds(x) /\ x.pc # "ack"
Counted(cs) == {c \in Conns : Counts(cs[c])}

(* Without a socket there is no subscription; one that was never opened is  *)
(* as it was.                                                               *)
NoSocket(x) ==
    /\ x.life = "free" => x = NotOpen("free")
    /\ x.life = "closing" => x.chans = <<>>

(* Connections cs, browsers ap and viewer count v fit one another, when n   *)
(* events have been published per topic.                                    *)
Fine(cs, ap, n, v) ==
    /\ \A c \in Conns : ClientOK(cs[c], n) /\ NoSocket(cs[c])
    /\ \A a \in Accounts :
           /\ PageOK(ap[a])
           /\ ap[a].cur # NoConn =>
                  /\ cs[ap[a].cur].acct = a /\ cs[ap[a].cur].life = "up"
                  /\ Joined(cs[ap[a].cur], ap[a], n[Room])
    /\ v \in Nat
    /\ IsFiniteSet(Counted(cs)) /\ v = Cardinality(Counted(cs))

IInv ==
    /\ seq \in [Topics -> Nat]
    /\ ring \in [Topics -> [0..(BackfillLimit - 1) -> Nat]]
    /\ conn = [c \in Conns |-> conn[c]]
    /\ app = [a \in Accounts |-> app[a]]
    /\ Fine(conn, app, seq, viewers)

-----------------------------------------------------------------------------
(* Induction *)

(* A nonempty set of naturals has a least element. *)
LEMMA LeastNatural ==
    ASSUME NEW T, T \subseteq Nat, T # {}
    PROVE  \E n \in T : \A m \in T : n <= m
<1> DEFINE R == {ss \in Nat \X Nat : ss[1] < ss[2]}
<1>1. OpToRel(<, Nat) = R
  BY DEF OpToRel
<1>2. IsWellFoundedOn(R, Nat)
  BY <1>1, NatLessThanWellFounded
<1> HIDE DEF R
<1>3. PICK n \in T : \A m \in T : ~ (<<m, n>> \in R)
  BY <1>2, WFMin
<1>4. \A m \in T : ~ (m < n)
  BY <1>3 DEF R
<1>5. QED
  BY <1>4

(* A set of naturals with 0 and every successor is Nat. *)
LEMMA SetInduction ==
    ASSUME NEW T, T \subseteq Nat, 0 \in T, \A n \in T : n + 1 \in T
    PROVE  T = Nat
<1> SUFFICES ASSUME T # Nat PROVE FALSE
  OBVIOUS
<1>1. Nat \ T # {}
  OBVIOUS
<1>2. PICK n \in Nat \ T : \A m \in Nat \ T : n <= m
  BY <1>1, LeastNatural
<1>3. n # 0 /\ n - 1 \in Nat /\ n - 1 \notin Nat \ T
  BY <1>2
<1>4. QED
  BY <1>2, <1>3

-----------------------------------------------------------------------------
(* Sequences and records *)

(* What appending does to a sequence. *)
LEMMA AppendIs ==
    ASSUME NEW S, NEW q \in Seq(S), NEW e \in S
    PROVE  /\ Len(q) \in Nat /\ DOMAIN q = 1..Len(q)
           /\ Append(q, e) \in Seq(S) /\ Append(q, e) # <<>>
           /\ DOMAIN Append(q, e) = 1..(Len(q) + 1)
           /\ \A i \in DOMAIN q : Append(q, e)[i] = q[i]
           /\ Append(q, e)[Len(q) + 1] = e
OBVIOUS

(* ... and taking its first element away. *)
LEMMA TailIs ==
    ASSUME NEW S, NEW q \in Seq(S), q # <<>>
    PROVE  /\ Len(q) \in Nat \ {0} /\ DOMAIN q = 1..Len(q)
           /\ Head(q) = q[1] /\ q[1] \in S /\ 1 \in DOMAIN q
           /\ Tail(q) \in Seq(S) /\ DOMAIN Tail(q) = 1..(Len(q) - 1)
           /\ \A i \in DOMAIN Tail(q) : Tail(q)[i] = q[i + 1] /\ i + 1 \in DOMAIN q
           /\ \A i \in DOMAIN q : i > 1 => i - 1 \in DOMAIN Tail(q) /\ Tail(q)[i - 1] = q[i]
OBVIOUS

(* y is x after sendControl, or forward, has sent f. *)
SentTo(x, y, f) ==
    \/ y.send = Append(x.send, f) /\ y.dropped = x.dropped
    \/ y.send = x.send /\ y.dropped = x.dropped \cup f.events

Same(x, y) == y.acct = x.acct /\ y.life = x.life

(* Sending changes the buffer, or what was lost, and nothing else. *)
LEMMA SentIs ==
    ASSUME NEW x, IsClient(x), NEW f \in Frame, NEW y, y = Sent(x, f)
    PROVE  /\ IsClient(y) /\ Same(x, y) /\ SentTo(x, y, f)
           /\ y.chans = x.chans /\ y.inbox = x.inbox
           /\ y.pc = x.pc /\ y.last = x.last /\ y.todo = x.todo
<1>1. Append(x.send, f) \in Seq(Frame) /\ f.events \in SUBSET Nat
  BY AppendIs DEF IsClient, Frame
<1>2. CASE y = [x EXCEPT !.send = Append(@, f)]
  BY <1>1, <1>2 DEF IsClient, Same, SentTo
<1>3. CASE y = [x EXCEPT !.dropped = @ \cup f.events]
  BY <1>1, <1>3 DEF IsClient, Same, SentTo
<1>4. QED
  BY <1>2, <1>3 DEF Sent

(* A control frame changes the order of no events. *)
LEMMA SentKeepsOrder ==
    ASSUME NEW x, IsClient(x), NEW n, Ordered(x, n), NEW f \in Frame, f.kind # "event",
           NEW y, SentTo(x, y, f), y.chans = x.chans
    PROVE  Ordered(y, n)
<1>1. CASE y.send = x.send
  BY <1>1 DEF Ordered, Ascends
<1>2. CASE y.send = Append(x.send, f)
  <2>1. x.send \in Seq(Frame)
    BY DEF IsClient
  <2>2. /\ DOMAIN x.send = 1..Len(x.send) /\ Len(x.send) \in Nat
        /\ DOMAIN y.send = 1..(Len(x.send) + 1)
        /\ \A i \in DOMAIN x.send : y.send[i] = x.send[i]
        /\ y.send[Len(x.send) + 1] = f
    BY <1>2, <2>1, AppendIs
  <2>3. \A i \in DOMAIN y.send : y.send[i].kind = "event" =>
            i \in DOMAIN x.send /\ y.send[i] = x.send[i]
    BY <2>2
  <2>4. ASSUME NEW k \in DOMAIN x.chans
        PROVE  Ascends(y, k)
    BY <2>3 DEF Ordered, Ascends
  <2>5. QED
    BY <2>3, <2>4 DEF Ordered
<1>3. QED
  BY <1>1, <1>2 DEF SentTo

(* What a sent frame means for the buffer: it is its last, or nothing but its *)
(* events is lost.                                                          *)
Adds(x, y, f) ==
    /\ x.dropped \subseteq y.dropped
    /\ \A i \in DOMAIN x.send : i \in DOMAIN y.send /\ y.send[i] = x.send[i]
    /\ \A i \in DOMAIN y.send : \/ i \in DOMAIN x.send /\ y.send[i] = x.send[i]
                                \/ y.send[i] = f /\ \A j \in DOMAIN x.send : j < i
    /\ \A i, j \in DOMAIN y.send : i \notin DOMAIN x.send /\ j \notin DOMAIN x.send => i = j
    /\ \A e \in f.events : \/ e \in y.dropped
                           \/ \E i \in DOMAIN y.send : y.send[i] = f

(* It adds the frame at the end. *)
LEMMA SentAdds ==
    ASSUME NEW x, IsClient(x), NEW f \in Frame, NEW y, SentTo(x, y, f)
    PROVE  Adds(x, y, f)
<1>1. x.send \in Seq(Frame)
  BY DEF IsClient
<1>2. CASE y.send = x.send /\ y.dropped = x.dropped \cup f.events
  BY <1>2 DEF Adds
<1>3. CASE y.send = Append(x.send, f) /\ y.dropped = x.dropped
  <2>1. /\ DOMAIN x.send = 1..Len(x.send) /\ Len(x.send) \in Nat
        /\ DOMAIN y.send = 1..(Len(x.send) + 1)
        /\ \A i \in DOMAIN x.send : y.send[i] = x.send[i]
        /\ y.send[Len(x.send) + 1] = f
    BY <1>1, <1>3, AppendIs
  <2>2. \A i \in DOMAIN y.send : i \in DOMAIN x.send \/ i = Len(x.send) + 1
    BY <2>1
  <2>3. \A j \in DOMAIN x.send : j < Len(x.send) + 1
    BY <2>1
  <2>4. Len(x.send) + 1 \in DOMAIN y.send
    BY <2>1
  <2>5. QED
    BY <1>3, <2>1, <2>2, <2>3, <2>4 DEF Adds
<1>4. QED
  BY <1>2, <1>3 DEF SentTo

(* Sending loses nothing that was to come. *)
LEMMA SentKeepsComing ==
    ASSUME NEW x, NEW f, NEW y, Adds(x, y, f), y.chans = x.chans,
           NEW p, NEW s, Comes(x, p, s)
    PROVE  Comes(y, p, s)
BY DEF Adds, Comes

-----------------------------------------------------------------------------
(* What a step makes of one connection *)

(* It stays a connection of the same account, in order and polite, and its  *)
(* client still gets everything.                                            *)
Continues(x, y, n) ==
    /\ ClientOK(y, n)
    /\ Same(x, y)
    /\ \A p : p.ack \in Int /\ p.since \in Int /\ Joined(x, p, n[Room]) => Joined(y, p, n[Room])

(* The first message is taken from the inbox. *)
Takes(x, y) ==
    /\ x.inbox # <<>> /\ y.inbox = Tail(x.inbox)
    /\ y.send = x.send /\ y.dropped = x.dropped

(* The messages that remain are one place further on. *)
LEMMA TakesAsking ==
    ASSUME NEW x, IsClient(x), NEW y, Takes(x, y)
    PROVE  /\ y.inbox \in Seq(Message) /\ x.inbox[1] \in Message /\ 1 \in DOMAIN x.inbox
           /\ DOMAIN x.inbox \subseteq Nat \ {0} /\ DOMAIN y.inbox \subseteq Nat \ {0}
           /\ \A i \in DOMAIN y.inbox : i + 1 \in DOMAIN x.inbox /\ y.inbox[i] = x.inbox[i + 1]
           /\ \A i \in DOMAIN x.inbox : i # 1 => i - 1 \in DOMAIN y.inbox
                                                 /\ y.inbox[i - 1] = x.inbox[i]
<1>1. x.inbox \in Seq(Message)
  BY DEF IsClient
<1>2. QED
  BY <1>1, TailIs DEF Takes

(* What remains to be asked. *)
LEMMA TakesLeaves ==
    ASSUME NEW x, IsClient(x), NEW y, Takes(x, y), NEW what
    PROVE  /\ Asking(x, what) \subseteq Nat \ {0} /\ Asking(y, what) \subseteq Nat \ {0}
           /\ \A i \in Asking(y, what) : i + 1 \in Asking(x, what) /\ y.inbox[i] = x.inbox[i + 1]
           /\ \A i \in Asking(x, what) : i # 1 => i - 1 \in Asking(y, what)
                                                  /\ y.inbox[i - 1] = x.inbox[i]
           /\ x.inbox[1][1] = what <=> 1 \in Asking(x, what)
           /\ Acking(y) = Acking(x)
<1>1. /\ 1 \in DOMAIN x.inbox
      /\ DOMAIN x.inbox \subseteq Nat \ {0} /\ DOMAIN y.inbox \subseteq Nat \ {0}
  BY TakesAsking
<1>2. \A i \in DOMAIN y.inbox : i + 1 \in DOMAIN x.inbox /\ y.inbox[i] = x.inbox[i + 1]
  BY TakesAsking
<1>3. \A i \in DOMAIN x.inbox : i # 1 => i - 1 \in DOMAIN y.inbox
                                          /\ y.inbox[i - 1] = x.inbox[i]
  BY TakesAsking
<1>4. \A i \in Asking(y, what) : i + 1 \in Asking(x, what) /\ y.inbox[i] = x.inbox[i + 1]
  BY <1>2 DEF Asking
<1>5. \A i \in Asking(x, what) : i # 1 => i - 1 \in Asking(y, what)
                                           /\ y.inbox[i - 1] = x.inbox[i]
  BY <1>3 DEF Asking
<1>6. Acking(y) = Acking(x)
  BY DEF Acking, Takes
<1>7. QED
  BY <1>1, <1>4, <1>5, <1>6 DEF Asking

(* The frames stay in order under any change of channels that keeps what    *)
(* the first of them hold.                                                  *)
LEMMA OrderKept ==
    ASSUME NEW x, NEW n, Ordered(x, n), NEW y, y.send = x.send,
           DOMAIN x.chans \subseteq DOMAIN y.chans,
           \A k \in DOMAIN x.chans :
               /\ y.chans[k].topic = x.chans[k].topic
               /\ y.chans[k].q = x.chans[k].q
               /\ y.chans[k].got = x.chans[k].got,
           \A k \in DOMAIN y.chans \ DOMAIN x.chans :
               y.chans[k].q = <<>> /\ y.chans[k].got = 0 /\ 0 <= n[y.chans[k].topic]
    PROVE  Ordered(y, n)
<1>1. ASSUME NEW k \in DOMAIN x.chans
      PROVE  /\ Ascends(y, k) /\ y.chans[k].got <= n[y.chans[k].topic]
             /\ \A j \in DOMAIN y.chans[k].q : y.chans[k].q[j] <= n[y.chans[k].topic]
  BY DEF Ordered, Ascends
<1>2. ASSUME NEW k \in DOMAIN y.chans \ DOMAIN x.chans
      PROVE  /\ Ascends(y, k) /\ y.chans[k].got <= n[y.chans[k].topic]
             /\ \A j \in DOMAIN y.chans[k].q : y.chans[k].q[j] <= n[y.chans[k].topic]
  <2>1. DOMAIN y.chans[k].q = {}
    OBVIOUS
  <2>2. \A i \in DOMAIN y.send : ~ (y.send[i].kind = "event" /\ y.send[i].via = k)
    BY DEF Ordered
  <2>3. QED
    BY <2>1, <2>2 DEF Ascends
<1>3. QED
  BY <1>1, <1>2 DEF Ordered

(* SUBSCRIBE, up to the ack. *)
LEMMA ReadSubscribe ==
    ASSUME NEW x, NEW n, n[Room] \in Nat, ClientOK(x, n), NEW y, IsClient(y), Same(x, y), Takes(x, y),
           x.inbox[1][1] = "SUBSCRIBE", x.pc = "read",
           y.pc = "ack", y.last = n[Room],
           y.chans = IF Holds(x) THEN x.chans ELSE Append(x.chans, Channel(Room))
    PROVE  Continues(x, y, n) /\ ~ Counts(x) /\ ~ Counts(y)
<1>1. IsClient(x) /\ Ordered(x, n) /\ Busy(x) /\ Polite(x)
  BY DEF ClientOK
<1>2. 1 \in Asking(x, "SUBSCRIBE") /\ Asking(x, "SUBSCRIBE") \subseteq Nat \ {0}
      /\ Asking(x, "UNSUBSCRIBE") \subseteq Nat \ {0}
  BY <1>1, TakesLeaves
<1>3. ~ Holds(x) /\ Acking(x) = {} /\ Asking(x, "UNSUBSCRIBE") = {}
      /\ \A i \in Asking(x, "SUBSCRIBE") : i = 1
  BY <1>1, <1>2 DEF Polite
<1>4. Asking(y, "SUBSCRIBE") = {} /\ Asking(y, "UNSUBSCRIBE") = {} /\ Acking(y) = {}
  BY <1>1, <1>3, TakesLeaves
<1>5. Channel(Room) \in Chan /\ x.chans \in Seq(Chan) /\ y.chans = Append(x.chans, Channel(Room))
  BY <1>1, <1>3 DEF Channel, Chan, Topics, IsClient
<1>6. /\ DOMAIN x.chans \subseteq DOMAIN y.chans
      /\ \A k \in DOMAIN x.chans : y.chans[k] = x.chans[k]
      /\ \A k \in DOMAIN y.chans \ DOMAIN x.chans : y.chans[k] = Channel(Room)
      /\ \E k \in DOMAIN y.chans : y.chans[k] = Channel(Room)
  <2>1. /\ DOMAIN x.chans = 1..Len(x.chans) /\ Len(x.chans) \in Nat
        /\ DOMAIN y.chans = 1..(Len(x.chans) + 1)
        /\ \A k \in DOMAIN x.chans : y.chans[k] = x.chans[k]
        /\ y.chans[Len(x.chans) + 1] = Channel(Room)
    BY <1>5, AppendIs
  <2>2. QED
    BY <2>1
<1>7. /\ Channel(Room).q = <<>> /\ Channel(Room).got = 0
      /\ Channel(Room).topic = Room /\ Channel(Room).on
  BY DEF Channel
<1>8. Ordered(y, n)
  <2>1. y.send = x.send /\ 0 <= n[Room]
    BY DEF Takes
  <2> HIDE DEF Channel
  <2>2. \A k \in DOMAIN y.chans \ DOMAIN x.chans :
            y.chans[k].q = <<>> /\ y.chans[k].got = 0 /\ 0 <= n[y.chans[k].topic]
    BY <1>6, <1>7, <2>1
  <2>3. QED
    BY <1>1, <1>6, <2>1, <2>2, OrderKept
<1>9. Holds(y)
  BY <1>6, <1>7 DEF Holds
<1>10. Busy(y)
  BY <1>1 DEF Busy, Takes
<1>11. Polite(y)
  BY <1>4, <1>9 DEF Polite
<1>12. ASSUME NEW p, Joined(x, p, n[Room])
       PROVE  Joined(y, p, n[Room])
  <2>1. LiveSince(y, p, y.last, n[Room])
    BY DEF LiveSince
  <2>2. ~ p.acked
    BY <1>2, <1>12 DEF Joined, Settled
  <2>3. QED
    BY <1>4, <2>1, <2>2 DEF Joined
<1>13. QED
  BY <1>3, <1>8, <1>10, <1>11, <1>12 DEF Continues, ClientOK, Counts

(* UNSUBSCRIBE, up to the announcement. *)
LEMMA ReadUnsubscribe ==
    ASSUME NEW x, NEW n, ClientOK(x, n), NEW y, IsClient(y), Same(x, y), Takes(x, y),
           x.inbox[1][1] = "UNSUBSCRIBE", x.pc = "read",
           y.pc = "publish", y.todo = <<Room>>, y.chans = Off(x.chans, Room)
    PROVE  Continues(x, y, n) /\ ~ Counts(y)
<1>1. IsClient(x) /\ Ordered(x, n) /\ Busy(x) /\ Polite(x)
  BY DEF ClientOK
<1>2. 1 \in Asking(x, "UNSUBSCRIBE")
  BY <1>1, TakesLeaves
<1>3. Asking(x, "SUBSCRIBE") # {} /\ Acking(x) = {} /\ Acking(y) = {}
  BY <1>1, <1>2, TakesLeaves DEF Polite
<1>4. /\ DOMAIN y.chans = DOMAIN x.chans
      /\ \A k \in DOMAIN x.chans :
             /\ y.chans[k].topic = x.chans[k].topic
             /\ y.chans[k].q = x.chans[k].q
             /\ y.chans[k].got = x.chans[k].got
             /\ x.chans[k].topic = Room => ~ y.chans[k].on
  <2>1. x.chans \in Seq(Chan)
    BY <1>1 DEF IsClient
  <2>2. DOMAIN x.chans = 1..Len(x.chans) /\ \A k \in DOMAIN x.chans : x.chans[k] \in Chan
    BY <2>1
  <2>3. QED
    BY <2>2 DEF Off, Chan
<1>5. Ordered(y, n)
  BY <1>1, <1>4, OrderKept DEF Takes
<1>6. ~ Holds(y)
  BY <1>4 DEF Holds
<1>7. Busy(y)
  <2>1. <<Room>> \in Seq(Topics) /\ <<Room>> # <<>>
    BY DEF Topics
  <2>2. QED
    BY <1>1, <2>1 DEF Busy, Takes
<1>8. Polite(y)
  <2>1. \A i, j \in Asking(y, "SUBSCRIBE") : i = j
    BY <1>1, TakesLeaves DEF Polite
  <2>2. ASSUME NEW i \in Asking(y, "UNSUBSCRIBE")
        PROVE  \E j \in Asking(y, "SUBSCRIBE") : i < j
    <3>1. i \in Nat \ {0} /\ i + 1 \in Asking(x, "UNSUBSCRIBE")
      BY <1>1, <2>2, TakesLeaves
    <3>2. PICK j \in Asking(x, "SUBSCRIBE") : i + 1 < j
      BY <1>1, <3>1 DEF Polite
    <3>3. j \in Nat /\ j - 1 \in Asking(y, "SUBSCRIBE")
      BY <1>1, <3>1, <3>2, TakesLeaves
    <3>4. QED
      BY <3>1, <3>2, <3>3
  <2>3. QED
    BY <1>3, <1>6, <2>1, <2>2 DEF Polite
<1>9. ASSUME NEW p, Joined(x, p, n[Room])
      PROVE  Joined(y, p, n[Room])
  <2>1. ~ p.acked
    BY <1>3, <1>9 DEF Joined, Settled
  <2>2. QED
    BY <1>3, <2>1 DEF Joined
<1>10. QED
  BY <1>5, <1>6, <1>7, <1>8, <1>9 DEF Continues, ClientOK, Counts

(* A message that is about no subscription leaves the politeness as it was. *)
LEMMA ReadOther ==
    ASSUME NEW x, IsClient(x), Polite(x), NEW y, IsClient(y), Takes(x, y),
           x.inbox[1][1] \notin {"SUBSCRIBE", "UNSUBSCRIBE"}, x.pc = "read", y.pc # "ack",
           y.chans = x.chans
    PROVE  /\ Polite(y)
           /\ Settled(x) => Settled(y)
           /\ Holds(y) <=> Holds(x)
<1>1. Holds(y) <=> Holds(x)
  BY DEF Holds
<1>2. 1 \notin Asking(x, "SUBSCRIBE") /\ 1 \notin Asking(x, "UNSUBSCRIBE") /\ Acking(y) = Acking(x)
  BY TakesLeaves
<1>3. \A i \in Asking(x, "SUBSCRIBE") : i - 1 \in Asking(y, "SUBSCRIBE") /\ i \in Nat
  BY <1>2, TakesLeaves
<1>4. \A i \in Asking(x, "UNSUBSCRIBE") : i - 1 \in Asking(y, "UNSUBSCRIBE") /\ i \in Nat
  BY <1>2, TakesLeaves
<1>5. /\ \A i \in Asking(y, "SUBSCRIBE") : i + 1 \in Asking(x, "SUBSCRIBE") /\ i \in Nat
      /\ \A i \in Asking(y, "UNSUBSCRIBE") : i + 1 \in Asking(x, "UNSUBSCRIBE") /\ i \in Nat
  BY TakesLeaves
<1>6. \A i, j \in Asking(y, "SUBSCRIBE") : i = j
  BY <1>5 DEF Polite
<1>7. ASSUME NEW j \in Asking(y, "SUBSCRIBE"), Holds(y)
      PROVE  \E i \in Asking(y, "UNSUBSCRIBE") : i < j
  <2>1. PICK i \in Asking(x, "UNSUBSCRIBE") : i < j + 1
    BY <1>1, <1>5, <1>7 DEF Polite
  <2>2. QED
    BY <1>4, <1>5, <2>1
<1>8. ASSUME NEW i \in Asking(y, "UNSUBSCRIBE")
      PROVE  \E j \in Asking(y, "SUBSCRIBE") : i < j
  <2>1. PICK j \in Asking(x, "SUBSCRIBE") : i + 1 < j
    BY <1>5 DEF Polite
  <2>2. QED
    BY <1>3, <1>5, <2>1
<1>9. Asking(y, "SUBSCRIBE") = {} \/ Acking(y) = {}
  BY <1>2, <1>5 DEF Polite
<1>10. Polite(y)
  BY <1>1, <1>2, <1>6, <1>7, <1>8, <1>9 DEF Polite
<1>11. Settled(x) => Settled(y)
  BY <1>2, <1>5 DEF Settled
<1>12. QED
  BY <1>1, <1>10, <1>11

(* A step that undoes no subscription and loses nothing keeps the client    *)
(* joined.                                                                  *)
LEMMA JoinedKept ==
    ASSUME NEW x, NEW y, NEW p, p.ack \in Int, p.since \in Int, NEW n \in Int, Joined(x, p, n),
           y.pc = "ack" => x.pc = "ack" /\ y.last = x.last,
           \A i \in Acking(y) : i \in Acking(x) /\ y.send[i].last = x.send[i].last,
           Holds(x) => Holds(y), Settled(x) => Settled(y),
           \A s : Comes(x, p, s) => Comes(y, p, s),
           \A s \in Int : p.acked /\ s <= n /\ Replays(x, p, s) => Replays(y, p, s)
    PROVE  Joined(y, p, n)
<1>1. \A base : LiveSince(x, p, base, n) => LiveSince(y, p, base, n)
  BY DEF LiveSince
<1>2. p.acked => \A s \in (p.since + 1)..p.ack : Replays(y, p, s)
  <2>1. SUFFICES ASSUME p.acked, NEW s \in (p.since + 1)..p.ack
                 PROVE  Replays(y, p, s)
    OBVIOUS
  <2>2. s \in Int /\ s <= n
    BY <2>1 DEF Joined, LiveSince
  <2>3. QED
    BY <2>1, <2>2 DEF Joined
<1>3. QED
  BY <1>1, <1>2 DEF Joined

(* What Backfill answers with holds every event after from. *)
LEMMA BackfillIs ==
    ASSUME NEW t, seq[t] \in Nat, NEW from \in Nat, NEW r, r = Backfill(t, from)
    PROVE  /\ r.ok \in BOOLEAN
           /\ r.ok => /\ r.events \in Seq(Nat)
                      /\ \A s \in (from + 1)..seq[t] : \E i \in DOMAIN r.events : r.events[i] = s
<1>1. CASE from >= seq[t]
  <2>1. r = [ok |-> TRUE, events |-> <<>>]
    BY <1>1 DEF Backfill
  <2>2. (from + 1)..seq[t] = {} /\ <<>> \in Seq(Nat)
    BY <1>1
  <2>3. QED
    BY <2>1, <2>2
<1>2. CASE /\ ~ (from >= seq[t])
           /\ \/ seq[t] - from > BackfillLimit
              \/ \E s \in (from + 1)..seq[t] : ring[t][s % BackfillLimit] # s
  <2>1. r = [ok |-> FALSE, events |-> <<>>]
    BY <1>2 DEF Backfill
  <2>2. QED
    BY <2>1
<1>3. CASE /\ ~ (from >= seq[t])
           /\ \A s \in (from + 1)..seq[t] : ring[t][s % BackfillLimit] = s
           /\ ~ (seq[t] - from > BackfillLimit)
  <2> DEFINE gap == seq[t] - from
             e == [i \in 1..gap |-> ring[t][(from + i) % BackfillLimit]]
  <2>1. r = [ok |-> TRUE, events |-> e]
    BY <1>3 DEF Backfill
  <2>2. gap \in Nat
    BY <1>3
  <2>3. \A i \in 1..gap : from + i \in (from + 1)..seq[t]
    BY <2>2
  <2>4. \A i \in 1..gap : e[i] = from + i
    BY <1>3, <2>3
  <2>5. \A s \in (from + 1)..seq[t] : s - from \in 1..gap /\ from + (s - from) = s
    BY <2>2
  <2>6. e \in Seq(Nat)
    <3>1. e = [i \in 1..gap |-> e[i]] /\ DOMAIN e = 1..gap
      OBVIOUS
    <3> HIDE DEF e
    <3>2. \A i \in 1..gap : from + i \in Nat
      BY <2>2
    <3>3. \A i \in 1..gap : e[i] \in Nat
      BY <2>4, <3>2
    <3> HIDE DEF gap
    <3>4. e \in [1..gap -> Nat]
      BY <3>1, <3>3
    <3>5. QED
      BY <2>2, <3>4
  <2>7. DOMAIN e = 1..gap
    OBVIOUS
  <2> HIDE DEF e, gap
  <2>8. \A s \in (from + 1)..seq[t] : \E i \in DOMAIN e : e[i] = s
    BY <2>4, <2>5, <2>7
  <2>9. QED
    BY <2>1, <2>6, <2>8
<1>4. QED
  BY <1>1, <1>2, <1>3

(* BACKFILL, up to its answer. *)
LEMMA ReadBackfill ==
    ASSUME NEW x, NEW n, n[Room] \in Nat, ClientOK(x, n), NEW y, IsClient(y), Same(x, y), Takes(x, y),
           x.inbox[1][1] = "BACKFILL", x.inbox[1][2] \in Nat, x.pc = "read",
           y.pc = "answer", y.last = x.inbox[1][2], y.chans = x.chans, y.todo[2] = n[Room],
           y.todo[1].ok \in BOOLEAN,
           y.todo[1].ok =>
               /\ y.todo[1].events \in Seq(Nat)
               /\ \A s \in (y.last + 1)..n[Room] :
                      \E i \in DOMAIN y.todo[1].events : y.todo[1].events[i] = s
    PROVE  Continues(x, y, n) /\ (Counts(y) <=> Counts(x))
<1>1. IsClient(x) /\ Ordered(x, n) /\ Busy(x) /\ Polite(x)
  BY DEF ClientOK
<1>2. Polite(y) /\ (Settled(x) => Settled(y)) /\ (Holds(y) <=> Holds(x))
  BY <1>1, ReadOther
<1>3. Ordered(y, n)
  BY <1>1, OrderKept DEF Takes
<1>4. Busy(y)
  BY <1>1 DEF Busy, Takes
<1>5. Acking(y) = Acking(x) /\ y.send = x.send /\ y.dropped = x.dropped
  BY <1>1, TakesLeaves DEF Takes
<1>6. \A p, s : Comes(x, p, s) => Comes(y, p, s)
  BY <1>5 DEF Comes
<1>7. ASSUME NEW p, NEW s \in Int, s <= n[Room], Replays(x, p, s)
      PROVE  Replays(y, p, s)
  <2>1. CASE \E i \in Asking(x, "BACKFILL") : x.inbox[i][2] < s
    <3>1. PICK i \in Asking(x, "BACKFILL") : x.inbox[i][2] < s
      BY <2>1
    <3>2. CASE i = 1
      <4>1. s \in (y.last + 1)..y.todo[2]
        BY <1>7, <3>1, <3>2
      <4>2. QED
        BY <4>1 DEF Replays
    <3>3. CASE i # 1
      <4>1. i - 1 \in Asking(y, "BACKFILL") /\ y.inbox[i - 1] = x.inbox[i]
        BY <1>1, <3>1, <3>3, TakesLeaves
      <4>2. QED
        BY <3>1, <4>1 DEF Replays
    <3>4. QED
      BY <3>2, <3>3
  <2>2. QED
    BY <1>5, <1>7, <2>1 DEF Replays
<1>8. ASSUME NEW p, p.ack \in Int, p.since \in Int, Joined(x, p, n[Room])
      PROVE  Joined(y, p, n[Room])
  BY <1>2, <1>5, <1>6, <1>7, <1>8, JoinedKept
<1>9. QED
  BY <1>2, <1>3, <1>4, <1>8 DEF Continues, ClientOK, Counts, Same

(* A message that leads to publications. *)
LEMMA ReadSay ==
    ASSUME NEW x, NEW n, n[Room] \in Nat, ClientOK(x, n), NEW y, IsClient(y), Same(x, y), Takes(x, y),
           x.inbox[1][1] = "SAY", x.pc = "read", y.chans = x.chans,
           y.pc = "read" \/ (y.pc = "publish" /\ y.todo \in Seq(Topics) /\ y.todo # <<>>)
    PROVE  Continues(x, y, n) /\ (Counts(y) <=> Counts(x))
<1>1. IsClient(x) /\ Ordered(x, n) /\ Busy(x) /\ Polite(x)
  BY DEF ClientOK
<1>2. Polite(y) /\ (Settled(x) => Settled(y)) /\ (Holds(y) <=> Holds(x))
  BY <1>1, ReadOther
<1>3. Ordered(y, n)
  BY <1>1, OrderKept DEF Takes
<1>4. Busy(y)
  BY <1>1 DEF Busy, Takes
<1>5. Acking(y) = Acking(x) /\ y.send = x.send /\ y.dropped = x.dropped
  BY <1>1, TakesLeaves DEF Takes
<1>6. \A p, s : Comes(x, p, s) => Comes(y, p, s)
  BY <1>5 DEF Comes
<1>7. ASSUME NEW p, NEW s, Replays(x, p, s)
      PROVE  Replays(y, p, s)
  <2>1. CASE \E i \in Asking(x, "BACKFILL") : x.inbox[i][2] < s
    <3>1. PICK i \in Asking(x, "BACKFILL") : x.inbox[i][2] < s
      BY <2>1
    <3>2. i # 1
      BY <3>1 DEF Asking
    <3>3. i - 1 \in Asking(y, "BACKFILL") /\ y.inbox[i - 1] = x.inbox[i]
      BY <1>1, <3>1, <3>2, TakesLeaves
    <3>4. QED
      BY <3>1, <3>3 DEF Replays
  <2>2. QED
    BY <1>5, <1>7, <2>1 DEF Replays
<1>8. ASSUME NEW p, p.ack \in Int, p.since \in Int, Joined(x, p, n[Room])
      PROVE  Joined(y, p, n[Room])
  BY <1>2, <1>5, <1>6, <1>7, <1>8, JoinedKept
<1>9. QED
  BY <1>2, <1>3, <1>4, <1>8 DEF Continues, ClientOK, Counts, Same

(* The frames of a connection carry what they should, and so does another. *)
LEMMA SentKeepsBusy ==
    ASSUME NEW x, Busy(x), NEW f, Carries(f), NEW y, Adds(x, y, f)
    PROVE  \A i \in DOMAIN y.send : Carries(y.send[i])
BY DEF Busy, Adds

(* A frame other than an ack leaves the acks in the buffer as they were. *)
LEMMA SentKeepsAcks ==
    ASSUME NEW x, NEW f, f.kind # "SUBSCRIBED", NEW y, Adds(x, y, f)
    PROVE  Acking(y) = Acking(x) /\ \A i \in Acking(x) : y.send[i] = x.send[i]
BY DEF Adds, Acking

(* The refusal of a message. *)
LEMMA RefuseContinues ==
    ASSUME NEW x, NEW n, n[Room] \in Nat, ClientOK(x, n),
           NEW y, y = Sent(x, Control("ERROR", 0, {}))
    PROVE  Continues(x, y, n) /\ (Counts(y) <=> Counts(x))
<1> DEFINE f == Control("ERROR", 0, {})
<1>1. IsClient(x) /\ Ordered(x, n) /\ Busy(x) /\ Polite(x)
  BY DEF ClientOK
<1>2. f \in Frame /\ f.kind = "ERROR" /\ Carries(f)
  BY DEF Control, Frame, FrameKinds, Topics, Carries
<1> HIDE DEF f
<1>3. /\ IsClient(y) /\ Same(x, y) /\ SentTo(x, y, f)
      /\ y.chans = x.chans /\ y.inbox = x.inbox
      /\ y.pc = x.pc /\ y.last = x.last /\ y.todo = x.todo
  <2>1. y = Sent(x, f)
    BY DEF f
  <2>2. QED
    BY <1>1, <1>2, <2>1, SentIs
<1>4. Adds(x, y, f)
  BY <1>1, <1>2, <1>3, SentAdds
<1>5. Ordered(y, n)
  BY <1>1, <1>2, <1>3, SentKeepsOrder
<1>6. Busy(y)
  BY <1>1, <1>2, <1>3, <1>4, SentKeepsBusy DEF Busy
<1>7. Acking(y) = Acking(x) /\ \A i \in Acking(x) : y.send[i] = x.send[i]
  BY <1>2, <1>4, SentKeepsAcks
<1>8. /\ Holds(y) <=> Holds(x)
      /\ Settled(y) <=> Settled(x)
      /\ \A what : Asking(y, what) = Asking(x, what)
  BY <1>3, <1>7 DEF Holds, Settled, Asking
<1>9. Polite(y)
  BY <1>1, <1>3, <1>7, <1>8 DEF Polite
<1>10. ASSUME NEW p, p.ack \in Int, p.since \in Int, NEW m \in Int, Joined(x, p, m)
       PROVE  Joined(y, p, m)
  <2>1. \A s : Comes(x, p, s) => Comes(y, p, s)
    BY <1>3, <1>4, SentKeepsComing
  <2>2. \A s : Replays(x, p, s) => Replays(y, p, s)
    BY <1>3, <1>4, <1>8 DEF Replays, Adds
  <2>3. QED
    BY <1>3, <1>7, <1>8, <1>10, <2>1, <2>2, JoinedKept
<1>11. QED
  BY <1>3, <1>5, <1>6, <1>8, <1>9, <1>10 DEF Continues, ClientOK, Counts, Same

(* y is x after it has sent f and changed what it is about. *)
Sends(x, y, f) ==
    /\ IsClient(y) /\ Same(x, y) /\ SentTo(x, y, f)
    /\ y.chans = x.chans /\ y.inbox = x.inbox

GoesOn(z, pc, todo) == [z EXCEPT !.pc = pc, !.todo = todo, !.last = 0]

(* What Ack and Answer make of a connection. *)
LEMMA SendsThen ==
    ASSUME NEW x, IsClient(x), NEW f \in Frame, NEW pc \in Pcs, NEW todo,
           NEW y, y = GoesOn(Sent(x, f), pc, todo)
    PROVE  Sends(x, y, f) /\ y.pc = pc /\ y.todo = todo
<1> DEFINE z == Sent(x, f)
<1>1. IsClient(z) /\ Same(x, z) /\ SentTo(x, z, f) /\ z.chans = x.chans /\ z.inbox = x.inbox
  BY SentIs
<1>2. y = [z EXCEPT !.pc = pc, !.todo = todo, !.last = 0]
  BY DEF GoesOn
<1> HIDE DEF z
<1>3. /\ IsClient(y) /\ Same(z, y)
      /\ y.chans = z.chans /\ y.inbox = z.inbox /\ y.send = z.send /\ y.dropped = z.dropped
      /\ y.pc = pc /\ y.todo = todo
  BY ONLY <1>1, <1>2, pc \in Pcs DEF IsClient, Same
<1>4. QED
  BY <1>1, <1>3 DEF Sends, SentTo, Same

(* The ack of a subscription, from which on everything comes live. *)
LEMMA AckContinues ==
    ASSUME NEW x, NEW n, ClientOK(x, n), x.pc = "ack",
           NEW f \in Frame, f.kind = "SUBSCRIBED", f.last = x.last, Carries(f),
           NEW y, Sends(x, y, f), y.pc = "publish", y.todo = <<Room>>
    PROVE  Continues(x, y, n) /\ ~ Counts(x) /\ (Counts(y) <=> x.acct # Host)
<1>1. IsClient(x) /\ Ordered(x, n) /\ Busy(x) /\ Polite(x)
  BY DEF ClientOK
<1>2. /\ IsClient(y) /\ Same(x, y) /\ SentTo(x, y, f)
      /\ y.chans = x.chans /\ y.inbox = x.inbox
  BY DEF Sends
<1>3. Adds(x, y, f)
  BY <1>1, <1>2, SentAdds
<1>4. Ordered(y, n)
  BY <1>1, <1>2, SentKeepsOrder
<1>5. Busy(y)
  <2>1. <<Room>> \in Seq(Topics) /\ <<Room>> # <<>>
    BY DEF Topics
  <2>2. QED
    BY <1>1, <1>3, <2>1, SentKeepsBusy DEF Busy
<1>6. /\ Acking(x) = {} /\ Asking(x, "SUBSCRIBE") = {} /\ Holds(x)
      /\ \A what : Asking(y, what) = Asking(x, what)
      /\ Holds(y)
  BY <1>1, <1>2 DEF Polite, Asking, Holds
<1>7. /\ \A i \in Acking(y) : i \notin DOMAIN x.send /\ y.send[i] = f
      /\ \A i, j \in Acking(y) : i = j
  BY <1>3, <1>6 DEF Adds, Acking
<1>8. Polite(y)
  BY <1>1, <1>6, <1>7 DEF Polite
<1>9. ASSUME NEW p, NEW m, Joined(x, p, m)
      PROVE  Joined(y, p, m)
  <2>1. ~ p.acked
    BY <1>9 DEF Joined, Settled
  <2>2. LiveSince(x, p, x.last, m)
    BY <1>9 DEF Joined
  <2>3. \A s : Comes(x, p, s) => Comes(y, p, s)
    BY <1>2, <1>3, SentKeepsComing
  <2>4. LiveSince(y, p, x.last, m)
    BY <2>2, <2>3 DEF LiveSince
  <2>5. QED
    BY <1>7, <2>1, <2>4 DEF Joined
<1>10. QED
  BY <1>2, <1>4, <1>5, <1>6, <1>8, <1>9 DEF Continues, ClientOK, Counts, Same

(* The answer to a replay: what was to be answered is in the frame. *)
LEMMA AnswerContinues ==
    ASSUME NEW x, NEW n, n[Room] \in Nat, ClientOK(x, n), x.pc = "answer",
           NEW f \in Frame, f.kind \in {"BACKFILL_RESULT", "CATCHUP_REQUIRED"}, Carries(f),
           \A s \in (x.last + 1)..x.todo[2] : s \in f.events,
           NEW y, Sends(x, y, f), y.pc = "read"
    PROVE  Continues(x, y, n) /\ (Counts(y) <=> Counts(x))
<1>1. IsClient(x) /\ Ordered(x, n) /\ Busy(x) /\ Polite(x)
  BY DEF ClientOK
<1>2. /\ IsClient(y) /\ Same(x, y) /\ SentTo(x, y, f)
      /\ y.chans = x.chans /\ y.inbox = x.inbox
  BY DEF Sends
<1>3. Adds(x, y, f)
  BY <1>1, <1>2, SentAdds
<1>4. Ordered(y, n)
  BY <1>1, <1>2, SentKeepsOrder
<1>5. Busy(y)
  BY <1>1, <1>3, SentKeepsBusy DEF Busy
<1>6. Acking(y) = Acking(x) /\ \A i \in Acking(x) : y.send[i] = x.send[i]
  BY <1>3, SentKeepsAcks
<1>7. /\ Holds(y) <=> Holds(x)
      /\ Settled(y) <=> Settled(x)
      /\ \A what : Asking(y, what) = Asking(x, what)
  BY <1>2, <1>6 DEF Holds, Settled, Asking
<1>8. Polite(y)
  BY <1>1, <1>6, <1>7 DEF Polite
<1>9. ASSUME NEW p, p.ack \in Int, p.since \in Int, Joined(x, p, n[Room])
       PROVE  Joined(y, p, n[Room])
  <2>1. \A s : Comes(x, p, s) => Comes(y, p, s)
    BY <1>2, <1>3, SentKeepsComing
  <2>2. ASSUME NEW s, Replays(x, p, s)
        PROVE  Replays(y, p, s)
    <3>1. CASE s \in (x.last + 1)..x.todo[2]
      <4>1. s \in f.events
        BY <3>1
      <4>2. QED
        BY <1>3, <4>1 DEF Adds, Replays
    <3>2. CASE s \notin (x.last + 1)..x.todo[2]
      BY <1>2, <1>3, <1>7, <2>2, <3>2 DEF Adds, Replays
    <3>3. QED
      BY <3>1, <3>2
  <2>3. QED
    BY <1>6, <1>7, <1>9, <2>1, <2>2, JoinedKept
<1>10. QED
  BY <1>2, <1>4, <1>5, <1>7, <1>8, <1>9 DEF Continues, ClientOK, Counts, Same

(* What Control makes. *)
LEMMA ControlIs ==
    ASSUME NEW kind \in FrameKinds, NEW last \in Nat, NEW events \in SUBSET Nat
    PROVE  /\ Control(kind, last, events) \in Frame
           /\ Control(kind, last, events).kind = kind
           /\ Control(kind, last, events).last = last
           /\ Control(kind, last, events).events = events
BY DEF Control, Frame, FrameKinds, Topics

(* The frame Answer sends is such a frame. *)
LEMMA AnswerIs ==
    ASSUME NEW x, IsClient(x), Busy(x), x.pc = "answer", NEW r, r = x.todo[1], NEW f,
           f = IF r.ok THEN [Control("BACKFILL_RESULT", 0, {r.events[i] : i \in DOMAIN r.events})
                                EXCEPT !.list = r.events]
               ELSE Control("CATCHUP_REQUIRED", 0, (x.last + 1)..x.todo[2])
    PROVE  /\ f \in Frame /\ f.kind \in {"BACKFILL_RESULT", "CATCHUP_REQUIRED"} /\ Carries(f)
           /\ \A s \in (x.last + 1)..x.todo[2] : s \in f.events
<1>1. x.last \in Nat /\ x.todo[2] \in Nat
  BY DEF IsClient, Busy
<1>2. CASE r.ok
  <2>1. /\ r.events \in Seq(Nat)
        /\ \A s \in (x.last + 1)..x.todo[2] : \E i \in DOMAIN r.events : r.events[i] = s
    BY <1>2 DEF Busy
  <2>2. {r.events[i] : i \in DOMAIN r.events} \subseteq Nat
    BY <2>1
  <2>3. f \in Frame /\ f.kind = "BACKFILL_RESULT" /\ f.list = r.events
        /\ f.events = {r.events[i] : i \in DOMAIN r.events}
    BY <1>2, <2>1, <2>2 DEF Control, Frame, FrameKinds, Topics
  <2>4. Carries(f)
    BY SMTT(30), <2>1, <2>3 DEF Carries
  <2>5. QED
    BY <2>1, <2>3, <2>4
<1>3. CASE ~ r.ok
  <2> DEFINE gap == (x.last + 1)..x.todo[2]
             g == Control("CATCHUP_REQUIRED", 0, gap)
  <2>1. gap \in SUBSET Nat /\ f = g
    BY <1>1, <1>3
  <2> HIDE DEF gap
  <2>2. g \in Frame /\ g.kind = "CATCHUP_REQUIRED" /\ g.events = gap
    BY <2>1, ControlIs DEF FrameKinds
  <2> HIDE DEF g
  <2>3. f \in Frame /\ f.kind = "CATCHUP_REQUIRED" /\ f.events = gap
    BY ONLY <2>1, <2>2
  <2>4. Carries(f)
    BY ONLY <2>3 DEF Carries
  <2>5. \A s \in gap : s \in f.events
    BY ONLY <2>3
  <2> USE DEF gap
  <2>6. QED
    BY ONLY <2>3, <2>4, <2>5
<1>4. QED
  BY <1>2, <1>3

(* Between two publications, or after the last. *)
LEMMA PublishedContinues ==
    ASSUME NEW x, NEW n, n[Room] \in Nat, ClientOK(x, n), x.pc = "publish",
           NEW y, IsClient(y), Same(x, y), y.chans = x.chans, y.inbox = x.inbox,
           y.send = x.send, y.dropped = x.dropped,
           y.pc = "read" \/ (y.pc = "publish" /\ y.todo \in Seq(Topics) /\ y.todo # <<>>)
    PROVE  Continues(x, y, n) /\ (Counts(y) <=> Counts(x))
<1>1. IsClient(x) /\ Ordered(x, n) /\ Busy(x) /\ Polite(x)
  BY DEF ClientOK
<1>2. Ordered(y, n)
  BY <1>1, OrderKept
<1>3. Busy(y)
  BY <1>1 DEF Busy
<1>4. /\ Holds(y) <=> Holds(x)
      /\ Settled(y) <=> Settled(x)
      /\ Acking(y) = Acking(x)
      /\ \A what : Asking(y, what) = Asking(x, what)
  BY DEF Holds, Settled, Asking, Acking
<1>5. Polite(y)
  BY <1>1, <1>4 DEF Polite
<1>6. ASSUME NEW p, p.ack \in Int, p.since \in Int, Joined(x, p, n[Room])
      PROVE  Joined(y, p, n[Room])
  <2>1. \A s : Comes(x, p, s) => Comes(y, p, s)
    BY DEF Comes
  <2>2. \A s : Replays(x, p, s) => Replays(y, p, s)
    BY <1>4 DEF Replays
  <2>3. QED
    BY <1>4, <1>6, <2>1, <2>2, JoinedKept
<1>7. QED
  BY <1>2, <1>3, <1>4, <1>5, <1>6 DEF Continues, ClientOK, Counts, Same

(* The records that stand for no socket. *)
LEMMA NotOpenIs ==
    ASSUME NEW life \in Lives
    PROVE  /\ IsClient(NotOpen(life)) /\ NotOpen(life).life = life /\ NotOpen(life).pc = "read"
           /\ NotOpen(life).chans = <<>> /\ NotOpen(life).inbox = <<>> /\ NotOpen(life).send = <<>>
<1> DEFINE z == Client(Host)
           x == NotOpen(life)
<1>1. IsClient(z) /\ z.pc = "read" /\ z.send = <<>>
  <2>1. Channel(Host) \in Chan
    BY GatewayAssumption DEF Channel, Chan, Topics
  <2>2. <<Channel(Host)>> \in Seq(Chan) /\ <<<<"SUBSCRIBE">>>> \in Seq(Message)
        /\ <<>> \in Seq(Frame)
    BY <2>1 DEF Message
  <2>3. QED
    BY <2>2, GatewayAssumption DEF Client, IsClient, Lives, Pcs
<1>2. x = [z EXCEPT !.life = life, !.chans = <<>>, !.inbox = <<>>]
  BY DEF NotOpen
<1> HIDE DEF z, x
<1>3. <<>> \in Seq(Chan) /\ <<>> \in Seq(Message)
  OBVIOUS
<1>4. /\ IsClient(x) /\ x.life = life /\ x.pc = "read"
      /\ x.chans = <<>> /\ x.inbox = <<>> /\ x.send = <<>>
  BY <1>1, <1>2, <1>3 DEF IsClient
<1>5. QED
  BY <1>4 DEF x

(* ... while the departure is being announced. *)
LEMMA ClosingIs ==
    ASSUME NEW a \in Accounts, NEW x,
           x = [NotOpen("closing") EXCEPT !.acct = a, !.pc = "publish", !.todo = <<Room>>]
    PROVE  /\ IsClient(x) /\ x.acct = a /\ x.life = "closing" /\ x.pc = "publish"
           /\ x.todo \in Seq(Topics) /\ x.todo # <<>>
           /\ x.chans = <<>> /\ x.inbox = <<>> /\ x.send = <<>>
<1> DEFINE z == NotOpen("closing")
<1>1. /\ IsClient(z) /\ z.life = "closing"
      /\ z.chans = <<>> /\ z.inbox = <<>> /\ z.send = <<>>
  BY NotOpenIs DEF Lives
<1>2. x = [z EXCEPT !.acct = a, !.pc = "publish", !.todo = <<Room>>]
  OBVIOUS
<1> HIDE DEF z
<1>3. <<Room>> \in Seq(Topics) /\ <<Room>> # <<>>
  BY DEF Topics
<1>4. QED
  BY <1>1, <1>2, <1>3 DEF IsClient, Pcs

(* No socket, no subscription. *)
LEMMA NotOpenOK ==
    ASSUME NEW x, IsClient(x), x.chans = <<>>, x.inbox = <<>>, x.send = <<>>, NEW n,
           x.pc = "read" \/ (x.pc = "publish" /\ x.todo \in Seq(Topics) /\ x.todo # <<>>)
    PROVE  ClientOK(x, n) /\ ~ Counts(x)
<1>1. DOMAIN x.chans = {} /\ DOMAIN x.inbox = {} /\ DOMAIN x.send = {}
  OBVIOUS
<1>2. Ordered(x, n)
  BY <1>1 DEF Ordered
<1>3. Busy(x)
  BY <1>1 DEF Busy
<1>4. Polite(x)
  BY <1>1 DEF Polite, Asking, Acking
<1>5. ~ Holds(x)
  BY <1>1 DEF Holds
<1>6. QED
  BY <1>2, <1>3, <1>4, <1>5 DEF ClientOK, Counts

(* A new connection. *)
LEMMA ClientIs ==
    ASSUME NEW a \in Accounts, NEW n, \A t \in Topics : n[t] \in Nat
    PROVE  /\ ClientOK(Client(a), n) /\ ~ Counts(Client(a))
           /\ Client(a).acct = a /\ Client(a).life = "up"
<1> DEFINE x == Client(a)
<1>1. /\ x.acct = a /\ x.life = "up" /\ x.chans = <<Channel(a)>> /\ x.pc = "read"
      /\ x.inbox = <<<<"SUBSCRIBE">>>> /\ x.send = <<>>
  BY DEF Client
<1>2. Channel(a) \in Chan /\ Channel(a).topic = a /\ Channel(a).q = <<>> /\ Channel(a).got = 0
  BY DEF Channel, Chan, Topics
<1>3. IsClient(x)
  <2>1. <<Channel(a)>> \in Seq(Chan) /\ <<<<"SUBSCRIBE">>>> \in Seq(Message)
    BY <1>2 DEF Message
  <2>2. QED
    BY <2>1 DEF Client, IsClient, Lives, Pcs
<1> HIDE DEF x
<1>4. /\ DOMAIN x.chans = {1} /\ x.chans[1] = Channel(a)
      /\ DOMAIN x.inbox = {1} /\ x.inbox[1][1] = "SUBSCRIBE"
      /\ DOMAIN x.send = {}
  BY <1>1
<1>5. a \in Topics /\ a # Room
  BY GatewayAssumption DEF Topics
<1>6. Ordered(x, n)
  BY <1>2, <1>4, <1>5 DEF Ordered, Ascends
<1>7. Busy(x)
  BY <1>1, <1>4 DEF Busy
<1>8. ~ Holds(x)
  BY <1>2, <1>4, <1>5 DEF Holds
<1>9. Asking(x, "SUBSCRIBE") = {1} /\ Asking(x, "UNSUBSCRIBE") = {} /\ Acking(x) = {}
  BY <1>4 DEF Asking, Acking
<1>10. Polite(x)
  BY <1>1, <1>8, <1>9 DEF Polite
<1>11. QED
  BY <1>1, <1>3, <1>6, <1>7, <1>8, <1>10 DEF ClientOK, Counts, x

-----------------------------------------------------------------------------
(* Events on their way *)

(* y is x without the first event of subscription k's channel. *)
Drawn(x, y, k) ==
    /\ IsClient(y) /\ Same(x, y)
    /\ y.inbox = x.inbox /\ y.send = x.send /\ y.dropped = x.dropped
    /\ y.pc = x.pc /\ y.last = x.last /\ y.todo = x.todo
    /\ DOMAIN y.chans = DOMAIN x.chans
    /\ \A j \in DOMAIN x.chans :
           /\ y.chans[j].topic = x.chans[j].topic
           /\ y.chans[j].on = x.chans[j].on
           /\ y.chans[j].got = x.chans[j].got
           /\ y.chans[j].q = IF j = k THEN Tail(x.chans[j].q) ELSE x.chans[j].q

(* Taking an event from a channel leaves the other channels. *)
LEMMA DrawnIs ==
    ASSUME NEW x, IsClient(x), NEW k \in DOMAIN x.chans, x.chans[k].q # <<>>,
           NEW y, y = [x EXCEPT !.chans[k].q = Tail(@)]
    PROVE  Drawn(x, y, k)
<1> DEFINE ch == [x.chans[k] EXCEPT !.q = Tail(@)]
           chans == [x.chans EXCEPT ![k] = ch]
<1>1. /\ x.chans \in Seq(Chan) /\ DOMAIN x.chans = 1..Len(x.chans) /\ Len(x.chans) \in Nat
      /\ \A j \in DOMAIN x.chans : x.chans[j] \in Chan
  <2>1. x.chans \in Seq(Chan)
    BY DEF IsClient
  <2>2. QED
    BY <2>1
<1>2. x.chans[k].q \in Seq(Nat) /\ Tail(x.chans[k].q) \in Seq(Nat)
  <2>1. x.chans[k].q \in Seq(Nat)
    BY <1>1 DEF Chan
  <2>2. QED
    BY <2>1, TailIs
<1>3. /\ ch \in Chan /\ ch.topic = x.chans[k].topic /\ ch.on = x.chans[k].on
      /\ ch.got = x.chans[k].got /\ ch.q = Tail(x.chans[k].q)
  BY <1>1, <1>2 DEF Chan
<1> HIDE DEF ch
<1>4. chans \in Seq(Chan) /\ DOMAIN chans = DOMAIN x.chans
  BY <1>1, <1>3
<1>5. \A j \in DOMAIN x.chans : chans[j] = IF j = k THEN ch ELSE x.chans[j]
  OBVIOUS
<1>6. y = [x EXCEPT !.chans = chans]
  BY DEF ch, IsClient
<1> HIDE DEF chans
<1>7. IsClient(y) /\ Same(x, y) /\ y.chans = chans
      /\ y.inbox = x.inbox /\ y.send = x.send /\ y.dropped = x.dropped
      /\ y.pc = x.pc /\ y.last = x.last /\ y.todo = x.todo
  BY <1>4, <1>6 DEF IsClient, Same
<1>8. QED
  BY <1>3, <1>4, <1>5, <1>7 DEF Drawn

(* y is x after forwarding frame f from subscription k. *)
Forwards(x, y, k, f) ==
    /\ IsClient(y) /\ Same(x, y) /\ Adds(x, y, f)
    /\ y.inbox = x.inbox /\ y.pc = x.pc /\ y.last = x.last /\ y.todo = x.todo
    /\ DOMAIN y.chans = DOMAIN x.chans
    /\ \A j \in DOMAIN x.chans :
           /\ y.chans[j].topic = x.chans[j].topic
           /\ y.chans[j].on = x.chans[j].on
           /\ y.chans[j].got = x.chans[j].got
           /\ j # k => y.chans[j].q = x.chans[j].q
    /\ y.chans[k].q = Tail(x.chans[k].q)
    /\ f.kind = "event" /\ f.via = k /\ f.last = Head(x.chans[k].q)
    /\ f.topic = x.chans[k].topic
    /\ f.events = IF f.topic = Room THEN {f.last} ELSE {}

(* Forward takes an event from its channel and sends it. *)
LEMMA ForwardIs ==
    ASSUME NEW x, IsClient(x), NEW k \in DOMAIN x.chans, x.chans[k].q # <<>>, NEW z, Drawn(x, z, k),
           NEW f, f = Event(x.chans[k].topic, Head(x.chans[k].q), k),
           NEW y, y = Sent(z, f)
    PROVE  Forwards(x, y, k, f)
<1>1. x.chans[k] \in Chan /\ k \in Nat
  <2>1. x.chans \in Seq(Chan)
    BY DEF IsClient
  <2>2. QED
    BY <2>1
<1>2. x.chans[k].q \in Seq(Nat) /\ x.chans[k].topic \in Topics
  BY <1>1 DEF Chan
<1>3. Head(x.chans[k].q) \in Nat
  BY <1>2, TailIs
<1>4. /\ f \in Frame /\ f.kind = "event" /\ f.via = k /\ f.last = Head(x.chans[k].q)
      /\ f.topic = x.chans[k].topic
      /\ f.events = IF f.topic = Room THEN {f.last} ELSE {}
  BY <1>1, <1>2, <1>3 DEF Event, Frame, FrameKinds
<1>5. /\ IsClient(y) /\ Same(z, y) /\ SentTo(z, y, f)
      /\ y.chans = z.chans /\ y.inbox = z.inbox
      /\ y.pc = z.pc /\ y.last = z.last /\ y.todo = z.todo
  BY SMTT(30), <1>4, SentIs DEF Drawn
<1>6. Adds(z, y, f)
  BY <1>4, <1>5, SentAdds DEF Drawn
<1>7. Adds(x, y, f)
  BY <1>6 DEF Adds, Drawn
<1>8. QED
  BY ZenonT(30), <1>4, <1>5, <1>7 DEF Forwards, Drawn, Same

(* What is in a channel. *)
LEMMA ChannelIs ==
    ASSUME NEW x, IsClient(x), NEW k \in DOMAIN x.chans
    PROVE  x.chans[k] \in Chan /\ x.chans[k].q \in Seq(Nat) /\ k \in Nat \ {0}
<1>1. x.chans \in Seq(Chan)
  BY DEF IsClient
<1>2. x.chans[k] \in Chan /\ k \in Nat \ {0}
  BY <1>1
<1>3. QED
  BY <1>2 DEF Chan

(* ... and in the buffer. *)
LEMMA FrameIs ==
    ASSUME NEW x, IsClient(x), NEW i \in DOMAIN x.send
    PROVE  x.send[i] \in Frame /\ x.send[i].last \in Nat /\ i \in Nat \ {0}
<1>1. x.send \in Seq(Frame)
  BY DEF IsClient
<1>2. x.send[i] \in Frame /\ i \in Nat \ {0}
  BY <1>1
<1>3. QED
  BY <1>2 DEF Frame

(* An event passes from the channel to the buffer after the earlier and     *)
(* before the later ones.                                                   *)
LEMMA ForwardOrder ==
    ASSUME NEW x, NEW n, IsClient(x), Ordered(x, n), NEW k \in DOMAIN x.chans,
           x.chans[k].q # <<>>, NEW f, NEW y, Forwards(x, y, k, f)
    PROVE  Ordered(y, n)
<1> DEFINE q == x.chans[k].q
<1>4. /\ Head(q) = q[1] /\ q[1] \in Nat /\ 1 \in DOMAIN q
      /\ \A i \in DOMAIN Tail(q) : Tail(q)[i] = q[i + 1] /\ i + 1 \in DOMAIN q /\ i \in Nat \ {0}
      /\ \A i \in DOMAIN q : i > 1 => i - 1 \in DOMAIN Tail(q) /\ Tail(q)[i - 1] = q[i]
      /\ DOMAIN q \subseteq Nat \ {0}
  <2>1. q \in Seq(Nat) /\ q # <<>>
    BY ChannelIs
  <2> HIDE DEF q
  <2>2. QED
    BY <2>1, TailIs
<1> HIDE DEF q
<1>5. f.kind = "event" /\ f.via = k /\ f.last = q[1]
  BY <1>4 DEF Forwards, q
<1>7. IsClient(y)
  BY DEF Forwards
<1>9. Adds(x, y, f)
  BY DEF Forwards
<1>10. /\ DOMAIN y.chans = DOMAIN x.chans
       /\ \A j \in DOMAIN x.chans :
              /\ y.chans[j].topic = x.chans[j].topic
              /\ y.chans[j].got = x.chans[j].got
              /\ j # k => y.chans[j].q = x.chans[j].q
       /\ y.chans[k].q = Tail(q)
  BY DEF Forwards, q
<1>11. Ordered(y, n)
  <2>1. /\ \A i \in DOMAIN q : q[i] <= n[x.chans[k].topic] /\ x.chans[k].got < q[i]
        /\ \A i, j \in DOMAIN q : i < j => q[i] < q[j]
        /\ \A i \in DOMAIN x.send : x.send[i].kind = "event" /\ x.send[i].via = k
              => x.send[i].last < q[1]
    BY <1>4 DEF Ordered, Ascends, q
  <2>2. ASSUME NEW j \in DOMAIN x.chans, j # k
        PROVE  Ascends(y, j)
    <3>1. \A i \in DOMAIN y.send : y.send[i].kind = "event" /\ y.send[i].via = j
              => i \in DOMAIN x.send /\ y.send[i] = x.send[i]
      BY <1>5, <1>9, <2>2 DEF Adds
    <3>2. Ascends(x, j)
      BY DEF Ordered
    <3>3. y.chans[j].q = x.chans[j].q /\ y.chans[j].got = x.chans[j].got
      BY <1>10, <2>2
    <3>4. QED
      BY <3>1, <3>2, <3>3 DEF Ascends
  <2>3. Ascends(y, k)
    <3>1. Ascends(x, k)
      BY DEF Ordered
    <3>2. \A i \in DOMAIN y.send : y.send[i].kind = "event" /\ y.send[i].via = k =>
              \/ i \in DOMAIN x.send /\ y.send[i] = x.send[i]
              \/ y.send[i].last = q[1] /\ \A j \in DOMAIN x.send : j < i
      BY <1>5, <1>9 DEF Adds
    <3>3. \A i, j \in DOMAIN y.send : i \notin DOMAIN x.send /\ j \notin DOMAIN x.send => i = j
      BY <1>9 DEF Adds
    <3>4. DOMAIN y.send \subseteq Nat
      <4>1. y.send \in Seq(Frame)
        BY <1>7 DEF IsClient
      <4>2. QED
        BY <4>1
    <3>5. \A i, j \in DOMAIN y.send :
              /\ y.send[i].kind = "event" /\ y.send[i].via = k
              /\ y.send[j].kind = "event" /\ y.send[j].via = k
              /\ i < j
              => y.send[i].last < y.send[j].last
      <4>1. SUFFICES ASSUME NEW i \in DOMAIN y.send, NEW j \in DOMAIN y.send,
                            y.send[i].kind = "event", y.send[i].via = k,
                            y.send[j].kind = "event", y.send[j].via = k, i < j
                     PROVE  y.send[i].last < y.send[j].last
        OBVIOUS
      <4>2. CASE i \in DOMAIN x.send /\ j \in DOMAIN x.send
        <5>1. y.send[i] = x.send[i] /\ y.send[j] = x.send[j]
          BY <1>9, <4>2 DEF Adds
        <5>2. QED
          BY <3>1, <4>1, <4>2, <5>1 DEF Ascends
      <4>3. CASE i \in DOMAIN x.send /\ j \notin DOMAIN x.send
        <5>1. y.send[i] = x.send[i] /\ y.send[j].last = q[1]
          BY <1>9, <3>2, <4>1, <4>3 DEF Adds
        <5>2. QED
          BY <2>1, <4>1, <4>3, <5>1
      <4>4. CASE i \notin DOMAIN x.send /\ j \in DOMAIN x.send
        BY <3>2, <3>4, <4>1, <4>4
      <4>5. CASE i \notin DOMAIN x.send /\ j \notin DOMAIN x.send
        BY <3>3, <3>4, <4>1, <4>5
      <4>6. QED
        BY <4>2, <4>3, <4>4, <4>5
    <3>6. \A i \in DOMAIN y.send : y.send[i].kind = "event" /\ y.send[i].via = k =>
              x.chans[k].got < y.send[i].last /\ \A j \in DOMAIN Tail(q) : y.send[i].last < Tail(q)[j]
      <4>1. SUFFICES ASSUME NEW i \in DOMAIN y.send, y.send[i].kind = "event", y.send[i].via = k
                     PROVE  /\ x.chans[k].got < y.send[i].last
                            /\ \A j \in DOMAIN Tail(q) : y.send[i].last < Tail(q)[j]
        OBVIOUS
      <4>2. CASE i \in DOMAIN x.send /\ y.send[i] = x.send[i]
        BY <1>4, <3>1, <4>1, <4>2 DEF Ascends, q
      <4>3. CASE y.send[i].last = q[1]
        BY <1>4, <2>1, <4>3
      <4>4. QED
        BY <3>2, <4>1, <4>2, <4>3
    <3>7. /\ \A i, j \in DOMAIN Tail(q) : i < j => Tail(q)[i] < Tail(q)[j]
          /\ \A j \in DOMAIN Tail(q) : x.chans[k].got < Tail(q)[j]
      BY <1>4, <2>1
    <3>8. y.chans[k].q = Tail(q) /\ y.chans[k].got = x.chans[k].got
      BY <1>10
    <3>9. QED
      BY <3>5, <3>6, <3>7, <3>8 DEF Ascends
  <2>4. \A j \in DOMAIN x.chans : \A i \in DOMAIN y.chans[j].q :
            y.chans[j].q[i] <= n[x.chans[j].topic]
    <3>1. \A i \in DOMAIN Tail(q) : Tail(q)[i] <= n[x.chans[k].topic]
      BY <1>4, <2>1
    <3>2. QED
      BY <1>10, <3>1 DEF Ordered
  <2>5. \A i \in DOMAIN y.send : y.send[i].kind = "event" =>
            /\ y.send[i].via \in DOMAIN x.chans
            /\ y.send[i].last <= n[x.chans[y.send[i].via].topic]
    <3>1. f.last <= n[x.chans[k].topic]
      BY <1>4, <1>5, <2>1
    <3>2. QED
      BY <1>5, <1>9, <3>1 DEF Ordered, Adds
  <2>6. \A j \in DOMAIN x.chans : y.chans[j].got <= n[x.chans[j].topic]
    BY <1>10 DEF Ordered
  <2>7. QED
    BY <1>10, <2>2, <2>3, <2>4, <2>5, <2>6 DEF Ordered
<1>12. QED
  BY <1>11

(* Forwarding loses no event. *)
LEMMA ForwardContinues ==
    ASSUME NEW x, NEW n, n[Room] \in Nat, ClientOK(x, n), NEW k \in DOMAIN x.chans,
           x.chans[k].q # <<>>, NEW f, NEW y, Forwards(x, y, k, f)
    PROVE  Continues(x, y, n) /\ (Counts(y) <=> Counts(x))
<1> DEFINE q == x.chans[k].q
<1>1. IsClient(x) /\ Ordered(x, n) /\ Busy(x) /\ Polite(x)
  BY DEF ClientOK
<1>4. /\ Head(q) = q[1] /\ q[1] \in Nat /\ 1 \in DOMAIN q
      /\ \A i \in DOMAIN q : i > 1 => i - 1 \in DOMAIN Tail(q) /\ Tail(q)[i - 1] = q[i]
      /\ DOMAIN q \subseteq Nat \ {0}
  <2>1. q \in Seq(Nat) /\ q # <<>>
    BY <1>1, ChannelIs
  <2> HIDE DEF q
  <2>2. QED
    BY <2>1, TailIs
<1> HIDE DEF q
<1>5. /\ f.kind = "event" /\ f.via = k /\ f.last = q[1] /\ f.topic = x.chans[k].topic
      /\ f.events = IF f.topic = Room THEN {f.last} ELSE {}
  BY <1>4 DEF Forwards, q
<1>6. Carries(f)
  BY <1>5 DEF Carries
<1>7. IsClient(y) /\ Same(x, y)
  BY DEF Forwards
<1>9. Adds(x, y, f)
  BY DEF Forwards
<1>10. /\ y.inbox = x.inbox /\ y.pc = x.pc /\ y.last = x.last /\ y.todo = x.todo
       /\ DOMAIN y.chans = DOMAIN x.chans
       /\ \A j \in DOMAIN x.chans :
              /\ y.chans[j].topic = x.chans[j].topic
              /\ y.chans[j].on = x.chans[j].on
              /\ j # k => y.chans[j].q = x.chans[j].q
       /\ y.chans[k].q = Tail(q)
  BY DEF Forwards, q
<1>11. Ordered(y, n)
  BY <1>1, ForwardOrder
<1>12. Busy(y)
  BY <1>1, <1>6, <1>9, <1>10, SentKeepsBusy DEF Busy
<1>13. Acking(y) = Acking(x) /\ \A i \in Acking(x) : y.send[i] = x.send[i]
  BY <1>5, <1>9, SentKeepsAcks
<1>14. /\ Holds(y) <=> Holds(x)
       /\ Settled(y) <=> Settled(x)
       /\ \A what : Asking(y, what) = Asking(x, what)
  BY <1>10, <1>13 DEF Holds, Settled, Asking
<1>15. Polite(y)
  BY <1>1, <1>10, <1>13, <1>14 DEF Polite
<1>16. ASSUME NEW p, p.ack \in Int, p.since \in Int, Joined(x, p, n[Room])
       PROVE  Joined(y, p, n[Room])
  <2>1. ASSUME NEW s, Comes(x, p, s)
        PROVE  Comes(y, p, s)
    <3>1. CASE \E j \in DOMAIN x.chans : x.chans[j].topic = Room
                                         /\ \E i \in DOMAIN x.chans[j].q : x.chans[j].q[i] = s
      <4>1. PICK j \in DOMAIN x.chans : x.chans[j].topic = Room
                                        /\ \E i \in DOMAIN x.chans[j].q : x.chans[j].q[i] = s
        BY <3>1
      <4>2. CASE j # k
        BY <1>10, <4>1, <4>2 DEF Comes
      <4>3. CASE j = k
        <5>1. PICK i \in DOMAIN q : q[i] = s
          BY <4>1, <4>3 DEF q
        <5>2. CASE i = 1
          <6>1. s \in f.events
            BY <1>5, <4>1, <4>3, <5>1, <5>2
          <6>2. QED
            BY <1>5, <1>9, <6>1 DEF Adds, Comes
        <5>3. CASE i # 1
          <6>1. i - 1 \in DOMAIN Tail(q) /\ Tail(q)[i - 1] = s
            BY <1>4, <5>1, <5>3
          <6>2. QED
            BY <1>10, <4>1, <4>3, <6>1 DEF Comes
        <5>4. QED
          BY <5>2, <5>3
      <4>4. QED
        BY <4>2, <4>3
    <3>2. QED
      BY <1>9, <2>1, <3>1 DEF Adds, Comes
  <2>2. \A s : Replays(x, p, s) => Replays(y, p, s)
    BY <1>9, <1>10, <1>14 DEF Replays, Adds
  <2>3. QED
    BY <1>10, <1>13, <1>14, <1>16, <2>1, <2>2, JoinedKept
<1>17. QED
  BY <1>7, <1>10, <1>11, <1>12, <1>14, <1>15, <1>16 DEF Continues, ClientOK, Counts, Same

(* y is x after event s of topic t was offered to its subscriptions. *)
Offered(x, y, t, s) ==
    /\ IsClient(y) /\ Same(x, y)
    /\ y.inbox = x.inbox /\ y.send = x.send /\ y.pc = x.pc /\ y.last = x.last /\ y.todo = x.todo
    /\ DOMAIN y.chans = DOMAIN x.chans
    /\ \A k \in DOMAIN x.chans :
           /\ y.chans[k].topic = x.chans[k].topic
           /\ y.chans[k].on = x.chans[k].on
           /\ y.chans[k].got = x.chans[k].got
           /\ \/ y.chans[k].q = x.chans[k].q
              \/ y.chans[k].q = Append(x.chans[k].q, s) /\ x.chans[k].topic = t
    /\ x.dropped \subseteq y.dropped
    /\ t = Room /\ Holds(x) =>
           \/ s \in y.dropped
           \/ \E k \in DOMAIN x.chans :
                  x.chans[k].topic = Room /\ y.chans[k].q = Append(x.chans[k].q, s)

(* Publish offers an event to every subscription of its topic. *)
LEMMA OfferedIs ==
    ASSUME NEW x, IsClient(x), NEW t \in Topics, NEW s \in Nat,
           NEW y, y = [x EXCEPT !.chans = [k \in DOMAIN @ |-> Offer(@[k], t, s)],
                                !.dropped = IF Loses(x, t) THEN @ \cup {s} ELSE @]
    PROVE  Offered(x, y, t, s)
<1> DEFINE chans == [k \in DOMAIN x.chans |-> Offer(x.chans[k], t, s)]
           dropped == IF Loses(x, t) THEN x.dropped \cup {s} ELSE x.dropped
<1>1. ASSUME NEW k \in DOMAIN x.chans
      PROVE  /\ Offer(x.chans[k], t, s) \in Chan
             /\ Offer(x.chans[k], t, s).topic = x.chans[k].topic
             /\ Offer(x.chans[k], t, s).on = x.chans[k].on
             /\ Offer(x.chans[k], t, s).got = x.chans[k].got
             /\ Offer(x.chans[k], t, s).q =
                    IF x.chans[k].topic = t /\ x.chans[k].on /\ ~ Full(x.chans[k])
                    THEN Append(x.chans[k].q, s) ELSE x.chans[k].q
  <2>1. x.chans[k] \in Chan /\ x.chans[k].q \in Seq(Nat)
    BY ChannelIs
  <2>2. Append(x.chans[k].q, s) \in Seq(Nat)
    BY <2>1
  <2>3. CASE x.chans[k].topic = t /\ x.chans[k].on /\ ~ Full(x.chans[k])
    <3>1. Offer(x.chans[k], t, s) = [x.chans[k] EXCEPT !.q = Append(@, s)]
      BY <2>3 DEF Offer
    <3>2. QED
      BY <2>1, <2>2, <2>3, <3>1 DEF Chan
  <2>4. CASE ~ (x.chans[k].topic = t /\ x.chans[k].on /\ ~ Full(x.chans[k]))
    <3>1. Offer(x.chans[k], t, s) = x.chans[k]
      BY <2>4 DEF Offer
    <3>2. QED
      BY <2>1, <2>4, <3>1
  <2>5. QED
    BY <2>3, <2>4
<1>2. /\ chans \in Seq(Chan) /\ DOMAIN chans = DOMAIN x.chans
      /\ \A k \in DOMAIN x.chans : chans[k] = Offer(x.chans[k], t, s)
  <2>1. x.chans \in Seq(Chan)
    BY DEF IsClient
  <2>2. DOMAIN x.chans = 1..Len(x.chans) /\ Len(x.chans) \in Nat
    BY <2>1
  <2>3. chans \in [1..Len(x.chans) -> Chan]
    BY <1>1, <2>2
  <2>4. QED
    BY <2>2, <2>3
<1>3. x.dropped \subseteq Nat /\ dropped \subseteq Nat /\ x.dropped \subseteq dropped
  BY DEF IsClient
<1>4. y = [x EXCEPT !.chans = chans, !.dropped = dropped]
  BY DEF IsClient
<1>5. t = Room /\ Holds(x) =>
          \/ s \in dropped
          \/ \E k \in DOMAIN x.chans :
                 x.chans[k].topic = Room /\ chans[k].q = Append(x.chans[k].q, s)
  <2>1. SUFFICES ASSUME t = Room, Holds(x)
                 PROVE  \/ s \in dropped
                        \/ \E k \in DOMAIN x.chans :
                               x.chans[k].topic = Room /\ chans[k].q = Append(x.chans[k].q, s)
    OBVIOUS
  <2>2. PICK k \in DOMAIN x.chans : x.chans[k].topic = Room /\ x.chans[k].on
    BY <2>1 DEF Holds
  <2>3. CASE Full(x.chans[k])
    BY <2>1, <2>2, <2>3 DEF Loses
  <2>4. CASE ~ Full(x.chans[k])
    <3>1. Offer(x.chans[k], t, s).q = Append(x.chans[k].q, s)
      BY <1>1, <2>1, <2>2, <2>4
    <3> HIDE DEF chans
    <3>2. QED
      BY <1>2, <2>2, <3>1
  <2>5. QED
    BY <2>3, <2>4
<1> HIDE DEF chans, dropped
<1>6. /\ IsClient(y) /\ Same(x, y) /\ y.chans = chans /\ y.dropped = dropped
      /\ y.inbox = x.inbox /\ y.send = x.send /\ y.pc = x.pc /\ y.last = x.last /\ y.todo = x.todo
  BY <1>2, <1>3, <1>4 DEF IsClient, Same
<1>7. QED
  BY <1>1, <1>2, <1>3, <1>5, <1>6 DEF Offered

(* Nothing that was coming is lost by a publication. *)
LEMMA OfferKeepsComing ==
    ASSUME NEW x, IsClient(x), NEW t, NEW s \in Nat, NEW y, Offered(x, y, t, s),
           NEW p, NEW e, Comes(x, p, e)
    PROVE  Comes(y, p, e)
<1>1. \A k \in DOMAIN x.chans : \A j \in DOMAIN x.chans[k].q :
          j \in DOMAIN y.chans[k].q /\ y.chans[k].q[j] = x.chans[k].q[j]
  <2>1. SUFFICES ASSUME NEW k \in DOMAIN x.chans
                 PROVE  \A j \in DOMAIN x.chans[k].q :
                            j \in DOMAIN y.chans[k].q /\ y.chans[k].q[j] = x.chans[k].q[j]
    OBVIOUS
  <2> DEFINE q == x.chans[k].q
             r == y.chans[k].q
  <2>2. q \in Seq(Nat) /\ (r = q \/ r = Append(q, s))
    BY ChannelIs DEF Offered
  <2> HIDE DEF q, r
  <2>3. \A j \in DOMAIN q : j \in DOMAIN r /\ r[j] = q[j]
    BY <2>2
  <2>4. QED
    BY <2>3 DEF q, r
<1>2. /\ y.send = x.send /\ x.dropped \subseteq y.dropped /\ DOMAIN y.chans = DOMAIN x.chans
      /\ \A k \in DOMAIN x.chans : y.chans[k].topic = x.chans[k].topic
  BY DEF Offered
<1>3. QED
  BY <1>1, <1>2 DEF Comes

(* A publication keeps a connection as it should be; the one event more     *)
(* comes to the client that watches the room.                               *)
LEMMA OfferContinues ==
    ASSUME NEW n \in [Topics -> Nat], NEW t \in Topics, NEW m, m = [n EXCEPT ![t] = n[t] + 1],
           NEW x, ClientOK(x, n), NEW y, Offered(x, y, t, n[t] + 1)
    PROVE  /\ ClientOK(y, m) /\ Same(x, y) /\ (Counts(y) <=> Counts(x))
           /\ \A p : p.ack \in Int /\ p.since \in Int /\ Joined(x, p, n[Room])
                        => Joined(y, p, m[Room])
<1> DEFINE s == n[t] + 1
<1>1. IsClient(x) /\ Ordered(x, n) /\ Busy(x) /\ Polite(x)
  BY DEF ClientOK
<1>2. /\ s \in Nat /\ n[t] \in Nat /\ m[t] = s /\ n[t] < s
      /\ \A u \in Topics : n[u] \in Nat /\ m[u] \in Nat /\ n[u] <= m[u]
      /\ \A u \in Topics : u # t => m[u] = n[u]
  OBVIOUS
<1> HIDE DEF s
<1>3. /\ Offered(x, y, t, s) /\ IsClient(y) /\ Same(x, y)
      /\ y.inbox = x.inbox /\ y.send = x.send /\ y.pc = x.pc /\ y.last = x.last /\ y.todo = x.todo
      /\ DOMAIN y.chans = DOMAIN x.chans /\ x.dropped \subseteq y.dropped
      /\ \A k \in DOMAIN x.chans :
             /\ y.chans[k].topic = x.chans[k].topic
             /\ y.chans[k].on = x.chans[k].on
             /\ y.chans[k].got = x.chans[k].got
  BY DEF Offered, s
<1>4. \A k \in DOMAIN x.chans : x.chans[k].topic \in Topics
  BY <1>1, ChannelIs DEF Chan
<1>5. Ordered(y, m)
  <2>1. ASSUME NEW k \in DOMAIN x.chans
        PROVE  /\ Ascends(y, k) /\ y.chans[k].got <= m[y.chans[k].topic]
               /\ \A j \in DOMAIN y.chans[k].q : y.chans[k].q[j] <= m[y.chans[k].topic]
    <3>1. /\ Ascends(x, k) /\ x.chans[k].got <= n[x.chans[k].topic]
          /\ \A j \in DOMAIN x.chans[k].q : x.chans[k].q[j] <= n[x.chans[k].topic]
          /\ \A i \in DOMAIN x.send : x.send[i].kind = "event" /\ x.send[i].via = k
                => x.send[i].last <= n[x.chans[k].topic]
      BY <1>1 DEF Ordered
    <3>2. CASE y.chans[k].q = x.chans[k].q
      <4>1. Ascends(y, k)
        BY <1>3, <3>1, <3>2 DEF Ascends
      <4>2. /\ x.chans[k].got \in Nat
            /\ \A j \in DOMAIN x.chans[k].q : x.chans[k].q[j] \in Nat
        BY <1>1, ChannelIs DEF Chan
      <4>3. n[x.chans[k].topic] \in Nat /\ m[x.chans[k].topic] \in Nat
            /\ n[x.chans[k].topic] <= m[x.chans[k].topic]
        BY <1>2, <1>4
      <4>4. QED
        BY <1>3, <3>1, <3>2, <4>1, <4>2, <4>3
    <3>3. CASE y.chans[k].q = Append(x.chans[k].q, s) /\ x.chans[k].topic = t
      <4> DEFINE q == x.chans[k].q
                 r == y.chans[k].q
      <4>1. /\ q \in Seq(Nat) /\ Len(q) \in Nat /\ DOMAIN q = 1..Len(q)
            /\ DOMAIN r = 1..(Len(q) + 1)
            /\ \A i \in DOMAIN q : r[i] = q[i] /\ q[i] \in Nat
            /\ r[Len(q) + 1] = s
        <5>1. q \in Seq(Nat) /\ r = Append(q, s)
          BY <1>1, <3>3, ChannelIs
        <5> HIDE DEF q, r
        <5>2. QED
          BY <1>2, <5>1
      <4>2. /\ \A i, j \in DOMAIN q : i < j => q[i] < q[j]
            /\ \A j \in DOMAIN q : q[j] < s /\ x.chans[k].got < q[j]
            /\ x.chans[k].got < s /\ x.chans[k].got \in Nat
        <5>1. x.chans[k].got \in Nat
          BY <1>1, ChannelIs DEF Chan
        <5>2. /\ \A i, j \in DOMAIN q : i < j => q[i] < q[j]
              /\ \A j \in DOMAIN q : x.chans[k].got < q[j] /\ q[j] <= n[t]
          BY <3>1, <3>3 DEF Ascends
        <5> HIDE DEF q, r
        <5>3. QED
          BY <1>2, <3>1, <3>3, <4>1, <5>1, <5>2
      <4>3. \A i \in DOMAIN y.send : y.send[i].kind = "event" /\ y.send[i].via = k =>
                y.send[i].last < s /\ \A j \in DOMAIN q : y.send[i].last < q[j]
        <5>1. \A i \in DOMAIN y.send : y.send[i].last \in Nat
          BY <1>3, FrameIs
        <5>2. QED
          BY <1>2, <1>3, <3>1, <3>3, <5>1 DEF Ascends
      <4> HIDE DEF q
      <4>4. \A i \in DOMAIN r : i \in DOMAIN q \/ (i = Len(q) + 1 /\ r[i] = s)
        BY <4>1
      <4>5. /\ \A i, j \in DOMAIN r : i < j => r[i] < r[j]
            /\ \A j \in DOMAIN r : x.chans[k].got < r[j] /\ r[j] <= s
            /\ \A i \in DOMAIN y.send : y.send[i].kind = "event" /\ y.send[i].via = k =>
                   \A j \in DOMAIN r : y.send[i].last < r[j]
        <5>1. DOMAIN q \subseteq Nat /\ \A i \in DOMAIN q : i < Len(q) + 1
          BY <4>1
        <5> HIDE DEF r
        <5>2. \A i, j \in DOMAIN r : i < j => r[i] < r[j]
          BY <4>1, <4>2, <4>4, <5>1
        <5>3. \A j \in DOMAIN r : x.chans[k].got < r[j] /\ r[j] <= s
          BY <1>2, <4>1, <4>2, <4>4
        <5>4. \A i \in DOMAIN y.send : y.send[i].kind = "event" /\ y.send[i].via = k =>
                  \A j \in DOMAIN r : y.send[i].last < r[j]
          BY <4>1, <4>3, <4>4
        <5>5. QED
          BY <5>2, <5>3, <5>4
      <4>6. Ascends(y, k)
        BY <1>3, <3>1, <4>5 DEF Ascends
      <4>7. QED
        BY <1>2, <1>3, <3>3, <4>2, <4>5, <4>6
    <3>4. QED
      BY <1>3, <3>2, <3>3 DEF Offered
  <2>2. ASSUME NEW i \in DOMAIN y.send, y.send[i].kind = "event"
        PROVE  /\ y.send[i].via \in DOMAIN y.chans
               /\ y.send[i].last <= m[y.chans[y.send[i].via].topic]
    <3>1. y.send[i].last \in Nat
      BY <1>3, FrameIs
    <3>2. y.send[i].via \in DOMAIN x.chans
          /\ y.send[i].last <= n[x.chans[y.send[i].via].topic]
      BY <1>1, <1>3, <2>2 DEF Ordered
    <3>3. QED
      BY <1>2, <1>3, <1>4, <3>1, <3>2
  <2>3. QED
    BY <1>3, <2>1, <2>2 DEF Ordered
<1>6. Busy(y)
  BY <1>1, <1>3 DEF Busy
<1>7. /\ Holds(y) <=> Holds(x)
      /\ Settled(y) <=> Settled(x)
      /\ Acking(y) = Acking(x)
      /\ \A what : Asking(y, what) = Asking(x, what)
  BY <1>3 DEF Holds, Settled, Asking, Acking
<1>8. Polite(y)
  BY <1>1, <1>3, <1>7 DEF Polite
<1>9. ASSUME NEW p, p.ack \in Int, p.since \in Int, Joined(x, p, n[Room])
      PROVE  Joined(y, p, m[Room])
  <2>1. Room \in Topics
    BY DEF Topics
  <2>2. ASSUME NEW base \in Int, Holds(x), LiveSince(x, p, base, n[Room])
        PROVE  LiveSince(y, p, base, m[Room])
    <3>1. ASSUME NEW e \in (base + 1)..m[Room]
          PROVE  Comes(y, p, e)
      <4>1. CASE e <= n[Room]
        <5>1. Comes(x, p, e)
          BY <1>2, <2>1, <2>2, <3>1, <4>1 DEF LiveSince
        <5>2. QED
          BY <1>1, <1>2, <1>3, <5>1, OfferKeepsComing
      <4>2. CASE ~ (e <= n[Room])
        <5>1. t = Room /\ e = s
          BY <1>2, <2>1, <3>1, <4>2 DEF s
        <5>2. CASE s \in y.dropped
          BY <5>1, <5>2 DEF Comes
        <5>3. CASE \E k \in DOMAIN x.chans :
                       x.chans[k].topic = Room /\ y.chans[k].q = Append(x.chans[k].q, s)
          <6>1. PICK k \in DOMAIN x.chans :
                    x.chans[k].topic = Room /\ y.chans[k].q = Append(x.chans[k].q, s)
            BY <5>3
          <6>2. x.chans[k].q \in Seq(Nat)
            BY <1>1, ChannelIs
          <6>3. \E j \in DOMAIN y.chans[k].q : y.chans[k].q[j] = s
            <7> DEFINE q == x.chans[k].q
                       r == y.chans[k].q
            <7>1. q \in Seq(Nat) /\ r = Append(q, s)
              BY <6>1, <6>2
            <7> HIDE DEF q, r
            <7>2. Len(q) + 1 \in DOMAIN r /\ r[Len(q) + 1] = s
              BY <1>2, <7>1
            <7> USE DEF r
            <7>3. QED
              BY <7>2
          <6>4. QED
            BY <1>3, <5>1, <6>1, <6>3 DEF Comes
        <5>4. QED
          BY <1>3, <2>2, <5>1, <5>2, <5>3 DEF Offered
      <4>3. QED
        BY <4>1, <4>2
    <3>2. base <= m[Room]
      BY <1>2, <2>1, <2>2 DEF LiveSince
    <3>3. QED
      BY <3>1, <3>2 DEF LiveSince
  <2>3. \A e : Replays(x, p, e) => Replays(y, p, e)
    BY <1>3, <1>7 DEF Replays
  <2>4. y.pc = "ack" => LiveSince(y, p, y.last, m[Room])
    <3>1. x.last \in Int
      BY <1>1 DEF IsClient
    <3>2. QED
      BY <1>1, <1>3, <1>9, <2>2, <3>1 DEF Joined, Polite
  <2>5. \A i \in Acking(y) : LiveSince(y, p, y.send[i].last, m[Room])
    <3>1. \A i \in Acking(x) : x.send[i].last \in Int
      BY <1>1, FrameIs DEF Acking
    <3>2. QED
      BY <1>1, <1>3, <1>7, <1>9, <2>2, <3>1 DEF Joined, Polite
  <2>6. p.acked => /\ Holds(y) /\ Settled(y)
                   /\ LiveSince(y, p, p.ack, m[Room])
                   /\ \A e \in (p.since + 1)..p.ack : Replays(y, p, e)
    BY <1>7, <1>9, <2>2, <2>3 DEF Joined
  <2>7. QED
    BY <2>4, <2>5, <2>6 DEF Joined
<1>10. QED
  BY <1>3, <1>5, <1>6, <1>7, <1>8, <1>9 DEF ClientOK, Counts, Same

-----------------------------------------------------------------------------
(* What a client asks *)

(* y's inbox is x's and message m. *)
Asks(x, y, m) ==
    /\ \A i \in DOMAIN x.inbox : i \in DOMAIN y.inbox /\ y.inbox[i] = x.inbox[i]
    /\ \A i \in DOMAIN y.inbox : i \in DOMAIN x.inbox \/ y.inbox[i] = m
    /\ \E i \in DOMAIN y.inbox : y.inbox[i] = m

(* Appending to an inbox adds one message. *)
LEMMA AsksIs ==
    ASSUME NEW x, IsClient(x), NEW m \in Message, NEW y, y.inbox = Append(x.inbox, m)
    PROVE  Asks(x, y, m) /\ y.inbox \in Seq(Message)
<1> DEFINE q == x.inbox
           r == y.inbox
<1>1. q \in Seq(Message) /\ r = Append(q, m)
  BY DEF IsClient
<1> HIDE DEF q, r
<1>2. /\ Len(q) \in Nat /\ DOMAIN q = 1..Len(q) /\ DOMAIN r = 1..(Len(q) + 1)
      /\ \A i \in DOMAIN q : r[i] = q[i]
      /\ r[Len(q) + 1] = m
      /\ r \in Seq(Message)
  BY <1>1, AppendIs
<1>3. /\ \A i \in DOMAIN q : i \in DOMAIN r /\ r[i] = q[i]
      /\ \A i \in DOMAIN r : i \in DOMAIN q \/ r[i] = m
      /\ \E i \in DOMAIN r : r[i] = m
  BY <1>2
<1>4. QED
  BY <1>2, <1>3 DEF Asks, q, r

(* y asks for the subscriptions x asks for, and for its replays at least. *)
KeepsAsking(x, y) ==
    /\ Asking(y, "SUBSCRIBE") = Asking(x, "SUBSCRIBE")
    /\ Asking(y, "UNSUBSCRIBE") = Asking(x, "UNSUBSCRIBE")
    /\ \A i \in Asking(x, "BACKFILL") : i \in Asking(y, "BACKFILL") /\ y.inbox[i] = x.inbox[i]

(* A message that is about no subscription changes no subscription. *)
LEMMA AsksKeepsAsking ==
    ASSUME NEW x, NEW m, m[1] \notin {"SUBSCRIBE", "UNSUBSCRIBE"}, NEW y, Asks(x, y, m)
    PROVE  KeepsAsking(x, y)
BY DEF Asks, KeepsAsking, Asking

(* What the user says waits in the inbox. *)
LEMMA SayContinues ==
    ASSUME NEW x, NEW n, n[Room] \in Nat, ClientOK(x, n),
           NEW y, IsClient(y), Same(x, y), KeepsAsking(x, y),
           y.chans = x.chans, y.send = x.send, y.dropped = x.dropped,
           y.pc = x.pc, y.last = x.last, y.todo = x.todo
    PROVE  Continues(x, y, n) /\ (Counts(y) <=> Counts(x))
<1>1. IsClient(x) /\ Ordered(x, n) /\ Busy(x) /\ Polite(x)
  BY DEF ClientOK
<1>2. Ordered(y, n)
  BY <1>1, OrderKept
<1>3. Busy(y)
  BY <1>1 DEF Busy
<1>4. /\ Holds(y) <=> Holds(x)
      /\ Settled(y) <=> Settled(x)
      /\ Acking(y) = Acking(x)
  BY DEF Holds, Settled, KeepsAsking, Acking
<1>5. Polite(y)
  BY <1>1, <1>4 DEF Polite, KeepsAsking
<1>6. ASSUME NEW p, p.ack \in Int, p.since \in Int, Joined(x, p, n[Room])
      PROVE  Joined(y, p, n[Room])
  <2>1. \A s : Comes(x, p, s) => Comes(y, p, s)
    BY DEF Comes
  <2>2. \A s : Replays(x, p, s) => Replays(y, p, s)
    BY DEF Replays, KeepsAsking
  <2>3. QED
    BY <1>4, <1>6, <2>1, <2>2, JoinedKept
<1>7. QED
  BY <1>2, <1>3, <1>4, <1>5, <1>6 DEF Continues, ClientOK, Counts, Same

(* Leaving the room and entering it again: the client waits for another ack. *)
LEMMA RejoinOK ==
    ASSUME NEW x, NEW n, ClientOK(x, n), Holds(x), Settled(x),
           NEW y, IsClient(y), y.inbox = x.inbox \o <<<<"UNSUBSCRIBE">>, <<"SUBSCRIBE">>>>,
           y.acct = x.acct, y.chans = x.chans, y.send = x.send,
           y.pc = x.pc, y.last = x.last, y.todo = x.todo
    PROVE  /\ ClientOK(y, n) /\ (Counts(y) <=> Counts(x))
           /\ \A p : ~ p.acked => Joined(y, p, n[Room])
<1>1. IsClient(x) /\ Ordered(x, n) /\ Busy(x) /\ Polite(x)
  BY DEF ClientOK
<1>2. Ordered(y, n)
  BY <1>1, OrderKept
<1>3. Busy(y)
  BY <1>1 DEF Busy
<1>4. y.pc # "ack" /\ Acking(y) = {} /\ Asking(x, "SUBSCRIBE") = {} /\ Asking(x, "UNSUBSCRIBE") = {}
  BY <1>1 DEF Settled, Polite, Acking
<1> DEFINE q == x.inbox
           r == y.inbox
           l == Len(q)
<1>5. /\ l \in Nat /\ DOMAIN q = 1..l /\ DOMAIN r = 1..(l + 2)
      /\ \A i \in DOMAIN q : r[i] = q[i]
      /\ r[l + 1][1] = "UNSUBSCRIBE" /\ r[l + 2][1] = "SUBSCRIBE"
  <2>1. q \in Seq(Message) /\ r = q \o <<<<"UNSUBSCRIBE">>, <<"SUBSCRIBE">>>>
    BY <1>1 DEF IsClient
  <2> HIDE DEF q, r
  <2>2. QED
    BY <2>1
<1> HIDE DEF l
<1>6. Asking(y, "SUBSCRIBE") = {l + 2} /\ Asking(y, "UNSUBSCRIBE") = {l + 1}
  <2>1. \A i \in DOMAIN q : q[i][1] # "SUBSCRIBE" /\ q[i][1] # "UNSUBSCRIBE"
    BY <1>4 DEF Asking
  <2> HIDE DEF q, r
  <2>2. \A i \in DOMAIN r : i \in DOMAIN q \/ i = l + 1 \/ i = l + 2
    BY <1>5
  <2>3. l + 1 \in DOMAIN r /\ l + 2 \in DOMAIN r
    BY <1>5
  <2>4. /\ {i \in DOMAIN r : r[i][1] = "SUBSCRIBE"} = {l + 2}
        /\ {i \in DOMAIN r : r[i][1] = "UNSUBSCRIBE"} = {l + 1}
    BY <1>5, <2>1, <2>2, <2>3
  <2>5. QED
    BY <2>4 DEF Asking, r
<1>7. Polite(y)
  <2>1. l + 1 < l + 2
    BY <1>5
  <2>2. /\ \A j \in Asking(y, "SUBSCRIBE") : \E i \in Asking(y, "UNSUBSCRIBE") : i < j
        /\ \A i \in Asking(y, "UNSUBSCRIBE") : \E j \in Asking(y, "SUBSCRIBE") : i < j
        /\ \A i, j \in Asking(y, "SUBSCRIBE") : i = j
    BY <1>6, <2>1
  <2>3. QED
    BY <1>4, <2>2 DEF Polite
<1>8. Holds(y) <=> Holds(x)
  BY DEF Holds
<1>9. QED
  BY <1>2, <1>3, <1>4, <1>7, <1>8 DEF ClientOK, Counts, Joined

(* A connection whose socket broke: what was in its buffers is gone. *)
LEMMA CutOK ==
    ASSUME NEW x, NEW n, \A t \in Topics : n[t] \in Nat, ClientOK(x, n),
           NEW y, IsClient(y), y.acct = x.acct, y.inbox = x.inbox, y.send = <<>>,
           y.pc = x.pc, y.last = x.last, y.todo = x.todo,
           DOMAIN y.chans = DOMAIN x.chans,
           \A k \in DOMAIN x.chans :
               /\ y.chans[k].topic = x.chans[k].topic
               /\ y.chans[k].on = x.chans[k].on
               /\ y.chans[k].q = <<>> /\ y.chans[k].got = 0
    PROVE  ClientOK(y, n) /\ (Counts(y) <=> Counts(x))
<1>1. IsClient(x) /\ Ordered(x, n) /\ Busy(x) /\ Polite(x)
  BY DEF ClientOK
<1>2. DOMAIN y.send = {} /\ \A k \in DOMAIN y.chans : DOMAIN y.chans[k].q = {}
  OBVIOUS
<1>3. Ordered(y, n)
  <2>1. \A k \in DOMAIN x.chans : x.chans[k].topic \in Topics
    BY <1>1, ChannelIs DEF Chan
  <2>2. QED
    BY <1>2, <2>1 DEF Ordered, Ascends
<1>4. Busy(y)
  BY <1>1, <1>2 DEF Busy
<1>5. /\ Holds(y) <=> Holds(x)
      /\ Acking(y) = {}
      /\ \A what : Asking(y, what) = Asking(x, what)
  BY <1>2 DEF Holds, Acking, Asking
<1>6. Polite(y)
  BY <1>1, <1>5 DEF Polite
<1>7. QED
  BY <1>3, <1>4, <1>5, <1>6 DEF ClientOK, Counts

-----------------------------------------------------------------------------
(* What a client is handed *)

(* y is x after the first frame of its buffer was written and taken. *)
Handed(x, y) ==
    /\ IsClient(y) /\ Same(x, y) /\ KeepsAsking(x, y)
    /\ x.send # <<>> /\ y.send = Tail(x.send)
    /\ y.pc = x.pc /\ y.last = x.last /\ y.todo = x.todo /\ y.dropped = x.dropped
    /\ DOMAIN y.chans = DOMAIN x.chans
    /\ \A k \in DOMAIN x.chans :
           /\ y.chans[k].topic = x.chans[k].topic
           /\ y.chans[k].on = x.chans[k].on
           /\ y.chans[k].q = x.chans[k].q
           /\ y.chans[k].got = IF x.send[1].kind = "event" /\ x.send[1].via = k
                               THEN x.send[1].last ELSE x.chans[k].got

(* The frames that remain. *)
LEMMA HandedFrames ==
    ASSUME NEW x, IsClient(x), NEW y, Handed(x, y)
    PROVE  /\ x.send[1] \in Frame /\ 1 \in DOMAIN x.send
           /\ \A i \in DOMAIN y.send : i \in Nat \ {0} /\ i + 1 \in DOMAIN x.send
                                       /\ y.send[i] = x.send[i + 1]
           /\ \A i \in DOMAIN x.send : i \in Nat /\ (i # 1 => i - 1 \in DOMAIN y.send
                                                              /\ y.send[i - 1] = x.send[i])
<1> DEFINE q == x.send
           r == y.send
<1>1. q \in Seq(Frame) /\ q # <<>> /\ r = Tail(q)
  BY DEF IsClient, Handed
<1> HIDE DEF q, r
<1>2. /\ q[1] \in Frame /\ 1 \in DOMAIN q
      /\ \A i \in DOMAIN r : i \in Nat \ {0} /\ i + 1 \in DOMAIN q /\ r[i] = q[i + 1]
      /\ \A i \in DOMAIN q : i \in Nat /\ (i # 1 => i - 1 \in DOMAIN r /\ r[i - 1] = q[i])
  BY <1>1
<1>3. QED
  BY <1>2 DEF q, r

(* The client is handed its events in order. *)
LEMMA HandedOrder ==
    ASSUME NEW x, NEW n, IsClient(x), Ordered(x, n), NEW y, Handed(x, y)
    PROVE  Ordered(y, n)
<1>1. /\ 1 \in DOMAIN x.send
      /\ \A i \in DOMAIN y.send : i \in Nat \ {0} /\ i + 1 \in DOMAIN x.send
                                  /\ y.send[i] = x.send[i + 1]
  BY HandedFrames
<1>2. /\ DOMAIN y.chans = DOMAIN x.chans
      /\ \A k \in DOMAIN x.chans :
             /\ y.chans[k].topic = x.chans[k].topic
             /\ y.chans[k].q = x.chans[k].q
             /\ y.chans[k].got = IF x.send[1].kind = "event" /\ x.send[1].via = k
                                 THEN x.send[1].last ELSE x.chans[k].got
  BY DEF Handed
<1>3. ASSUME NEW k \in DOMAIN x.chans
      PROVE  Ascends(y, k)
  <2>1. Ascends(x, k)
    BY DEF Ordered
  <2>2. ASSUME NEW i \in DOMAIN y.send, NEW j \in DOMAIN y.send,
               y.send[i].kind = "event", y.send[i].via = k,
               y.send[j].kind = "event", y.send[j].via = k, i < j
        PROVE  y.send[i].last < y.send[j].last
    <3>1. i + 1 < j + 1
      BY <1>1, <2>2
    <3>2. QED
      BY <1>1, <2>1, <2>2, <3>1 DEF Ascends
  <2>3. \A i, j \in DOMAIN y.chans[k].q : i < j => y.chans[k].q[i] < y.chans[k].q[j]
    BY <1>2, <2>1 DEF Ascends
  <2>4. ASSUME NEW i \in DOMAIN y.send, y.send[i].kind = "event", y.send[i].via = k
        PROVE  /\ y.chans[k].got < y.send[i].last
               /\ \A j \in DOMAIN y.chans[k].q : y.send[i].last < y.chans[k].q[j]
    <3>1. 1 < i + 1 /\ i + 1 \in DOMAIN x.send /\ y.send[i] = x.send[i + 1]
      BY <1>1
    <3>2. x.chans[k].got < x.send[i + 1].last
          /\ \A j \in DOMAIN x.chans[k].q : x.send[i + 1].last < x.chans[k].q[j]
      BY <2>1, <2>4, <3>1 DEF Ascends
    <3>3. x.send[1].kind = "event" /\ x.send[1].via = k => x.send[1].last < x.send[i + 1].last
      BY <1>1, <2>1, <2>4, <3>1 DEF Ascends
    <3>4. QED
      BY <1>2, <3>1, <3>2, <3>3
  <2>5. \A j \in DOMAIN y.chans[k].q : y.chans[k].got < y.chans[k].q[j]
    BY <1>1, <1>2, <2>1 DEF Ascends
  <2>6. QED
    BY <2>2, <2>3, <2>4, <2>5 DEF Ascends
<1>4. \A k \in DOMAIN x.chans : y.chans[k].got <= n[y.chans[k].topic]
  BY <1>1, <1>2 DEF Ordered
<1>5. ASSUME NEW i \in DOMAIN y.send, y.send[i].kind = "event"
      PROVE  /\ y.send[i].via \in DOMAIN y.chans
             /\ y.send[i].last <= n[y.chans[y.send[i].via].topic]
  <2>1. i + 1 \in DOMAIN x.send /\ y.send[i] = x.send[i + 1]
    BY <1>1
  <2>2. QED
    BY <1>2, <1>5, <2>1 DEF Ordered
<1>6. QED
  BY <1>2, <1>3, <1>4, <1>5 DEF Ordered

(* Nothing else of the connection changes. *)
LEMMA HandedOK ==
    ASSUME NEW x, NEW n, ClientOK(x, n), NEW y, Handed(x, y)
    PROVE  /\ ClientOK(y, n) /\ (Counts(y) <=> Counts(x)) /\ (Holds(y) <=> Holds(x))
           /\ Settled(x) => Settled(y)
           /\ \A i \in Acking(y) : i + 1 \in Acking(x) /\ y.send[i] = x.send[i + 1] /\ i # 0
<1>1. IsClient(x) /\ Ordered(x, n) /\ Busy(x) /\ Polite(x)
  BY DEF ClientOK
<1>2. /\ 1 \in DOMAIN x.send
      /\ \A i \in DOMAIN y.send : i \in Nat \ {0} /\ i + 1 \in DOMAIN x.send
                                  /\ y.send[i] = x.send[i + 1]
  BY <1>1, HandedFrames
<1>3. \A i \in Acking(y) : i \in Nat \ {0} /\ i + 1 \in Acking(x) /\ y.send[i] = x.send[i + 1]
  BY <1>2 DEF Acking
<1>4. Holds(y) <=> Holds(x)
  BY DEF Holds, Handed
<1>5. /\ Asking(y, "SUBSCRIBE") = Asking(x, "SUBSCRIBE")
      /\ Asking(y, "UNSUBSCRIBE") = Asking(x, "UNSUBSCRIBE")
      /\ y.pc = x.pc /\ y.last = x.last /\ y.todo = x.todo /\ IsClient(y) /\ Same(x, y)
  BY DEF Handed, KeepsAsking
<1>6. Ordered(y, n)
  BY <1>1, HandedOrder
<1>7. Busy(y)
  BY <1>1, <1>2, <1>5 DEF Busy
<1>8. \A i, j \in Acking(y) : i = j
  <2>1. SUFFICES ASSUME NEW i \in Acking(y), NEW j \in Acking(y)
                 PROVE  i = j
    OBVIOUS
  <2>2. i + 1 = j + 1
    BY <1>1, <1>3 DEF Polite
  <2>3. QED
    BY <1>3, <2>2
<1>9. Acking(y) # {} => Acking(x) # {}
  BY <1>3
<1>10. Polite(y)
  BY <1>1, <1>4, <1>5, <1>8, <1>9 DEF Polite
<1>11. Settled(x) => Settled(y)
  BY <1>5, <1>9 DEF Settled
<1>12. QED
  BY <1>3, <1>4, <1>5, <1>6, <1>7, <1>10, <1>11 DEF ClientOK, Counts, Same

(* What the page has taken needs not come any more. *)
LEMMA HandedComing ==
    ASSUME NEW x, IsClient(x), NEW y, Handed(x, y), NEW p, NEW q, p.taken \subseteq q.taken,
           x.send[1].kind = "event" => x.send[1].events \subseteq q.taken,
           NEW s, Comes(x, p, s)
    PROVE  Comes(y, q, s)
<1>1. \A i \in DOMAIN x.send : i # 1 => i - 1 \in DOMAIN y.send /\ y.send[i - 1] = x.send[i]
  BY HandedFrames
<1>2. CASE \E i \in DOMAIN x.send : x.send[i].kind = "event" /\ s \in x.send[i].events
  <2>1. PICK i \in DOMAIN x.send : x.send[i].kind = "event" /\ s \in x.send[i].events
    BY <1>2
  <2>2. CASE i = 1
    BY <2>1, <2>2 DEF Comes
  <2>3. CASE i # 1
    BY <1>1, <2>1, <2>3 DEF Comes
  <2>4. QED
    BY <2>2, <2>3
<1>3. QED
  BY <1>2 DEF Comes, Handed

(* The same for what is replayed. *)
LEMMA HandedReplay ==
    ASSUME NEW x, IsClient(x), NEW y, Handed(x, y), NEW p, NEW q, p.taken \subseteq q.taken,
           x.send[1].events \subseteq q.taken, NEW s, Replays(x, p, s)
    PROVE  Replays(y, q, s)
<1>1. \A i \in DOMAIN x.send : i # 1 => i - 1 \in DOMAIN y.send /\ y.send[i - 1] = x.send[i]
  BY HandedFrames
<1>2. CASE \E i \in DOMAIN x.send : s \in x.send[i].events
  <2>1. PICK i \in DOMAIN x.send : s \in x.send[i].events
    BY <1>2
  <2>2. CASE i = 1
    BY <2>1, <2>2 DEF Replays
  <2>3. CASE i # 1
    BY <1>1, <2>1, <2>3 DEF Replays
  <2>4. QED
    BY <2>2, <2>3
<1>3. QED
  BY <1>2 DEF Replays, Handed, KeepsAsking

(* A frame of events, or a refusal, keeps the client joined. *)
LEMMA EventsKeepJoined ==
    ASSUME NEW x, NEW n, n[Room] \in Nat, ClientOK(x, n), NEW y, Handed(x, y),
           NEW p, p.ack \in Int, p.since \in Int, Joined(x, p, n[Room]),
           NEW q, p.taken \subseteq q.taken, x.send[1].events \subseteq q.taken,
           q.acked = p.acked, q.ack = p.ack, q.since = p.since
    PROVE  Joined(y, q, n[Room])
<1>1. IsClient(x)
  BY DEF ClientOK
<1>2. \A s : Comes(x, p, s) => Comes(y, q, s)
  BY <1>1, HandedComing
<1>3. \A s : Replays(x, p, s) => Replays(y, q, s)
  BY <1>1, HandedReplay
<1>4. \A base : LiveSince(x, p, base, n[Room]) => LiveSince(y, q, base, n[Room])
  BY <1>2 DEF LiveSince
<1>5. /\ Holds(y) <=> Holds(x)
      /\ Settled(x) => Settled(y)
      /\ \A i \in Acking(y) : i + 1 \in Acking(x) /\ y.send[i] = x.send[i + 1]
  BY HandedOK
<1>6. y.pc = x.pc /\ y.last = x.last
  BY DEF Handed
<1>7. QED
  BY <1>3, <1>4, <1>5, <1>6 DEF Joined

(* CATCHUP_REQUIRED: the page starts over from the ack. *)
LEMMA CatchupKeepsJoined ==
    ASSUME NEW x, NEW n, n[Room] \in Nat, ClientOK(x, n), NEW y, Handed(x, y),
           x.send[1].kind = "CATCHUP_REQUIRED",
           NEW p, p.ack \in Int, Joined(x, p, n[Room]),
           NEW q, p.taken \subseteq q.taken, q.acked = p.acked, q.ack = p.ack, q.since = p.ack
    PROVE  Joined(y, q, n[Room])
<1>1. IsClient(x)
  BY DEF ClientOK
<1>2. \A s : Comes(x, p, s) => Comes(y, q, s)
  BY <1>1, HandedComing
<1>3. \A base : LiveSince(x, p, base, n[Room]) => LiveSince(y, q, base, n[Room])
  BY <1>2 DEF LiveSince
<1>4. /\ Holds(y) <=> Holds(x)
      /\ Settled(x) => Settled(y)
      /\ \A i \in Acking(y) : i + 1 \in Acking(x) /\ y.send[i] = x.send[i + 1]
  BY HandedOK
<1>5. y.pc = x.pc /\ y.last = x.last
  BY DEF Handed
<1>6. (q.since + 1)..q.ack = {}
  OBVIOUS
<1>7. QED
  BY <1>3, <1>4, <1>5, <1>6 DEF Joined

(* SUBSCRIBED: the client is joined from now on. *)
LEMMA AckJoins ==
    ASSUME NEW x, NEW n, n[Room] \in Nat, ClientOK(x, n), NEW y, Handed(x, y),
           x.send[1].kind = "SUBSCRIBED",
           NEW p, Joined(x, p, n[Room]), p.lastSeq \in Nat,
           NEW q, q.taken = p.taken, q.acked, q.ack = x.send[1].last,
           q.since = IF q.ack > p.lastSeq THEN p.lastSeq ELSE q.ack,
           q.ack > p.lastSeq => \E i \in Asking(y, "BACKFILL") : y.inbox[i][2] = p.lastSeq
    PROVE  Joined(y, q, n[Room])
<1>1. IsClient(x) /\ Polite(x)
  BY DEF ClientOK
<1>2. 1 \in Acking(x) /\ x.send[1].last \in Nat
  BY <1>1, HandedFrames DEF Acking, Frame
<1>3. \A s : Comes(x, p, s) => Comes(y, q, s)
  BY <1>1, HandedComing
<1>4. LiveSince(y, q, q.ack, n[Room])
  BY <1>2, <1>3 DEF Joined, LiveSince
<1>5. Acking(y) = {}
  <2>1. \A i \in Acking(y) : i + 1 \in Acking(x) /\ i \in Nat \ {0}
    BY <1>1, HandedFrames DEF Acking
  <2>2. QED
    BY <1>1, <1>2, <2>1 DEF Polite
<1>6. Holds(y) /\ Settled(y)
  <2>1. Holds(x) /\ Asking(x, "SUBSCRIBE") = {} /\ x.pc # "ack"
    BY <1>1, <1>2 DEF Polite
  <2>2. QED
    BY <1>5, <2>1, HandedOK DEF Settled, Handed, KeepsAsking
<1>7. \A s \in (q.since + 1)..q.ack : Replays(y, q, s)
  BY <1>2 DEF Replays
<1>8. QED
  BY <1>4, <1>5, <1>6, <1>7 DEF Joined, Settled

-----------------------------------------------------------------------------
(* The page *)

(* q is page p with more events taken. *)
Learns(p, q) ==
    /\ PageOK(q)
    /\ q.cur = p.cur /\ q.acked = p.acked /\ q.ack = p.ack /\ q.since = p.since
    /\ p.taken \subseteq q.taken

(* What applyEvent has seen it has taken; what it sees it takes. *)
LEMMA ApplyIs ==
    ASSUME NEW p, PageOK(p), NEW t \in Topics, NEW e \in Nat, NEW q, q = Apply(p, t, e)
    PROVE  Learns(p, q) /\ (t = Room => e \in q.taken)
<1>1. CASE \E i \in DOMAIN p.seen : p.seen[i] = <<t, e>>
  <2>1. q = p
    BY <1>1 DEF Apply
  <2>2. PICK i \in DOMAIN p.seen : p.seen[i] = <<t, e>>
    BY <1>1
  <2>3. t = Room => e \in p.taken
    BY <2>2 DEF PageOK
  <2>4. QED
    BY <2>1, <2>3 DEF Learns
<1>2. CASE ~ \E i \in DOMAIN p.seen : p.seen[i] = <<t, e>>
  <2> DEFINE longer == Append(p.seen, <<t, e>>)
             seen == IF Len(longer) > SeenCap THEN Tail(longer) ELSE longer
             lastSeq == IF e > p.lastSeq THEN e ELSE p.lastSeq
             shown == IF t = Room THEN p.shown \cup {e} ELSE p.shown
             taken == IF t = Room THEN p.taken \cup {e} ELSE p.taken
  <2>1. /\ p.seen \in Seq(Topics \X Nat) /\ p.lastSeq \in Nat
        /\ p.shown \subseteq Nat /\ p.taken \subseteq Nat
    BY DEF PageOK, Page
  <2>2. <<t, e>> \in Topics \X Nat
    OBVIOUS
  <2>3. /\ longer \in Seq(Topics \X Nat) /\ longer # <<>>
        /\ \A i \in DOMAIN longer : \/ longer[i] = <<t, e>>
                                    \/ \E j \in DOMAIN p.seen : longer[i] = p.seen[j]
    <3> DEFINE v == p.seen
    <3>1. v \in Seq(Topics \X Nat)
      BY <2>1
    <3>2. /\ Len(v) \in Nat /\ DOMAIN v = 1..Len(v)
          /\ longer \in Seq(Topics \X Nat) /\ longer # <<>>
          /\ DOMAIN longer = 1..(Len(v) + 1)
          /\ \A i \in DOMAIN v : longer[i] = v[i]
          /\ longer[Len(v) + 1] = <<t, e>>
      <4> DEFINE S == Topics \X Nat
                 pair == <<t, e>>
      <4>1. pair \in S /\ v \in Seq(S)
        BY <2>2, <3>1
      <4> HIDE DEF v, S, pair
      <4>2. /\ Len(v) \in Nat /\ DOMAIN v = 1..Len(v)
            /\ Append(v, pair) \in Seq(S) /\ Append(v, pair) # <<>>
            /\ DOMAIN Append(v, pair) = 1..(Len(v) + 1)
            /\ \A i \in DOMAIN v : Append(v, pair)[i] = v[i]
            /\ Append(v, pair)[Len(v) + 1] = pair
        BY <4>1, AppendIs
      <4> USE DEF v, S, pair
      <4>3. QED
        BY <4>2
    <3> HIDE DEF longer
    <3>3. \A i \in DOMAIN longer : i \in DOMAIN v \/ i = Len(v) + 1
      BY <3>2
    <3>4. QED
      BY <3>2, <3>3
  <2> HIDE DEF longer
  <2>4. /\ seen \in Seq(Topics \X Nat)
        /\ \A i \in DOMAIN seen : \/ seen[i] = <<t, e>>
                                  \/ \E j \in DOMAIN p.seen : seen[i] = p.seen[j]
    <3>1. /\ Tail(longer) \in Seq(Topics \X Nat)
          /\ \A i \in DOMAIN Tail(longer) : i + 1 \in DOMAIN longer
                                            /\ Tail(longer)[i] = longer[i + 1]
      BY <2>3, TailIs
    <3>2. CASE seen = Tail(longer)
      BY ZenonT(30), <2>3, <3>1, <3>2
    <3>3. CASE seen = longer
      BY <2>3, <3>3
    <3>4. QED
      BY <3>2, <3>3
  <2>5. lastSeq \in Nat /\ shown \subseteq Nat /\ taken \subseteq Nat
        /\ p.taken \subseteq taken /\ (t = Room => e \in taken)
    BY <2>1
  <2>6. q = [p EXCEPT !.seen = seen, !.lastSeq = lastSeq, !.shown = shown, !.taken = taken]
    BY <1>2 DEF Apply, longer, PageOK, Page
  <2> HIDE DEF seen, lastSeq, shown, taken
  <2>7. \A i \in DOMAIN seen : seen[i][1] = Room => seen[i][2] \in taken
    <3>1. \A j \in DOMAIN p.seen : p.seen[j][1] = Room => p.seen[j][2] \in p.taken
      BY DEF PageOK
    <3>2. QED
      BY <2>4, <2>5, <3>1
  <2>8. /\ q \in Page /\ q.cur = p.cur /\ q.acked = p.acked /\ q.ack = p.ack /\ q.since = p.since
        /\ q.seen = seen /\ q.taken = taken
    BY <2>4, <2>5, <2>6 DEF PageOK, Page
  <2>9. PageOK(q)
    BY <2>7, <2>8 DEF PageOK
  <2>10. QED
    BY <2>5, <2>8, <2>9 DEF Learns
<1>3. QED
  BY <1>1, <1>2

(* The table of pages that ApplyAll builds along a list. *)
IsAfter(g, p, list, l) ==
    g = [i \in 0..l |-> IF i = 0 THEN p ELSE Apply(g[i - 1], Room, list[i])]

(* There is such a table. *)
LEMMA AfterExists ==
    ASSUME NEW p, NEW list, NEW l \in Nat
    PROVE  \E g : IsAfter(g, p, list, l)
<1> DEFINE N == {m \in Nat : \E g : IsAfter(g, p, list, m)}
<1>1. 0 \in N
  <2>1. IsAfter([i \in 0..0 |-> p], p, list, 0)
    BY DEF IsAfter
  <2>2. QED
    BY <2>1
<1>2. ASSUME NEW m \in N
      PROVE  m + 1 \in N
  <2>1. PICK g : IsAfter(g, p, list, m)
    OBVIOUS
  <2> DEFINE h == [i \in 0..(m + 1) |-> IF i = 0 THEN p ELSE Apply(g[i - 1], Room, list[i])]
  <2>2. \A i \in 0..m : h[i] = g[i]
    BY <2>1 DEF IsAfter
  <2>3. \A i \in 0..(m + 1) : i # 0 => i - 1 \in 0..m
    OBVIOUS
  <2>4. IsAfter(h, p, list, m + 1)
    BY <2>2, <2>3 DEF IsAfter
  <2>5. \E k : IsAfter(k, p, list, m + 1)
    <3> HIDE DEF h
    <3>1. QED
      BY <2>4
  <2>6. QED
    BY <2>5
<1>3. N = Nat
  <2> HIDE DEF N
  <2>1. N \subseteq Nat
    BY DEF N
  <2>2. QED
    BY <1>1, <1>2, <2>1, SetInduction
<1>4. QED
  BY <1>3

(* A page that applies a list takes all of it. *)
LEMMA ApplyAllIs ==
    ASSUME NEW p, PageOK(p), NEW list \in Seq(Nat), NEW q, q = ApplyAll(p, list)
    PROVE  Learns(p, q) /\ \A j \in DOMAIN list : list[j] \in q.taken
<1> DEFINE l == Len(list)
           g == CHOOSE g : IsAfter(g, p, list, l)
<1>1. l \in Nat /\ \A j \in 1..l : list[j] \in Nat
  OBVIOUS
<1>2. q = g[l]
  BY DEF ApplyAll, IsAfter
<1>3. IsAfter(g, p, list, l)
  <2> HIDE DEF l
  <2>1. QED
    BY <1>1, AfterExists
<1> HIDE DEF g
<1>4. g[0] = p /\ \A i \in 1..l : g[i] = Apply(g[i - 1], Room, list[i])
  <2> HIDE DEF l
  <2>1. QED
    BY <1>1, <1>3 DEF IsAfter
<1> DEFINE N == {m \in Nat : m <= l => /\ Learns(p, g[m])
                                       /\ \A j \in 1..m : list[j] \in g[m].taken}
<1> HIDE DEF l
<1>5. 0 \in N
  BY <1>4 DEF Learns
<1>6. ASSUME NEW m \in N
      PROVE  m + 1 \in N
  <2>1. SUFFICES ASSUME m + 1 <= l
                 PROVE  /\ Learns(p, g[m + 1])
                        /\ \A j \in 1..(m + 1) : list[j] \in g[m + 1].taken
    OBVIOUS
  <2>2. Learns(p, g[m]) /\ \A j \in 1..m : list[j] \in g[m].taken
    BY <1>1, <2>1
  <2>3. g[m + 1] = Apply(g[m], Room, list[m + 1]) /\ list[m + 1] \in Nat
    BY <1>1, <1>4, <2>1
  <2>4. Learns(g[m], g[m + 1]) /\ list[m + 1] \in g[m + 1].taken
    <3>1. Room \in Topics /\ PageOK(g[m])
      BY <2>2 DEF Topics, Learns
    <3>2. QED
      BY <2>3, <3>1, ApplyIs
  <2>5. QED
    BY <2>2, <2>4 DEF Learns
<1>7. N = Nat
  <2> HIDE DEF N
  <2>1. N \subseteq Nat
    BY DEF N
  <2>2. QED
    BY <1>5, <1>6, <2>1, SetInduction
<1>8. Learns(p, g[l]) /\ \A j \in 1..l : list[j] \in g[l].taken
  BY <1>1, <1>7
<1>9. QED
  BY <1>2, <1>8 DEF l

-----------------------------------------------------------------------------
(* The whole state *)

One(b) == IF b THEN 1 ELSE 0

(* The viewer count follows the connection that changes. *)
LEMMA CountFollows ==
    ASSUME NEW cs, NEW v \in Nat, IsFiniteSet(Counted(cs)), v = Cardinality(Counted(cs)),
           NEW c \in Conns, NEW ds, \A d \in Conns \ {c} : ds[d] = cs[d],
           NEW w, w = v + One(Counts(ds[c])) - One(Counts(cs[c]))
    PROVE  w \in Nat /\ IsFiniteSet(Counted(ds)) /\ w = Cardinality(Counted(ds))
<1>1. \A d \in Conns : d \in Counted(cs) <=> Counts(cs[d])
  BY DEF Counted
<1>2. \A d \in Conns : d \in Counted(ds) <=> Counts(ds[d])
  BY DEF Counted
<1>3. \A d \in Conns \ {c} : d \in Counted(ds) <=> d \in Counted(cs)
  BY <1>1, <1>2
<1>4. Counted(cs) \subseteq Conns /\ Counted(ds) \subseteq Conns
  BY DEF Counted
<1>5. CASE Counts(ds[c]) /\ Counts(cs[c])
  <2>1. Counted(ds) = Counted(cs)
    BY <1>1, <1>2, <1>3, <1>4, <1>5
  <2>2. QED
    BY <1>5, <2>1 DEF One
<1>6. CASE ~ Counts(ds[c]) /\ ~ Counts(cs[c])
  <2>1. Counted(ds) = Counted(cs)
    BY <1>1, <1>2, <1>3, <1>4, <1>6
  <2>2. QED
    BY <1>6, <2>1 DEF One
<1>7. CASE Counts(ds[c]) /\ ~ Counts(cs[c])
  <2>1. Counted(ds) = Counted(cs) \cup {c} /\ c \notin Counted(cs)
    BY <1>1, <1>2, <1>3, <1>4, <1>7
  <2>2. IsFiniteSet(Counted(ds)) /\ Cardinality(Counted(ds)) = v + 1
    BY <2>1, FS_AddElement
  <2>3. QED
    BY <1>7, <2>2 DEF One
<1>8. CASE ~ Counts(ds[c]) /\ Counts(cs[c])
  <2>1. Counted(ds) = Counted(cs) \ {c} /\ c \in Counted(cs)
    BY <1>1, <1>2, <1>3, <1>4, <1>8
  <2>2. IsFiniteSet(Counted(ds)) /\ Cardinality(Counted(ds)) = v - 1
    BY <2>1, FS_RemoveElement
  <2>3. Cardinality(Counted(ds)) \in Nat
    BY <2>2, FS_CardinalityType
  <2>4. QED
    BY <1>8, <2>2, <2>3 DEF One
<1>9. QED
  BY <1>5, <1>6, <1>7, <1>8

(* Who is counted is one of the viewers. *)
LEMMA CountedIsOne ==
    ASSUME NEW cs, NEW v \in Nat, IsFiniteSet(Counted(cs)), v = Cardinality(Counted(cs)),
           NEW c \in Conns, Counts(cs[c])
    PROVE  v > 0
<1>1. c \in Counted(cs)
  BY DEF Counted
<1>2. v # 0
  BY <1>1, FS_EmptySet
<1>3. QED
  BY <1>2

(* A step of one connection. *)
LEMMA OneChanges ==
    ASSUME NEW n, NEW cs, NEW ap, NEW v, Fine(cs, ap, n, v), NEW c \in Conns,
           NEW ds, \A d \in Conns \ {c} : ds[d] = cs[d],
           NoSocket(ds[c]), ClientOK(ds[c], n),
           cs[c].life = "up" => Continues(cs[c], ds[c], n),
           NEW w, w = v + One(Counts(ds[c])) - One(Counts(cs[c]))
    PROVE  Fine(ds, ap, n, w)
<1>1. \A d \in Conns : ClientOK(ds[d], n) /\ NoSocket(ds[d])
  BY DEF Fine
<1>2. ASSUME NEW a \in Accounts, ap[a].cur # NoConn
      PROVE  /\ ds[ap[a].cur].acct = a /\ ds[ap[a].cur].life = "up"
             /\ Joined(ds[ap[a].cur], ap[a], n[Room])
  <2>1. /\ cs[ap[a].cur].acct = a /\ cs[ap[a].cur].life = "up"
        /\ Joined(cs[ap[a].cur], ap[a], n[Room]) /\ PageOK(ap[a])
    BY <1>2 DEF Fine
  <2>2. ap[a].cur \in Conns /\ ap[a].ack \in Int /\ ap[a].since \in Int
    BY <1>2, <2>1 DEF PageOK, Page
  <2>3. CASE ap[a].cur = c
    BY <2>1, <2>2, <2>3 DEF Continues, Same
  <2>4. CASE ap[a].cur # c
    BY <2>1, <2>2, <2>4
  <2>5. QED
    BY <2>3, <2>4
<1>3. w \in Nat /\ IsFiniteSet(Counted(ds)) /\ w = Cardinality(Counted(ds))
  BY CountFollows DEF Fine
<1>4. QED
  BY <1>1, <1>2, <1>3 DEF Fine

(* A step of a browser and its connection. *)
LEMMA PageChanges ==
    ASSUME NEW n, NEW cs, NEW ap, NEW v, Fine(cs, ap, n, v), NEW a \in Accounts, NEW c \in Conns,
           \A b \in Accounts \ {a} : ap[b].cur # c,
           NEW ds, \A d \in Conns \ {c} : ds[d] = cs[d],
           NEW aq, \A b \in Accounts \ {a} : aq[b] = ap[b],
           NoSocket(ds[c]), ClientOK(ds[c], n), Counts(ds[c]) <=> Counts(cs[c]),
           PageOK(aq[a]),
           \/ aq[a].cur = NoConn
           \/ /\ aq[a].cur = c /\ ds[c].acct = a /\ ds[c].life = "up"
              /\ Joined(ds[c], aq[a], n[Room])
    PROVE  Fine(ds, aq, n, v)
<1>1. \A d \in Conns : ClientOK(ds[d], n) /\ NoSocket(ds[d])
  BY DEF Fine
<1>2. ASSUME NEW b \in Accounts
      PROVE  /\ PageOK(aq[b])
             /\ aq[b].cur # NoConn =>
                    /\ ds[aq[b].cur].acct = b /\ ds[aq[b].cur].life = "up"
                    /\ Joined(ds[aq[b].cur], aq[b], n[Room])
  <2>1. CASE b = a
    BY <2>1
  <2>2. CASE b # a
    <3>1. /\ PageOK(ap[b])
          /\ ap[b].cur # NoConn =>
                 /\ cs[ap[b].cur].acct = b /\ cs[ap[b].cur].life = "up"
                 /\ Joined(cs[ap[b].cur], ap[b], n[Room])
      BY DEF Fine
    <3>2. aq[b] = ap[b] /\ ap[b].cur # c
      BY <2>2
    <3>3. ap[b].cur # NoConn => ds[ap[b].cur] = cs[ap[b].cur]
      BY <3>1, <3>2 DEF PageOK, Page
    <3>4. QED
      BY <3>1, <3>2, <3>3
  <2>3. QED
    BY <2>1, <2>2
<1>3. v \in Nat /\ IsFiniteSet(Counted(ds)) /\ v = Cardinality(Counted(ds))
  <2>1. v \in Nat /\ IsFiniteSet(Counted(cs)) /\ v = Cardinality(Counted(cs))
    BY DEF Fine
  <2>2. v = v + One(Counts(ds[c])) - One(Counts(cs[c]))
    BY <2>1 DEF One
  <2>3. QED
    BY <2>1, <2>2, CountFollows
<1>4. QED
  BY <1>1, <1>2, <1>3 DEF Fine

(* A publication. *)
LEMMA PublishKeeps ==
    ASSUME seq \in [Topics -> Nat], ring \in [Topics -> [0..(BackfillLimit - 1) -> Nat]],
           NEW cs, NEW ap, NEW v, Fine(cs, ap, seq, v), NEW t \in Topics, Publish(t, cs)
    PROVE  /\ seq' \in [Topics -> Nat] /\ ring' \in [Topics -> [0..(BackfillLimit - 1) -> Nat]]
           /\ conn' = [c \in Conns |-> conn'[c]]
           /\ Fine(conn', ap, seq', v)
<1> DEFINE s == seq[t] + 1
<1>1. s \in Nat /\ seq' = [seq EXCEPT ![t] = s] /\ ring' = [ring EXCEPT ![t][s % BackfillLimit] = s]
  <2>1. s \in Nat
    OBVIOUS
  <2>2. seq' = [seq EXCEPT ![t] = s] /\ ring' = [ring EXCEPT ![t][s % BackfillLimit] = s]
    BY Zenon DEF Publish
  <2>3. QED
    BY <2>1, <2>2
<1>2. /\ conn' = [c \in Conns |-> conn'[c]]
      /\ \A c \in Conns : conn'[c] =
             IF cs[c].life # "up" THEN cs[c]
             ELSE [cs[c] EXCEPT !.chans = [k \in DOMAIN @ |-> Offer(@[k], t, s)],
                                !.dropped = IF Loses(cs[c], t) THEN @ \cup {s} ELSE @]
  BY DEF Publish
<1>3. seq' \in [Topics -> Nat] /\ (\A u \in Topics : seq[u] \in Nat /\ seq[u] <= seq'[u])
  BY <1>1
<1>4. ring' \in [Topics -> [0..(BackfillLimit - 1) -> Nat]]
  <2>1. s % BackfillLimit \in 0..(BackfillLimit - 1)
    BY <1>1, GatewayAssumption
  <2> HIDE DEF s
  <2>2. QED
    BY <1>1, <2>1
<1>5. \A c \in Conns : ClientOK(cs[c], seq) /\ NoSocket(cs[c])
  BY DEF Fine
<1>6. ASSUME NEW c \in Conns
      PROVE  /\ ClientOK(conn'[c], seq') /\ (Counts(conn'[c]) <=> Counts(cs[c]))
             /\ Same(cs[c], conn'[c])
             /\ NoSocket(conn'[c])
             /\ cs[c].life = "up" =>
                    \A p : p.ack \in Int /\ p.since \in Int /\ Joined(cs[c], p, seq[Room])
                              => Joined(conn'[c], p, seq'[Room])
  <2>1. CASE cs[c].life = "up"
    <3> DEFINE y == conn'[c]
    <3>1. Offered(cs[c], y, t, s)
      <4>1. y = [cs[c] EXCEPT !.chans = [k \in DOMAIN @ |-> Offer(@[k], t, s)],
                              !.dropped = IF Loses(cs[c], t) THEN @ \cup {s} ELSE @]
        BY <1>2, <2>1
      <4>2. IsClient(cs[c])
        BY <1>5 DEF ClientOK
      <4> HIDE DEF y, s
      <4>3. QED
        BY <1>1, <4>1, <4>2, OfferedIs
    <3> HIDE DEF y
    <3>2. /\ ClientOK(y, seq') /\ Same(cs[c], y) /\ (Counts(y) <=> Counts(cs[c]))
          /\ \A p : p.ack \in Int /\ p.since \in Int /\ Joined(cs[c], p, seq[Room])
                       => Joined(y, p, seq'[Room])
      BY <1>1, <1>5, <3>1, OfferContinues
    <3>3. QED
      BY <2>1, <3>2 DEF y, Same, NoSocket
  <2>2. CASE cs[c].life # "up"
    <3>1. conn'[c] = cs[c]
      BY <1>2, <2>2
    <3>2. ClientOK(cs[c], seq) /\ NoSocket(cs[c])
      BY <1>5
    <3>3. Ordered(cs[c], seq')
      <4>1. IsClient(cs[c]) /\ Ordered(cs[c], seq)
        BY <3>2 DEF ClientOK
      <4>2. ASSUME NEW k \in DOMAIN cs[c].chans, NEW i \in Nat, i <= seq[cs[c].chans[k].topic]
            PROVE  i <= seq'[cs[c].chans[k].topic]
        <5>1. cs[c].chans[k].topic \in Topics
          BY <4>1, ChannelIs DEF Chan
        <5>2. /\ seq[cs[c].chans[k].topic] \in Nat /\ seq'[cs[c].chans[k].topic] \in Nat
              /\ seq[cs[c].chans[k].topic] <= seq'[cs[c].chans[k].topic]
          BY <1>3, <5>1
        <5>3. QED
          BY <4>2, <5>2
      <4>3. \A k \in DOMAIN cs[c].chans :
                cs[c].chans[k].got \in Nat
                /\ \A j \in DOMAIN cs[c].chans[k].q : cs[c].chans[k].q[j] \in Nat
        BY SMTT(30), <4>1, ChannelIs DEF Chan
      <4>4. \A i \in DOMAIN cs[c].send : cs[c].send[i].last \in Nat
        BY <4>1, FrameIs
      <4>5. QED
        BY <4>1, <4>2, <4>3, <4>4 DEF Ordered
    <3>4. QED
      BY <2>2, <3>1, <3>2, <3>3 DEF ClientOK, Same
  <2>3. QED
    BY <2>1, <2>2
<1>7. ASSUME NEW a \in Accounts, ap[a].cur # NoConn
      PROVE  /\ conn'[ap[a].cur].acct = a /\ conn'[ap[a].cur].life = "up"
             /\ Joined(conn'[ap[a].cur], ap[a], seq'[Room])
  <2>1. /\ cs[ap[a].cur].acct = a /\ cs[ap[a].cur].life = "up"
        /\ Joined(cs[ap[a].cur], ap[a], seq[Room]) /\ PageOK(ap[a])
    BY <1>7 DEF Fine
  <2>2. ap[a].cur \in Conns /\ ap[a].ack \in Int /\ ap[a].since \in Int
    BY <1>7, <2>1 DEF PageOK, Page
  <2>3. QED
    BY <1>6, <2>1, <2>2 DEF Same
<1>8. Counted(conn') = Counted(cs)
  BY <1>6 DEF Counted
<1>9. Fine(conn', ap, seq', v)
  BY <1>6, <1>7, <1>8 DEF Fine
<1>10. QED
  BY <1>2, <1>3, <1>4, <1>9

-----------------------------------------------------------------------------
(* The steps of the server *)

(* What the invariant says of one connection. *)
LEMMA ConnIs ==
    ASSUME IInv, NEW c \in Conns
    PROVE  /\ ClientOK(conn[c], seq) /\ IsClient(conn[c]) /\ Busy(conn[c]) /\ Polite(conn[c])
           /\ NoSocket(conn[c])
           /\ seq[Room] \in Nat /\ viewers \in Nat
           /\ Counts(conn[c]) => viewers > 0
<1>1. Fine(conn, app, seq, viewers) /\ seq \in [Topics -> Nat] /\ Room \in Topics
  BY DEF IInv, Topics
<1>2. Counts(conn[c]) => viewers > 0
  BY <1>1, CountedIsOne DEF Fine
<1>3. QED
  BY <1>1, <1>2 DEF Fine, ClientOK

(* A step that changes one connection and, with it, the count. *)
LEMMA ConnStep ==
    ASSUME IInv, NEW c \in Conns, NEW y, conn' = [conn EXCEPT ![c] = y],
           UNCHANGED <<seq, ring, app>>,
           NoSocket(y), ClientOK(y, seq),
           conn[c].life = "up" => Continues(conn[c], y, seq),
           viewers' = viewers + One(Counts(y)) - One(Counts(conn[c]))
    PROVE  IInv'
<1>1. conn = [d \in Conns |-> conn[d]]
  BY DEF IInv
<1>2. /\ conn' = [d \in Conns |-> conn'[d]] /\ conn'[c] = y
      /\ \A d \in Conns \ {c} : conn'[d] = conn[d]
  BY <1>1
<1>3. Fine(conn, app, seq, viewers)
  BY DEF IInv
<1>4. Fine(conn', app, seq, viewers')
  BY <1>2, <1>3, OneChanges
<1>5. QED
  BY <1>2, <1>4 DEF IInv

(* cl is x without its first message. *)
Taken(x, cl) ==
    /\ IsClient(cl) /\ Same(x, cl) /\ Takes(x, cl)
    /\ cl.chans = x.chans /\ cl.pc = x.pc /\ cl.last = x.last /\ cl.todo = x.todo

(* Taking a message changes the inbox only. *)
LEMMA TakenIs ==
    ASSUME NEW x, IsClient(x), x.inbox # <<>>, NEW cl, cl = [x EXCEPT !.inbox = Tail(@)]
    PROVE  Taken(x, cl)
<1>1. x.inbox \in Seq(Message) /\ Tail(x.inbox) \in Seq(Message)
  <2>1. x.inbox \in Seq(Message)
    BY DEF IsClient
  <2>2. QED
    BY <2>1, TailIs
<1>2. QED
  BY <1>1 DEF IsClient, Same, Taken, Takes

(* Two steps in a row. *)
LEMMA ContinuesTwice ==
    ASSUME NEW x, NEW y, NEW z, NEW n, Continues(x, y, n), Continues(y, z, n)
    PROVE  Continues(x, z, n)
BY DEF Continues, Same

(* Switching subscriptions off leaves subscriptions. *)
LEMMA OffIs ==
    ASSUME NEW chans \in Seq(Chan), NEW t
    PROVE  Off(chans, t) \in Seq(Chan)
<1>1. \A k \in 1..Len(chans) : chans[k] \in Chan
  OBVIOUS
<1>2. \A k \in 1..Len(chans) :
          (IF chans[k].topic = t THEN [chans[k] EXCEPT !.on = FALSE] ELSE chans[k]) \in Chan
  BY <1>1 DEF Chan
<1>3. Off(chans, t) \in [1..Len(chans) -> Chan]
  BY <1>2 DEF Off
<1>4. QED
  BY <1>3

(* What is said is published on topics. *)
LEMMA PublicationsAre ==
    ASSUME NEW kind, NEW a \in Accounts, NEW other \in Accounts
    PROVE  Publications(kind, a, other) \in Seq(Topics)
<1>1. Room \in Topics /\ a \in Topics /\ other \in Topics
  BY DEF Topics
<1>2. /\ <<Room>> \in Seq(Topics) /\ Gift(a, other) \in Seq(Topics)
      /\ Moderation(a, other) \in Seq(Topics) /\ BroadcastSignal(other) \in Seq(Topics)
      /\ <<>> \in Seq(Topics)
  BY <1>1 DEF Gift, Moderation, BroadcastSignal
<1>3. QED
  BY <1>2 DEF Publications

(* The cases of Read. *)
LEMMA ReadSubscribeStep ==
    ASSUME IInv, NEW c \in Conns, conn[c].life \in {"up", "cut"}, conn[c].pc = "read",
           conn[c].inbox # <<>>, Head(conn[c].inbox)[1] = "SUBSCRIBE",
           NEW cl, Taken(conn[c], cl),
           conn' = [conn EXCEPT ![c] = [cl EXCEPT !.pc = "ack", !.last = seq[Room],
                       !.chans = IF Subscribed(c, Room) THEN @ ELSE Append(@, Channel(Room))]],
           UNCHANGED <<seq, ring, app, viewers>>
    PROVE  IInv'
<1> DEFINE x == conn[c]
           chans == IF Holds(x) THEN x.chans ELSE Append(x.chans, Channel(Room))
           y == [cl EXCEPT !.pc = "ack", !.last = seq[Room], !.chans = chans]
<1>1. ClientOK(x, seq) /\ IsClient(x) /\ seq[Room] \in Nat /\ viewers \in Nat
  BY ConnIs
<1>2. conn' = [conn EXCEPT ![c] = y]
  BY DEF Holds, Subscribed, Taken
<1>3. chans \in Seq(Chan)
  <2>1. x.chans \in Seq(Chan) /\ Channel(Room) \in Chan
    BY <1>1 DEF IsClient, Channel, Chan, Topics
  <2>2. QED
    BY <2>1, AppendIs
<1>4. x.inbox[1][1] = "SUBSCRIBE"
  <2>1. x.inbox \in Seq(Message)
    BY <1>1 DEF IsClient
  <2>2. QED
    BY <2>1, TailIs
<1> HIDE DEF chans
<1>5. /\ IsClient(y) /\ Same(cl, y) /\ y.inbox = cl.inbox /\ y.send = cl.send
      /\ y.dropped = cl.dropped /\ y.pc = "ack" /\ y.last = seq[Room] /\ y.chans = chans
  <2>1. IsClient(cl)
    BY DEF Taken
  <2>2. QED
    BY <1>1, <1>3, <2>1 DEF IsClient, Same, Pcs
<1> HIDE DEF y
<1>6. Same(x, y) /\ Takes(x, y) /\ y.chans = IF Holds(x) THEN x.chans ELSE Append(x.chans, Channel(Room))
  BY <1>5 DEF Taken, Same, Takes, chans
<1> HIDE DEF x
<1>7. Continues(x, y, seq) /\ ~ Counts(x) /\ ~ Counts(y)
  BY <1>1, <1>4, <1>5, <1>6, ReadSubscribe DEF x
<1>8. viewers' = viewers + One(Counts(y)) - One(Counts(x))
  BY <1>1, <1>7 DEF One
<1>9. NoSocket(y)
  BY <1>6 DEF Same, x, NoSocket
<1>10. QED
  BY <1>2, <1>7, <1>8, <1>9, ConnStep DEF Continues, x

(* UNSUBSCRIBE: the count follows viewerLeftRoom. *)
LEMMA ReadUnsubscribeStep ==
    ASSUME IInv, NEW c \in Conns, conn[c].life \in {"up", "cut"}, conn[c].pc = "read",
           conn[c].inbox # <<>>, Head(conn[c].inbox)[1] = "UNSUBSCRIBE", Subscribed(c, Room),
           NEW cl, Taken(conn[c], cl),
           conn' = [conn EXCEPT ![c] = [cl EXCEPT !.pc = "publish", !.todo = <<Room>>,
                                                  !.chans = Off(@, Room)]],
           viewers' = ViewersWithout(c),
           UNCHANGED <<seq, ring, app>>
    PROVE  IInv'
<1> DEFINE x == conn[c]
           chans == Off(x.chans, Room)
           y == [cl EXCEPT !.pc = "publish", !.todo = <<Room>>, !.chans = chans]
<1>1. /\ ClientOK(x, seq) /\ IsClient(x) /\ viewers \in Nat
      /\ Counts(x) => viewers > 0
  BY ConnIs
<1>2. conn' = [conn EXCEPT ![c] = y]
  BY DEF Taken
<1>3. chans \in Seq(Chan)
  <2>1. x.chans \in Seq(Chan)
    BY <1>1 DEF IsClient
  <2>2. QED
    BY <2>1, OffIs
<1>4. x.inbox[1][1] = "UNSUBSCRIBE"
  <2>1. x.inbox \in Seq(Message)
    BY <1>1 DEF IsClient
  <2>2. QED
    BY <2>1, TailIs
<1> HIDE DEF chans
<1>5. /\ IsClient(y) /\ Same(cl, y) /\ y.inbox = cl.inbox /\ y.send = cl.send
      /\ y.dropped = cl.dropped /\ y.pc = "publish" /\ y.todo = <<Room>> /\ y.chans = chans
  <2>1. IsClient(cl)
    BY DEF Taken
  <2>2. QED
    BY <1>3, <2>1 DEF IsClient, Same, Pcs
<1> HIDE DEF y
<1>6. Same(x, y) /\ Takes(x, y) /\ y.chans = Off(x.chans, Room)
  BY <1>5 DEF Taken, Same, Takes, chans
<1>7. Holds(x) /\ (Counts(x) <=> x.acct # Host)
  BY DEF Subscribed, Holds, Counts
<1>8. viewers' = IF x.acct = Host \/ viewers = 0 THEN viewers ELSE viewers - 1
  BY DEF ViewersWithout
<1> HIDE DEF x
<1>9. Continues(x, y, seq) /\ ~ Counts(y)
  BY <1>1, <1>4, <1>5, <1>6, ReadUnsubscribe DEF x
<1>10. viewers' = viewers + One(Counts(y)) - One(Counts(x))
  BY <1>1, <1>7, <1>8, <1>9 DEF One
<1>11. NoSocket(y)
  BY <1>6 DEF Same, x, NoSocket
<1>12. QED
  BY <1>2, <1>9, <1>10, <1>11, ConnStep DEF Continues, x

(* BACKFILL: the answer is taken from the ring. *)
LEMMA ReadBackfillStep ==
    ASSUME IInv, NEW c \in Conns, conn[c].life \in {"up", "cut"}, conn[c].pc = "read",
           conn[c].inbox # <<>>, Head(conn[c].inbox)[1] = "BACKFILL",
           NEW cl, Taken(conn[c], cl),
           NEW from, from = Head(conn[c].inbox)[2],
           conn' = [conn EXCEPT ![c] = [cl EXCEPT !.pc = "answer", !.last = from,
                                              !.todo = <<Backfill(Room, from), seq[Room]>>]],
           UNCHANGED <<seq, ring, app, viewers>>
    PROVE  IInv'
<1> DEFINE x == conn[c]
           r == Backfill(Room, from)
           y == [cl EXCEPT !.pc = "answer", !.last = from, !.todo = <<r, seq[Room]>>]
<1>1. /\ ClientOK(x, seq) /\ IsClient(x) /\ seq[Room] \in Nat /\ viewers \in Nat
  BY ConnIs
<1>2. conn' = [conn EXCEPT ![c] = y]
  OBVIOUS
<1>3. x.inbox[1][1] = "BACKFILL" /\ x.inbox[1][2] = from /\ from \in Nat
  <2>1. x.inbox \in Seq(Message)
    BY <1>1 DEF IsClient
  <2>2. x.inbox[1] = Head(x.inbox) /\ x.inbox[1] \in Message
    BY <2>1, TailIs
  <2>3. x.inbox[1] \in {"BACKFILL"} \X Nat
    BY <2>2 DEF Message
  <2>4. QED
    BY <2>2, <2>3
<1>4. /\ r.ok \in BOOLEAN
      /\ r.ok => /\ r.events \in Seq(Nat)
                 /\ \A s \in (from + 1)..seq[Room] : \E i \in DOMAIN r.events : r.events[i] = s
  BY <1>1, <1>3, BackfillIs
<1> HIDE DEF r
<1>5. /\ IsClient(y) /\ Same(cl, y) /\ y.inbox = cl.inbox /\ y.send = cl.send
      /\ y.dropped = cl.dropped /\ y.chans = cl.chans
      /\ y.pc = "answer" /\ y.last = from /\ y.todo = <<r, seq[Room]>>
  <2>1. IsClient(cl)
    BY DEF Taken
  <2>2. QED
    BY <1>3, <2>1 DEF IsClient, Same, Pcs
<1> HIDE DEF y
<1>6. /\ Same(x, y) /\ Takes(x, y) /\ y.chans = x.chans
      /\ y.todo[1] = r /\ y.todo[2] = seq[Room]
  BY <1>5 DEF Taken, Same, Takes
<1> HIDE DEF x
<1>7. Continues(x, y, seq) /\ (Counts(y) <=> Counts(x))
  BY <1>1, <1>3, <1>4, <1>5, <1>6, ReadBackfill DEF x
<1>8. viewers' = viewers + One(Counts(y)) - One(Counts(x))
  BY <1>1, <1>7 DEF One
<1>9. NoSocket(y)
  BY <1>6 DEF Same, x, NoSocket
<1>10. QED
  BY <1>2, <1>7, <1>8, <1>9, ConnStep DEF Continues, x

(* A message is refused or leads to publications. *)
LEMMA ReadSayStep ==
    ASSUME IInv, NEW c \in Conns, conn[c].life \in {"up", "cut"}, conn[c].pc = "read",
           conn[c].inbox # <<>>, Head(conn[c].inbox)[1] = "SAY",
           NEW cl, Taken(conn[c], cl),
           NEW says,
           says = Publications(Head(conn[c].inbox)[2], cl.acct, Head(conn[c].inbox)[3]),
           conn' = [conn EXCEPT ![c] = IF says = <<>> THEN Sent(cl, Control("ERROR", 0, {}))
                                       ELSE [cl EXCEPT !.pc = "publish", !.todo = says]],
           UNCHANGED <<seq, ring, app, viewers>>
    PROVE  IInv'
<1> DEFINE x == conn[c]
           y == IF says = <<>> THEN Sent(cl, Control("ERROR", 0, {}))
                ELSE [cl EXCEPT !.pc = "publish", !.todo = says]
<1>1. /\ ClientOK(x, seq) /\ IsClient(x) /\ seq[Room] \in Nat /\ viewers \in Nat
  BY ConnIs
<1>2. conn' = [conn EXCEPT ![c] = y]
  OBVIOUS
<1>3. x.inbox[1][1] = "SAY" /\ x.inbox[1] = Head(x.inbox) /\ x.inbox[1][3] \in Accounts
  <2>1. x.inbox \in Seq(Message)
    BY <1>1 DEF IsClient
  <2>2. x.inbox[1] = Head(x.inbox) /\ x.inbox[1] \in Message
    BY <2>1, TailIs
  <2>3. x.inbox[1] \in {"SAY"} \X Chatter \X Accounts
    BY <2>2 DEF Message
  <2>4. QED
    BY <2>2, <2>3
<1>4. says \in Seq(Topics)
  <2>1. cl.acct \in Accounts
    BY DEF Taken, IsClient
  <2>2. QED
    BY <1>3, <2>1, PublicationsAre
<1>5. IsClient(cl) /\ Same(x, cl) /\ Takes(x, cl) /\ cl.chans = x.chans /\ cl.pc = "read"
  BY DEF Taken
<1>6. Continues(x, y, seq) /\ (Counts(y) <=> Counts(x))
  <2>1. CASE says = <<>>
    <3>1. Continues(x, cl, seq) /\ (Counts(cl) <=> Counts(x))
      <4> HIDE DEF x
      <4>1. QED
        BY <1>1, <1>3, <1>5, ReadSay DEF x
    <3>2. y = Sent(cl, Control("ERROR", 0, {}))
      BY <2>1
    <3> HIDE DEF x, y
    <3>3. Continues(cl, y, seq) /\ (Counts(y) <=> Counts(cl))
      BY <1>1, <3>1, <3>2, RefuseContinues DEF Continues
    <3>4. QED
      BY <3>1, <3>3, ContinuesTwice
  <2>2. CASE says # <<>>
    <3>1. y = [cl EXCEPT !.pc = "publish", !.todo = says]
      BY <2>2
    <3> HIDE DEF y
    <3>2. /\ IsClient(y) /\ Same(cl, y) /\ y.inbox = cl.inbox /\ y.send = cl.send
          /\ y.dropped = cl.dropped /\ y.chans = cl.chans
          /\ y.pc = "publish" /\ y.todo = says
      BY <1>5, <3>1 DEF IsClient, Same, Pcs
    <3>3. Same(x, y) /\ Takes(x, y) /\ y.chans = x.chans
      BY <1>5, <3>2 DEF Same, Takes
    <3> HIDE DEF x
    <3>4. QED
      BY <1>1, <1>3, <1>4, <2>2, <3>2, <3>3, ReadSay DEF x
  <2>3. QED
    BY <2>1, <2>2
<1> HIDE DEF y, x
<1>7. viewers' = viewers + One(Counts(y)) - One(Counts(x))
  BY <1>1, <1>6 DEF One
<1>8. NoSocket(y)
  BY <1>6 DEF Continues, Same, x, NoSocket
<1>9. QED
  BY <1>2, <1>6, <1>7, <1>8, ConnStep DEF Continues, x

(* readPump. *)
LEMMA ReadStep == ASSUME IInv, NEW c \in Conns, Read(c) PROVE IInv'
<1> DEFINE f == Head(conn[c].inbox)
           cl == [conn[c] EXCEPT !.inbox = Tail(@)]
           says == Publications(f[2], cl.acct, f[3])
<1>1. /\ conn[c].life \in {"up", "cut"} /\ conn[c].pc = "read" /\ conn[c].inbox # <<>>
      /\ UNCHANGED <<seq, ring, app>>
  BY DEF Read
<1>2. Taken(conn[c], cl)
  <2>1. IsClient(conn[c])
    BY ConnIs
  <2> HIDE DEF cl
  <2>2. QED
    BY <1>1, <2>1, TakenIs DEF cl
<1>3. CASE /\ f[1] = "SUBSCRIBE"
           /\ conn' = [conn EXCEPT ![c] = [cl EXCEPT !.pc = "ack", !.last = seq[Room],
                 !.chans = IF Subscribed(c, Room) THEN @ ELSE Append(@, Channel(Room))]]
           /\ UNCHANGED viewers
  <2> HIDE DEF cl
  <2>1. QED
    BY <1>1, <1>2, <1>3, ReadSubscribeStep
<1>4. CASE /\ f[1] = "UNSUBSCRIBE" /\ Subscribed(c, Room)
           /\ conn' = [conn EXCEPT ![c] = [cl EXCEPT !.pc = "publish", !.todo = <<Room>>,
                                                    !.chans = Off(@, Room)]]
           /\ viewers' = ViewersWithout(c)
  <2> HIDE DEF cl
  <2>1. QED
    BY <1>1, <1>2, <1>4, ReadUnsubscribeStep
<1>5. CASE /\ f[1] = "BACKFILL"
           /\ conn' = [conn EXCEPT ![c] = [cl EXCEPT !.pc = "answer", !.last = f[2],
                                             !.todo = <<Backfill(Room, f[2]), seq[Room]>>]]
           /\ UNCHANGED viewers
  <2> HIDE DEF cl
  <2>1. QED
    BY <1>1, <1>2, <1>5, ReadBackfillStep
<1>6. CASE /\ f[1] = "SAY"
           /\ conn' = [conn EXCEPT ![c] = IF says = <<>> THEN Sent(cl, Control("ERROR", 0, {}))
                                          ELSE [cl EXCEPT !.pc = "publish", !.todo = says]]
           /\ UNCHANGED viewers
  <2> HIDE DEF cl
  <2>1. QED
    BY <1>1, <1>2, <1>6, ReadSayStep
<1>7. QED
  BY <1>3, <1>4, <1>5, <1>6 DEF Read

(* The ack of a subscription: its client is counted now, unless it is the   *)
(* host's.                                                                  *)
LEMMA AckStep == ASSUME IInv, NEW c \in Conns, Ack(c) PROVE IInv'
<1> DEFINE x == conn[c]
           f == Control("SUBSCRIBED", x.last, {})
           y == GoesOn(Sent(x, f), "publish", <<Room>>)
<1>1. /\ ClientOK(x, seq) /\ IsClient(x) /\ viewers \in Nat
      /\ NoSocket(x)
  BY ConnIs
<1>2. /\ x.pc = "ack" /\ UNCHANGED <<seq, ring, app>>
      /\ viewers' = IF x.acct = Host THEN viewers ELSE viewers + 1
      /\ conn' = [conn EXCEPT ![c] = [Sent(@, Control("SUBSCRIBED", @.last, {}))
                                      EXCEPT !.pc = "publish", !.todo = <<Room>>, !.last = 0]]
  BY DEF Ack
<1>3. conn' = [conn EXCEPT ![c] = y]
  BY <1>2 DEF GoesOn
<1>4. f \in Frame /\ f.kind = "SUBSCRIBED" /\ f.last = x.last /\ Carries(f)
  <2>1. x.last \in Nat
    BY <1>1 DEF IsClient
  <2> HIDE DEF x
  <2>2. f \in Frame /\ f.kind = "SUBSCRIBED" /\ f.last = x.last /\ f.events = {}
    BY <2>1, ControlIs DEF FrameKinds
  <2> HIDE DEF f
  <2>3. QED
    BY <2>2 DEF Carries
<1> HIDE DEF f
<1>5. Sends(x, y, f) /\ y.pc = "publish" /\ y.todo = <<Room>>
  BY <1>1, <1>4, SendsThen DEF Pcs
<1> HIDE DEF y
<1>6. Continues(x, y, seq) /\ ~ Counts(x) /\ (Counts(y) <=> x.acct # Host)
  <2> HIDE DEF x
  <2>1. QED
    BY <1>1, <1>2, <1>4, <1>5, AckContinues DEF x
<1>7. viewers' = viewers + One(Counts(y)) - One(Counts(x))
  BY <1>1, <1>2, <1>6 DEF One
<1>8. NoSocket(y)
  <2>1. NotOpen("free").pc = "read"
    BY NotOpenIs DEF Lives
  <2>2. y.chans = x.chans /\ y.life = x.life
    BY <1>5 DEF Sends, Same
  <2>3. QED
    BY <1>1, <1>2, <2>1, <2>2 DEF NoSocket
<1> HIDE DEF x
<1>9. QED
  BY <1>2, <1>3, <1>6, <1>7, <1>8, ConnStep DEF Continues, x

(* The answer to a BACKFILL. *)
LEMMA AnswerStep == ASSUME IInv, NEW c \in Conns, Answer(c) PROVE IInv'
<1> DEFINE x == conn[c]
           r == x.todo[1]
           f == IF r.ok THEN [Control("BACKFILL_RESULT", 0, {r.events[i] : i \in DOMAIN r.events})
                                 EXCEPT !.list = r.events]
                ELSE Control("CATCHUP_REQUIRED", 0, (x.last + 1)..x.todo[2])
           y == GoesOn(Sent(x, f), "read", <<>>)
<1>1. /\ ClientOK(x, seq) /\ IsClient(x) /\ Busy(x) /\ viewers \in Nat
      /\ NoSocket(x)
      /\ seq[Room] \in Nat
  BY ConnIs
<1>2. x.pc = "answer" /\ UNCHANGED <<seq, ring, app, viewers>>
  BY DEF Answer
<1>3. conn' = [conn EXCEPT ![c] = y]
  BY DEF Answer, GoesOn
<1>4. /\ f \in Frame /\ f.kind \in {"BACKFILL_RESULT", "CATCHUP_REQUIRED"} /\ Carries(f)
      /\ \A s \in (x.last + 1)..x.todo[2] : s \in f.events
  <2> HIDE DEF x
  <2>1. QED
    BY <1>1, <1>2, AnswerIs
<1> HIDE DEF f
<1>5. Sends(x, y, f) /\ y.pc = "read"
  BY <1>1, <1>4, SendsThen DEF Pcs
<1> HIDE DEF y
<1>6. Continues(x, y, seq) /\ (Counts(y) <=> Counts(x))
  <2> HIDE DEF x
  <2>1. QED
    BY <1>1, <1>2, <1>4, <1>5, AnswerContinues
<1>7. viewers' = viewers + One(Counts(y)) - One(Counts(x))
  BY <1>1, <1>2, <1>6 DEF One
<1>8. NoSocket(y)
  <2>1. NotOpen("free").pc = "read"
    BY NotOpenIs DEF Lives
  <2>2. y.chans = x.chans /\ y.life = x.life
    BY <1>5 DEF Sends, Same
  <2>3. QED
    BY <1>1, <1>2, <2>1, <2>2 DEF NoSocket
<1> HIDE DEF x
<1>9. QED
  BY <1>2, <1>3, <1>6, <1>7, <1>8, ConnStep DEF Continues, x

(* client.forward. *)
LEMMA ForwardStep ==
    ASSUME IInv, NEW c \in Conns, NEW k \in DOMAIN conn[c].chans, Forward(c, k)
    PROVE  IInv'
<1> DEFINE x == conn[c]
           f == Event(x.chans[k].topic, Head(x.chans[k].q), k)
           z == [x EXCEPT !.chans[k].q = Tail(@)]
           y == Sent(z, f)
<1>1. /\ ClientOK(x, seq) /\ IsClient(x) /\ viewers \in Nat
      /\ NoSocket(x)
      /\ seq[Room] \in Nat
  BY ConnIs
<1>2. x.chans[k].q # <<>> /\ UNCHANGED <<seq, ring, app, viewers>>
  BY DEF Forward
<1>3. conn' = [conn EXCEPT ![c] = y]
  BY Zenon DEF Forward
<1>4. Drawn(x, z, k)
  <2>1. z = [x EXCEPT !.chans[k].q = Tail(@)] /\ k \in DOMAIN x.chans
    OBVIOUS
  <2> HIDE DEF x, z
  <2>2. QED
    BY <1>1, <1>2, <2>1, DrawnIs
<1> HIDE DEF z
<1>5. Forwards(x, y, k, f)
  <2>1. k \in DOMAIN x.chans
    OBVIOUS
  <2> HIDE DEF x
  <2>2. QED
    BY <1>1, <1>2, <1>4, <2>1, ForwardIs
<1> HIDE DEF f, y
<1>6. Continues(x, y, seq) /\ (Counts(y) <=> Counts(x))
  <2>1. k \in DOMAIN x.chans
    OBVIOUS
  <2> HIDE DEF x
  <2>2. QED
    BY <1>1, <1>2, <1>5, <2>1, ForwardContinues
<1>7. viewers' = viewers + One(Counts(y)) - One(Counts(x))
  BY <1>1, <1>2, <1>6 DEF One
<1>8. NoSocket(y)
  <2>1. NotOpen("free").chans = <<>> /\ x.chans # <<>>
    BY NotOpenIs DEF Lives
  <2>2. QED
    BY <1>1, <1>6, <2>1 DEF Continues, Same, NoSocket
<1> HIDE DEF x
<1>9. QED
  BY <1>2, <1>3, <1>6, <1>7, <1>8, ConnStep DEF Continues, x

(* Before a publication the connection that makes it moves on. *)
LEMMA PublishNextStep == ASSUME IInv, NEW c \in Conns, PublishNext(c) PROVE IInv'
<1> DEFINE x == conn[c]
           on == [x EXCEPT !.todo = Tail(@), !.last = 0,
                           !.pc = IF Len(x.todo) > 1 THEN @ ELSE "read"]
           y == IF Len(x.todo) = 1 /\ x.life = "closing" THEN NotOpen("gone") ELSE on
           cs == [conn EXCEPT ![c] = y]
<1>1. /\ ClientOK(x, seq) /\ IsClient(x) /\ Busy(x) /\ viewers \in Nat
      /\ NoSocket(x)
      /\ seq[Room] \in Nat
  BY ConnIs
<1>2. x.pc = "publish" /\ Publish(Head(x.todo), cs) /\ UNCHANGED <<app, viewers>>
  <2>1. x.pc = "publish" /\ UNCHANGED <<app, viewers>>
    BY DEF PublishNext
  <2>2. Publish(Head(x.todo), cs)
    BY Zenon DEF PublishNext
  <2>3. QED
    BY <2>1, <2>2
<1>3. /\ x.todo \in Seq(Topics) /\ x.todo # <<>> /\ Head(x.todo) \in Topics
      /\ Len(x.todo) \in Nat
      /\ Len(x.todo) > 1 => Tail(x.todo) \in Seq(Topics) /\ Tail(x.todo) # <<>>
  <2> DEFINE q == x.todo
  <2>1. q \in Seq(Topics) /\ q # <<>>
    BY <1>1, <1>2 DEF Busy
  <2> HIDE DEF q
  <2>2. /\ Head(q) \in Topics /\ Len(q) \in Nat
        /\ Len(q) > 1 => Tail(q) \in Seq(Topics) /\ Tail(q) # <<>>
    <3>1. Head(q) \in Topics /\ Len(q) \in Nat /\ Tail(q) \in Seq(Topics)
      BY <2>1
    <3>2. DOMAIN Tail(q) = 1..(Len(q) - 1)
      BY <2>1, TailIs
    <3> DEFINE r == Tail(q)
    <3>3. Len(q) > 1 => 1 \in DOMAIN r
      BY <3>1, <3>2
    <3> HIDE DEF r
    <3>4. Len(q) > 1 => r # <<>>
      BY <3>3
    <3> USE DEF r
    <3>5. QED
      BY <3>1, <3>4
  <2> USE DEF q
  <2>3. QED
    BY <2>1, <2>2
<1>4. /\ IsClient(on) /\ Same(x, on) /\ on.chans = x.chans /\ on.inbox = x.inbox
      /\ on.send = x.send /\ on.dropped = x.dropped
      /\ on.pc = "read" \/ (on.pc = "publish" /\ on.todo \in Seq(Topics) /\ on.todo # <<>>)
  BY <1>1, <1>2, <1>3 DEF IsClient, Same, Pcs
<1> HIDE DEF on
<1>5. Continues(x, on, seq) /\ (Counts(on) <=> Counts(x))
  <2> HIDE DEF x
  <2>1. QED
    BY <1>1, <1>2, <1>4, PublishedContinues
<1>6. x.life # "free"
  <2>1. NotOpen("free").pc = "read"
    BY NotOpenIs DEF Lives
  <2>2. QED
    BY <1>1, <1>2, <2>1 DEF NoSocket
<1>7. /\ ClientOK(y, seq) /\ NoSocket(y)
      /\ x.life = "up" => Continues(x, y, seq)
      /\ Counts(y) <=> Counts(x)
  <2>1. CASE Len(x.todo) = 1 /\ x.life = "closing"
    <3>1. ClientOK(NotOpen("gone"), seq) /\ ~ Counts(NotOpen("gone"))
      BY NotOpenIs, NotOpenOK DEF Lives
    <3>2. NotOpen("gone").life = "gone"
      BY NotOpenIs DEF Lives
    <3>3. ~ Counts(x)
      BY <1>1, <2>1 DEF NoSocket, Counts, Holds
    <3>4. QED
      BY <2>1, <3>1, <3>2, <3>3 DEF NoSocket
  <2>2. CASE ~ (Len(x.todo) = 1 /\ x.life = "closing")
    BY <1>1, <1>4, <1>5, <1>6, <2>2 DEF Continues, Same, NoSocket
  <2>3. QED
    BY <2>1, <2>2
<1> HIDE DEF y
<1>8. Fine(conn, app, seq, viewers) /\ conn = [d \in Conns |-> conn[d]]
  BY DEF IInv
<1>9. cs[c] = y /\ \A d \in Conns \ {c} : cs[d] = conn[d]
  BY <1>8
<1> HIDE DEF cs
<1>10. Fine(cs, app, seq, viewers)
  <2>1. viewers = viewers + One(Counts(cs[c])) - One(Counts(conn[c]))
    BY <1>1, <1>7, <1>9 DEF One
  <2>2. QED
    BY <1>7, <1>8, <1>9, <2>1, OneChanges
<1>11. /\ seq' \in [Topics -> Nat] /\ ring' \in [Topics -> [0..(BackfillLimit - 1) -> Nat]]
       /\ conn' = [d \in Conns |-> conn'[d]]
       /\ Fine(conn', app, seq', viewers)
  <2>1. seq \in [Topics -> Nat] /\ ring \in [Topics -> [0..(BackfillLimit - 1) -> Nat]]
    BY DEF IInv
  <2>2. QED
    BY <1>2, <1>3, <1>10, <2>1, PublishKeeps
<1>12. app' = [a \in Accounts |-> app'[a]]
  BY <1>2 DEF IInv
<1>13. QED
  BY <1>2, <1>11, <1>12 DEF IInv

(* A publication from elsewhere. *)
LEMMA PublishElsewhereStep == ASSUME IInv, NEW t \in Topics, PublishElsewhere(t) PROVE IInv'
<1>1. Publish(t, conn) /\ UNCHANGED <<app, viewers>>
  BY DEF PublishElsewhere
<1>2. /\ seq' \in [Topics -> Nat] /\ ring' \in [Topics -> [0..(BackfillLimit - 1) -> Nat]]
      /\ conn' = [d \in Conns |-> conn'[d]]
      /\ Fine(conn', app, seq', viewers)
  BY <1>1, PublishKeeps DEF IInv
<1>3. app' = [a \in Accounts |-> app'[a]]
  BY <1>1 DEF IInv
<1>4. QED
  BY <1>1, <1>2, <1>3 DEF IInv

(* closeAll. *)
LEMMA CloseAllStep == ASSUME IInv, NEW c \in Conns, CloseAll(c) PROVE IInv'
<1> DEFINE x == conn[c]
           closing == [NotOpen("closing") EXCEPT !.acct = x.acct, !.pc = "publish", !.todo = <<Room>>]
           y == IF Subscribed(c, Room) THEN closing ELSE NotOpen("gone")
<1>1. IsClient(x) /\ viewers \in Nat /\ (Counts(x) => viewers > 0)
  BY ConnIs
<1>2. /\ x.life = "cut" /\ x.pc = "read" /\ UNCHANGED <<seq, ring, app>>
      /\ viewers' = IF Subscribed(c, Room) THEN ViewersWithout(c) ELSE viewers
      /\ conn' = [conn EXCEPT ![c] = y]
  BY DEF CloseAll
<1>3. ClientOK(y, seq) /\ ~ Counts(y) /\ NoSocket(y)
  <2>1. CASE Subscribed(c, Room)
    <3> DEFINE a == x.acct
    <3>1. a \in Accounts
      BY <1>1 DEF IsClient
    <3> HIDE DEF x
    <3>2. closing = [NotOpen("closing") EXCEPT !.acct = a, !.pc = "publish", !.todo = <<Room>>]
      OBVIOUS
    <3> HIDE DEF a, closing, y
    <3>3. /\ IsClient(closing) /\ closing.life = "closing" /\ closing.pc = "publish"
          /\ closing.todo \in Seq(Topics) /\ closing.todo # <<>>
          /\ closing.chans = <<>> /\ closing.inbox = <<>> /\ closing.send = <<>>
      BY <3>1, <3>2, ClosingIs
    <3>4. ClientOK(closing, seq) /\ ~ Counts(closing)
      BY <3>3, NotOpenOK
    <3>5. NoSocket(closing)
      BY <3>3 DEF NoSocket
    <3>6. y = closing
      BY <2>1 DEF y
    <3>7. QED
      BY <3>4, <3>5, <3>6
  <2>2. CASE ~ Subscribed(c, Room)
    <3>1. ClientOK(NotOpen("gone"), seq) /\ ~ Counts(NotOpen("gone"))
      BY NotOpenIs, NotOpenOK DEF Lives
    <3>2. NotOpen("gone").life = "gone"
      BY NotOpenIs DEF Lives
    <3>3. QED
      BY <2>2, <3>1, <3>2 DEF NoSocket
  <2>3. QED
    BY <2>1, <2>2
<1> HIDE DEF y
<1>4. Counts(x) <=> x.acct # Host /\ Subscribed(c, Room)
  BY <1>2 DEF Counts, Holds, Subscribed
<1>5. viewers' = viewers + One(Counts(y)) - One(Counts(x))
  BY <1>1, <1>2, <1>3, <1>4 DEF One, ViewersWithout
<1>6. QED
  BY <1>2, <1>3, <1>5, ConnStep
-----------------------------------------------------------------------------
(* The steps of the clients *)

(* A browser without a connection has one that nobody else has. *)
LEMMA PageIs ==
    ASSUME IInv, NEW a \in Accounts
    PROVE  /\ PageOK(app[a]) /\ app[a] \in Page
           /\ app[a].cur # NoConn =>
                  /\ app[a].cur \in Conns
                  /\ conn[app[a].cur].acct = a /\ conn[app[a].cur].life = "up"
                  /\ Joined(conn[app[a].cur], app[a], seq[Room])
                  /\ \A b \in Accounts \ {a} : app[b].cur # app[a].cur
<1>1. Fine(conn, app, seq, viewers)
  BY DEF IInv
<1>2. \A b \in Accounts :
          /\ PageOK(app[b]) /\ app[b] \in Page
          /\ app[b].cur # NoConn =>
                 /\ app[b].cur \in Conns
                 /\ conn[app[b].cur].acct = b /\ conn[app[b].cur].life = "up"
                 /\ Joined(conn[app[b].cur], app[b], seq[Room])
  BY <1>1 DEF Fine, PageOK, Page
<1>3. QED
  BY <1>2

(* A step of a browser that changes its connection. *)
LEMMA PageStep ==
    ASSUME IInv, NEW a \in Accounts, NEW c \in Conns,
           \A b \in Accounts \ {a} : app[b].cur # c,
           NEW y, conn' = [conn EXCEPT ![c] = y],
           NEW q, app' = [app EXCEPT ![a] = q],
           UNCHANGED <<seq, ring, viewers>>,
           NoSocket(y), ClientOK(y, seq), Counts(y) <=> Counts(conn[c]), PageOK(q),
           \/ q.cur = NoConn
           \/ q.cur = c /\ y.acct = a /\ y.life = "up" /\ Joined(y, q, seq[Room])
    PROVE  IInv'
<1>1. conn = [d \in Conns |-> conn[d]] /\ app = [b \in Accounts |-> app[b]]
  BY DEF IInv
<1>2. /\ conn' = [d \in Conns |-> conn'[d]] /\ conn'[c] = y
      /\ \A d \in Conns \ {c} : conn'[d] = conn[d]
  BY <1>1
<1>3. /\ app' = [b \in Accounts |-> app'[b]] /\ app'[a] = q
      /\ \A b \in Accounts \ {a} : app'[b] = app[b]
  BY <1>1
<1>4. Fine(conn, app, seq, viewers)
  BY DEF IInv
<1>5. Fine(conn', app', seq, viewers)
  BY <1>2, <1>3, <1>4, PageChanges
<1>6. QED
  BY <1>2, <1>3, <1>5 DEF IInv

(* connect. *)
LEMMA ConnectStep ==
    ASSUME IInv, NEW a \in Accounts, NEW c \in Conns, Connect(a, c)
    PROVE  IInv'
<1> DEFINE p == app[a]
           q == [p EXCEPT !.cur = c]
           y == Client(a)
<1>1. /\ p.cur = NoConn /\ conn[c].life = "free"
      /\ conn' = [conn EXCEPT ![c] = y] /\ UNCHANGED <<seq, ring, viewers>>
  BY DEF Connect
<1>2. app' = [app EXCEPT ![a] = q]
  BY DEF Connect
<1>3. PageOK(p) /\ p \in Page
  BY PageIs
<1>4. ~ p.acked
  BY <1>1, <1>3 DEF PageOK
<1>5. /\ ClientOK(y, seq) /\ ~ Counts(y) /\ y.acct = a /\ y.life = "up"
  <2>1. \A t \in Topics : seq[t] \in Nat
    BY DEF IInv
  <2>2. QED
    BY <2>1, ClientIs
<1>6. y.pc = "read" /\ Acking(y) = {}
  <2>1. y.pc = "read" /\ y.send = <<>>
    BY DEF Client
  <2>2. DOMAIN y.send = {}
    BY <2>1
  <2>3. QED
    BY <2>1, <2>2 DEF Acking
<1> HIDE DEF y
<1>7. PageOK(q) /\ q.cur = c /\ ~ q.acked
  <2> HIDE DEF p
  <2>1. q \in Page /\ q.cur = c /\ ~ q.acked /\ q.seen = p.seen /\ q.taken = p.taken
    BY <1>3, <1>4 DEF Page
  <2>2. QED
    BY <1>3, <2>1 DEF PageOK
<1> HIDE DEF q
<1>8. ~ Counts(conn[c])
  <2>1. conn[c] = NotOpen("free")
    BY <1>1, ConnIs DEF NoSocket
  <2>2. conn[c].chans = <<>>
    BY <2>1, NotOpenIs DEF Lives
  <2>3. DOMAIN conn[c].chans = {}
    BY <2>2
  <2>4. QED
    BY <2>3 DEF Counts, Holds
<1>9. \A b \in Accounts \ {a} : app[b].cur # c
  <2>1. NoConn # c
    BY GatewayAssumption
  <2>2. QED
    BY <1>1, <2>1, PageIs
<1>10. Joined(y, q, seq[Room])
  BY <1>6, <1>7 DEF Joined
<1>11. NoSocket(y)
  BY <1>5 DEF NoSocket
<1>12. QED
  BY <1>1, <1>2, <1>5, <1>7, <1>8, <1>9, <1>10, <1>11, PageStep

Broken(x) == [x EXCEPT !.life = "cut", !.send = <<>>, !.dropped = {},
                       !.chans = [k \in DOMAIN @ |-> [@[k] EXCEPT !.q = <<>>, !.got = 0]]]

(* What a broken socket makes of a connection. *)
LEMMA CutIs ==
    ASSUME NEW x, IsClient(x), NEW y, y = Broken(x)
    PROVE  /\ IsClient(y) /\ y.acct = x.acct /\ y.life = "cut" /\ y.inbox = x.inbox
           /\ y.send = <<>> /\ y.pc = x.pc /\ y.last = x.last /\ y.todo = x.todo
           /\ DOMAIN y.chans = DOMAIN x.chans
           /\ \A k \in DOMAIN x.chans :
                  /\ y.chans[k].topic = x.chans[k].topic
                  /\ y.chans[k].on = x.chans[k].on
                  /\ y.chans[k].q = <<>> /\ y.chans[k].got = 0
<1> DEFINE chans == [k \in DOMAIN x.chans |-> [x.chans[k] EXCEPT !.q = <<>>, !.got = 0]]
<1>1. \A k \in DOMAIN x.chans : x.chans[k] \in Chan
  BY ChannelIs
<1>2. \A k \in DOMAIN x.chans :
          /\ chans[k] \in Chan
          /\ chans[k].topic = x.chans[k].topic /\ chans[k].on = x.chans[k].on
          /\ chans[k].q = <<>> /\ chans[k].got = 0
  <2>1. ASSUME NEW ch \in Chan, NEW d, d = [ch EXCEPT !.q = <<>>, !.got = 0]
        PROVE  d \in Chan /\ d.topic = ch.topic /\ d.on = ch.on /\ d.q = <<>> /\ d.got = 0
    <3>1. <<>> \in Seq(Nat)
      OBVIOUS
    <3>2. QED
      BY <2>1, <3>1 DEF Chan
  <2>2. \A k \in DOMAIN x.chans : chans[k] = [x.chans[k] EXCEPT !.q = <<>>, !.got = 0]
    OBVIOUS
  <2> HIDE DEF chans
  <2>3. QED
    BY ZenonT(30), <1>1, <2>1, <2>2
<1>3. DOMAIN chans = DOMAIN x.chans
  OBVIOUS
<1>4. chans \in Seq(Chan)
  <2>1. DOMAIN x.chans = 1..Len(x.chans) /\ Len(x.chans) \in Nat
    <3> DEFINE r == x.chans
    <3>1. r \in Seq(Chan)
      BY DEF IsClient
    <3> HIDE DEF r
    <3>2. DOMAIN r = 1..Len(r) /\ Len(r) \in Nat
      BY <3>1
    <3> USE DEF r
    <3>3. QED
      BY <3>2
  <2>2. chans = [k \in 1..Len(x.chans) |-> chans[k]]
    BY <2>1
  <2> HIDE DEF chans
  <2>3. chans \in [1..Len(x.chans) -> Chan]
    BY <1>2, <2>1, <2>2
  <2>4. QED
    BY <2>1, <2>3
<1>5. y = [x EXCEPT !.life = "cut", !.send = <<>>, !.dropped = {}, !.chans = chans]
  BY DEF Broken
<1> HIDE DEF chans
<1>6. <<>> \in Seq(Frame) /\ {} \subseteq Nat
  OBVIOUS
<1>7. /\ IsClient(y) /\ y.acct = x.acct /\ y.life = "cut" /\ y.inbox = x.inbox
      /\ y.send = <<>> /\ y.pc = x.pc /\ y.last = x.last /\ y.todo = x.todo
      /\ y.chans = chans
  BY <1>4, <1>5, <1>6 DEF IsClient, Lives
<1>8. QED
  BY <1>2, <1>3, <1>7

(* The socket breaks: the server has not noticed yet. *)
LEMMA CutStep == ASSUME IInv, NEW a \in Accounts, Cut(a) PROVE IInv'
<1> DEFINE p == app[a]
           c == p.cur
           x == conn[c]
           y == Broken(x)
           q == [p EXCEPT !.cur = NoConn, !.acked = FALSE, !.ack = 0, !.since = 0]
<1>1. c # NoConn /\ UNCHANGED <<seq, ring, viewers>>
  BY DEF Cut
<1>2. conn' = [conn EXCEPT ![c] = y]
  BY Zenon DEF Cut, Broken
<1>3. PageOK(p) /\ p \in Page
  BY PageIs
<1>4. app' = [app EXCEPT ![a] = q]
  BY DEF Cut
<1>5. /\ c \in Conns /\ x.acct = a /\ x.life = "up"
      /\ \A b \in Accounts \ {a} : app[b].cur # c
  BY <1>1, PageIs
<1>6. ClientOK(x, seq) /\ IsClient(x)
  BY <1>5, ConnIs
<1>7. \A t \in Topics : seq[t] \in Nat
  BY DEF IInv
<1>8. /\ ClientOK(y, seq) /\ (Counts(y) <=> Counts(x)) /\ y.life = "cut"
  <2>1. y = Broken(x)
    OBVIOUS
  <2> HIDE DEF x, y
  <2>2. /\ IsClient(y) /\ y.acct = x.acct /\ y.life = "cut" /\ y.inbox = x.inbox
        /\ y.send = <<>> /\ y.pc = x.pc /\ y.last = x.last /\ y.todo = x.todo
        /\ DOMAIN y.chans = DOMAIN x.chans
        /\ \A k \in DOMAIN x.chans :
               /\ y.chans[k].topic = x.chans[k].topic
               /\ y.chans[k].on = x.chans[k].on
               /\ y.chans[k].q = <<>> /\ y.chans[k].got = 0
    BY <1>6, <2>1, CutIs
  <2>3. QED
    BY <1>6, <1>7, <2>2, CutOK
<1> HIDE DEF y
<1>9. NoSocket(y)
  BY <1>8 DEF NoSocket
<1>10. PageOK(q) /\ q.cur = NoConn
  <2> HIDE DEF p
  <2>1. q \in Page /\ q.cur = NoConn /\ ~ q.acked /\ q.seen = p.seen /\ q.taken = p.taken
    BY <1>3 DEF Page
  <2>2. QED
    BY <1>3, <2>1 DEF PageOK
<1> HIDE DEF q, x, c
<1>11. QED
  BY <1>1, <1>2, <1>4, <1>5, <1>8, <1>9, <1>10, PageStep DEF x

(* The user says something. *)
LEMMA SayStep ==
    ASSUME IInv, NEW a \in Accounts, NEW kind \in Chatter, NEW other \in Accounts,
           Say(a, kind, other)
    PROVE  IInv'
<1> DEFINE c == app[a].cur
           x == conn[c]
           m == <<"SAY", kind, other>>
           y == [x EXCEPT !.inbox = Append(@, m)]
<1>1. c # NoConn /\ UNCHANGED <<seq, ring, app, viewers>>
  BY DEF Say
<1>2. conn' = [conn EXCEPT ![c] = y]
  BY DEF Say
<1>3. c \in Conns /\ x.life = "up"
  BY <1>1, PageIs
<1>4. ClientOK(x, seq) /\ IsClient(x) /\ seq[Room] \in Nat /\ viewers \in Nat
  BY <1>3, ConnIs
<1>5. m \in Message /\ m[1] \notin {"SUBSCRIBE", "UNSUBSCRIBE"}
  BY DEF Message
<1>6. /\ Continues(x, y, seq) /\ (Counts(y) <=> Counts(x))
  <2> HIDE DEF x, m
  <2> DEFINE inbox == Append(x.inbox, m)
  <2>1. inbox \in Seq(Message)
    <3> DEFINE r == x.inbox
    <3>1. r \in Seq(Message)
      BY <1>4 DEF IsClient
    <3> HIDE DEF r
    <3>2. Append(r, m) \in Seq(Message)
      BY <1>5, <3>1, AppendIs
    <3> USE DEF r
    <3>3. QED
      BY <3>2
  <2>2. y = [x EXCEPT !.inbox = inbox]
    OBVIOUS
  <2> HIDE DEF y, inbox
  <2>3. /\ IsClient(y) /\ Same(x, y) /\ y.inbox = inbox
        /\ y.chans = x.chans /\ y.send = x.send /\ y.dropped = x.dropped
        /\ y.pc = x.pc /\ y.last = x.last /\ y.todo = x.todo
    BY <1>4, <2>1, <2>2 DEF IsClient, Same
  <2>4. KeepsAsking(x, y)
    BY <1>4, <1>5, <2>3, AsksIs, AsksKeepsAsking DEF inbox
  <2>5. QED
    BY <1>4, <2>3, <2>4, SayContinues
<1> HIDE DEF y
<1>7. viewers' = viewers + One(Counts(y)) - One(Counts(x))
  BY <1>1, <1>4, <1>6 DEF One
<1>8. NoSocket(y)
  BY <1>3, <1>6 DEF Continues, Same, NoSocket
<1> HIDE DEF x, c
<1>9. QED
  BY <1>1, <1>2, <1>3, <1>6, <1>7, <1>8, ConnStep DEF Continues, x

(* The room is left and entered again. *)
LEMMA RejoinStep == ASSUME IInv, NEW a \in Accounts, Rejoin(a) PROVE IInv'
<1> DEFINE p == app[a]
           c == p.cur
           x == conn[c]
           more == <<<<"UNSUBSCRIBE">>, <<"SUBSCRIBE">>>>
           y == [x EXCEPT !.inbox = @ \o more]
           q == [p EXCEPT !.acked = FALSE]
<1>1. c # NoConn /\ p.acked /\ UNCHANGED <<seq, ring, viewers>>
  BY DEF Rejoin
<1>2. conn' = [conn EXCEPT ![c] = y]
  BY DEF Rejoin
<1>3. app' = [app EXCEPT ![a] = q]
  BY DEF Rejoin
<1>4. PageOK(p) /\ p \in Page
  BY PageIs
<1>5. /\ c \in Conns /\ x.acct = a /\ x.life = "up" /\ Joined(x, p, seq[Room])
      /\ \A b \in Accounts \ {a} : app[b].cur # c
  BY <1>1, PageIs
<1>6. ClientOK(x, seq) /\ IsClient(x) /\ Holds(x) /\ Settled(x)
  BY <1>1, <1>5, ConnIs DEF Joined
<1>7. PageOK(q) /\ q.cur = c /\ ~ q.acked
  <2>1. q \in Page /\ q.cur = p.cur /\ ~ q.acked /\ q.seen = p.seen /\ q.taken = p.taken
    <3> HIDE DEF p
    <3>1. QED
      BY <1>4 DEF Page
  <2>2. QED
    BY <1>4, <2>1 DEF PageOK
<1>8. /\ ClientOK(y, seq) /\ (Counts(y) <=> Counts(x)) /\ y.acct = a /\ y.life = "up"
      /\ Joined(y, q, seq[Room])
  <2> HIDE DEF x, q
  <2> DEFINE inbox == x.inbox \o more
  <2>1. inbox \in Seq(Message)
    <3> DEFINE r == x.inbox
    <3>1. r \in Seq(Message)
      BY <1>6 DEF IsClient
    <3>2. more \in Seq(Message)
      BY DEF Message
    <3> HIDE DEF r, more
    <3>3. r \o more \in Seq(Message)
      BY <3>1, <3>2
    <3> USE DEF r
    <3>4. QED
      BY <3>3
  <2>2. y = [x EXCEPT !.inbox = inbox]
    OBVIOUS
  <2> HIDE DEF y, inbox
  <2>3. /\ IsClient(y) /\ Same(x, y) /\ y.inbox = inbox
        /\ y.chans = x.chans /\ y.send = x.send /\ y.dropped = x.dropped
        /\ y.pc = x.pc /\ y.last = x.last /\ y.todo = x.todo
    BY <1>6, <2>1, <2>2 DEF IsClient, Same
  <2>4. y.inbox = x.inbox \o <<<<"UNSUBSCRIBE">>, <<"SUBSCRIBE">>>>
    BY <2>3 DEF inbox
  <2>5. /\ ClientOK(y, seq) /\ (Counts(y) <=> Counts(x))
        /\ \A w : ~ w.acked => Joined(y, w, seq[Room])
    BY <1>6, <2>3, <2>4, RejoinOK DEF Same
  <2>6. QED
    BY <1>5, <1>7, <2>3, <2>5 DEF Same
<1> HIDE DEF y, q
<1>9. NoSocket(y)
  BY <1>8 DEF NoSocket
<1> HIDE DEF x, c
<1>10. QED
  BY <1>1, <1>2, <1>3, <1>5, <1>7, <1>8, <1>9, PageStep DEF x
Remains(x) == [x EXCEPT !.send = Tail(@)]
Asked(x, m) == [x EXCEPT !.inbox = Append(@, m)]
Got(x, k, e) == [x EXCEPT !.chans[k].got = e]

(* A connection less its first frame. *)
LEMMA RemainsIs ==
    ASSUME NEW x, IsClient(x), x.send # <<>>, NEW y, y = Remains(x)
    PROVE  /\ IsClient(y) /\ Same(x, y) /\ y.send = Tail(x.send)
           /\ y.chans = x.chans /\ y.inbox = x.inbox /\ y.dropped = x.dropped
           /\ y.pc = x.pc /\ y.last = x.last /\ y.todo = x.todo
<1> DEFINE r == x.send
           t == Tail(r)
<1>1. t \in Seq(Frame)
  <2>1. r \in Seq(Frame) /\ r # <<>>
    BY DEF IsClient
  <2> HIDE DEF r
  <2>2. QED
    BY <2>1, TailIs
<1>2. y = [x EXCEPT !.send = t]
  BY DEF Remains
<1>3. t = Tail(x.send)
  OBVIOUS
<1> HIDE DEF r, t
<1>4. QED
  BY <1>1, <1>2, <1>3 DEF IsClient, Same

(* A frame that is no event. *)
LEMMA HandedFrame ==
    ASSUME NEW x, IsClient(x), x.send # <<>>, x.send[1].kind # "event", NEW y, y = Remains(x)
    PROVE  Handed(x, y)
<1>1. /\ IsClient(y) /\ Same(x, y) /\ y.send = Tail(x.send)
      /\ y.chans = x.chans /\ y.inbox = x.inbox /\ y.dropped = x.dropped
      /\ y.pc = x.pc /\ y.last = x.last /\ y.todo = x.todo
  BY RemainsIs
<1>2. KeepsAsking(x, y)
  BY <1>1 DEF KeepsAsking, Asking
<1>3. QED
  BY <1>1, <1>2 DEF Handed

(* ... to which the client answers. *)
LEMMA HandedAsks ==
    ASSUME NEW x, IsClient(x), x.send # <<>>, x.send[1].kind # "event",
           NEW m \in Message, m[1] = "BACKFILL", NEW y, y = Asked(Remains(x), m)
    PROVE  Handed(x, y) /\ \E i \in Asking(y, "BACKFILL") : y.inbox[i] = m
<1> DEFINE z == Remains(x)
<1>1. /\ IsClient(z) /\ Same(x, z) /\ z.send = Tail(x.send)
      /\ z.chans = x.chans /\ z.inbox = x.inbox /\ z.dropped = x.dropped
      /\ z.pc = x.pc /\ z.last = x.last /\ z.todo = x.todo
  BY RemainsIs
<1> HIDE DEF z
<1> DEFINE inbox == Append(z.inbox, m)
<1>2. inbox \in Seq(Message)
  <2> DEFINE r == z.inbox
  <2>1. r \in Seq(Message)
    BY <1>1 DEF IsClient
  <2> HIDE DEF r
  <2>2. Append(r, m) \in Seq(Message)
    BY <2>1, AppendIs
  <2> USE DEF r
  <2>3. QED
    BY <2>2
<1>3. y = [z EXCEPT !.inbox = inbox]
  BY DEF Asked, z
<1> HIDE DEF inbox
<1>4. /\ IsClient(y) /\ Same(z, y) /\ y.send = z.send /\ y.inbox = inbox
      /\ y.chans = z.chans /\ y.dropped = z.dropped
      /\ y.pc = z.pc /\ y.last = z.last /\ y.todo = z.todo
  BY <1>1, <1>2, <1>3 DEF IsClient, Same
<1>5. y.inbox = Append(x.inbox, m)
  BY <1>1, <1>4 DEF inbox
<1>6. Asks(x, y, m)
  BY <1>5, AsksIs
<1>7. KeepsAsking(x, y)
  BY <1>6, AsksKeepsAsking
<1>8. \E i \in Asking(y, "BACKFILL") : y.inbox[i] = m
  BY <1>6 DEF Asks, Asking
<1>9. Handed(x, y)
  BY ONLY <1>1, <1>4, <1>7, x.send # <<>>, x.send[1].kind # "event" DEF Handed, Same
<1>10. QED
  BY <1>8, <1>9

(* An event. *)
LEMMA HandedEvent ==
    ASSUME NEW x, IsClient(x), x.send # <<>>, x.send[1].kind = "event",
           NEW k, k = x.send[1].via, k \in DOMAIN x.chans,
           NEW e \in Nat, e = x.send[1].last, NEW y, y = Got(Remains(x), k, e)
    PROVE  Handed(x, y)
<1> DEFINE z == Remains(x)
<1>1. /\ IsClient(z) /\ Same(x, z) /\ z.send = Tail(x.send)
      /\ z.chans = x.chans /\ z.inbox = x.inbox /\ z.dropped = x.dropped
      /\ z.pc = x.pc /\ z.last = x.last /\ z.todo = x.todo
  BY RemainsIs
<1> HIDE DEF z
<1> DEFINE ch == [z.chans[k] EXCEPT !.got = e]
           chans == [z.chans EXCEPT ![k] = ch]
<1>2. k \in DOMAIN z.chans /\ \A j \in DOMAIN z.chans : z.chans[j] \in Chan
  BY <1>1, ChannelIs
<1>3. /\ ch \in Chan /\ ch.topic = z.chans[k].topic /\ ch.on = z.chans[k].on
      /\ ch.q = z.chans[k].q /\ ch.got = e
  BY <1>2 DEF Chan
<1> HIDE DEF ch
<1>4. chans \in Seq(Chan) /\ DOMAIN chans = DOMAIN z.chans
  <2> DEFINE r == z.chans
  <2>1. r \in Seq(Chan) /\ k \in DOMAIN r
    BY <1>1, <1>2 DEF IsClient
  <2> HIDE DEF r
  <2>2. [r EXCEPT ![k] = ch] \in Seq(Chan) /\ DOMAIN [r EXCEPT ![k] = ch] = DOMAIN r
    BY <1>3, <2>1
  <2> USE DEF r
  <2>3. QED
    BY <2>2
<1>5. \A j \in DOMAIN z.chans : chans[j] = IF j = k THEN ch ELSE z.chans[j]
  OBVIOUS
<1>6. y = [z EXCEPT !.chans = chans]
  BY <1>1 DEF Got, z, ch, IsClient
<1> HIDE DEF chans
<1>7. /\ IsClient(y) /\ Same(z, y) /\ y.send = z.send /\ y.inbox = z.inbox
      /\ y.chans = chans /\ y.dropped = z.dropped
      /\ y.pc = z.pc /\ y.last = z.last /\ y.todo = z.todo
  BY <1>1, <1>4, <1>6 DEF IsClient, Same
<1>8. KeepsAsking(x, y)
  BY <1>1, <1>7 DEF KeepsAsking, Asking
<1>9. /\ IsClient(y) /\ Same(x, y) /\ y.send = Tail(x.send)
      /\ y.pc = x.pc /\ y.last = x.last /\ y.todo = x.todo /\ y.dropped = x.dropped
  BY <1>1, <1>7 DEF Same
<1>10. /\ DOMAIN y.chans = DOMAIN x.chans
       /\ \A j \in DOMAIN x.chans :
              /\ y.chans[j].topic = x.chans[j].topic
              /\ y.chans[j].on = x.chans[j].on
              /\ y.chans[j].q = x.chans[j].q
              /\ y.chans[j].got = IF x.send[1].kind = "event" /\ x.send[1].via = j
                                  THEN x.send[1].last ELSE x.chans[j].got
  BY <1>1, <1>3, <1>4, <1>5, <1>7
<1>11. QED
  BY <1>8, <1>9, <1>10 DEF Handed

(* A frame is handed over and leaves a page that is joined still. *)
LEMMA HandedStep ==
    ASSUME IInv, NEW a \in Accounts, NEW c, c = app[a].cur, c # NoConn,
           NEW y, Handed(conn[c], y), conn' = [conn EXCEPT ![c] = y],
           NEW q, app' = [app EXCEPT ![a] = q],
           UNCHANGED <<seq, ring, viewers>>,
           PageOK(q), q.cur = c, Joined(y, q, seq[Room])
    PROVE  IInv'
<1>1. /\ c \in Conns /\ conn[c].acct = a /\ conn[c].life = "up"
      /\ \A b \in Accounts \ {a} : app[b].cur # c
  BY PageIs
<1>2. ClientOK(conn[c], seq)
  BY <1>1, ConnIs
<1>3. ClientOK(y, seq) /\ (Counts(y) <=> Counts(conn[c]))
  BY <1>2, HandedOK
<1>4. y.acct = a /\ y.life = "up"
  BY <1>1 DEF Handed, Same
<1>5. NoSocket(y)
  BY <1>4 DEF NoSocket
<1>6. QED
  BY <1>1, <1>3, <1>4, <1>5, PageStep

(* What the browser is about to take. *)
LEMMA FirstFrame ==
    ASSUME IInv, NEW a \in Accounts, NEW p, p = app[a], NEW c, c = p.cur, c # NoConn,
           NEW x, x = conn[c], x.send # <<>>
    PROVE  /\ PageOK(p) /\ p \in Page /\ p.ack \in Int /\ p.since \in Int /\ p.lastSeq \in Nat
           /\ c \in Conns /\ ClientOK(x, seq) /\ IsClient(x) /\ Joined(x, p, seq[Room])
           /\ seq[Room] \in Nat
           /\ Head(x.send) = x.send[1] /\ x.send[1] \in Frame /\ Carries(x.send[1])
<1>1. PageOK(p) /\ p \in Page /\ c \in Conns /\ Joined(x, p, seq[Room])
  BY PageIs
<1>2. ClientOK(x, seq) /\ IsClient(x) /\ Busy(x) /\ seq[Room] \in Nat
  BY <1>1, ConnIs
<1>3. Head(x.send) = x.send[1] /\ 1 \in DOMAIN x.send /\ x.send[1] \in Frame
  <2> DEFINE r == x.send
  <2>1. r \in Seq(Frame) /\ r # <<>>
    BY <1>2 DEF IsClient
  <2> HIDE DEF r
  <2>2. Head(r) = r[1] /\ 1 \in DOMAIN r /\ r[1] \in Frame
    BY <2>1
  <2> USE DEF r
  <2>3. QED
    BY <2>2
<1>4. p.ack \in Int /\ p.since \in Int /\ p.lastSeq \in Nat
  BY <1>1 DEF Page
<1>5. QED
  BY <1>1, <1>2, <1>3, <1>4 DEF Busy

(* SUBSCRIBED: the client asks for what it has not. *)
LEMMA DeliverAck ==
    ASSUME IInv, NEW a \in Accounts, NEW p, p = app[a], NEW c, c = p.cur, c # NoConn,
           NEW x, x = conn[c], x.send # <<>>, NEW f, f = Head(x.send), f.kind = "SUBSCRIBED",
           NEW q, q = OnSubscribed(p, f.last), app' = [app EXCEPT ![a] = q],
           NEW y, \/ f.last > p.lastSeq /\ y = Asked(Remains(x), <<"BACKFILL", p.lastSeq>>)
                  \/ ~ (f.last > p.lastSeq) /\ y = Remains(x),
           conn' = [conn EXCEPT ![c] = y],
           UNCHANGED <<seq, ring, viewers>>
    PROVE  IInv'
<1>1. /\ PageOK(p) /\ p \in Page /\ p.lastSeq \in Nat
      /\ ClientOK(x, seq) /\ IsClient(x) /\ Joined(x, p, seq[Room]) /\ seq[Room] \in Nat
      /\ f = x.send[1] /\ f \in Frame
  BY FirstFrame
<1>2. f.last \in Nat
  BY <1>1 DEF Frame
<1> DEFINE m == <<"BACKFILL", p.lastSeq>>
<1>3. m \in Message /\ m[1] = "BACKFILL" /\ m[2] = p.lastSeq
  BY <1>1 DEF Message
<1> HIDE DEF m
<1>4. /\ Handed(x, y)
      /\ f.last > p.lastSeq => \E i \in Asking(y, "BACKFILL") : y.inbox[i] = m
  <2>1. CASE f.last > p.lastSeq
    <3>1. y = Asked(Remains(x), m)
      BY <2>1 DEF m
    <3>2. QED
      BY ONLY <1>1, <1>3, <3>1, f.kind = "SUBSCRIBED", x.send # <<>>, HandedAsks
  <2>2. CASE ~ (f.last > p.lastSeq)
    <3>1. y = Remains(x)
      BY <2>2
    <3>2. Handed(x, y)
      BY ONLY <1>1, <3>1, f.kind = "SUBSCRIBED", x.send # <<>>, HandedFrame
    <3>3. QED
      BY <2>2, <3>2
  <2>3. QED
    BY <2>1, <2>2
<1>5. /\ q \in Page /\ q.cur = p.cur /\ q.seen = p.seen /\ q.taken = p.taken
      /\ q.acked /\ q.ack = f.last
      /\ q.since = IF f.last > p.lastSeq THEN p.lastSeq ELSE f.last
  BY ONLY <1>1, <1>2, q = OnSubscribed(p, f.last) DEF OnSubscribed, Page
<1>6. PageOK(q)
  BY ONLY <1>1, <1>5, c = p.cur, c # NoConn DEF PageOK
<1>7. Joined(y, q, seq[Room])
  BY ONLY <1>1, <1>3, <1>4, <1>5, f.kind = "SUBSCRIBED", AckJoins
<1>8. c = app[a].cur /\ q.cur = c /\ Handed(conn[c], y)
  BY <1>4, <1>5
<1>9. /\ conn' = [conn EXCEPT ![c] = y] /\ app' = [app EXCEPT ![a] = q]
      /\ UNCHANGED <<seq, ring, viewers>>
  OBVIOUS
<1>10. QED
  BY ONLY IInv, a \in Accounts, c # NoConn, <1>6, <1>7, <1>8, <1>9, HandedStep

(* A replay, a refusal or an event: what it carries is taken. *)
LEMMA DeliverEvents ==
    ASSUME IInv, NEW a \in Accounts, NEW p, p = app[a], NEW c, c = p.cur, c # NoConn,
           NEW x, x = conn[c], x.send # <<>>,
           NEW q, Learns(p, q), x.send[1].events \subseteq q.taken, app' = [app EXCEPT ![a] = q],
           NEW y, Handed(x, y), conn' = [conn EXCEPT ![c] = y],
           UNCHANGED <<seq, ring, viewers>>
    PROVE  IInv'
<1>1. /\ p.ack \in Int /\ p.since \in Int
      /\ ClientOK(x, seq) /\ Joined(x, p, seq[Room]) /\ seq[Room] \in Nat
  BY FirstFrame
<1>2. /\ p.taken \subseteq q.taken /\ PageOK(q)
      /\ q.cur = p.cur /\ q.acked = p.acked /\ q.ack = p.ack /\ q.since = p.since
  BY DEF Learns
<1>3. Joined(y, q, seq[Room])
  BY ONLY <1>1, <1>2, Handed(x, y), x.send[1].events \subseteq q.taken, EventsKeepJoined
<1>4. c = app[a].cur /\ q.cur = c /\ Handed(conn[c], y)
  BY <1>2
<1>5. /\ conn' = [conn EXCEPT ![c] = y] /\ app' = [app EXCEPT ![a] = q]
      /\ UNCHANGED <<seq, ring, viewers>>
  OBVIOUS
<1>6. QED
  BY ONLY IInv, a \in Accounts, c # NoConn, <1>2, <1>3, <1>4, <1>5, HandedStep

(* CATCHUP_REQUIRED. *)
LEMMA DeliverCatchup ==
    ASSUME IInv, NEW a \in Accounts, NEW p, p = app[a], NEW c, c = p.cur, c # NoConn,
           NEW x, x = conn[c], x.send # <<>>, x.send[1].kind = "CATCHUP_REQUIRED",
           NEW q, q = OnCatchup(p), app' = [app EXCEPT ![a] = q],
           NEW y, y = Remains(x), conn' = [conn EXCEPT ![c] = y],
           UNCHANGED <<seq, ring, viewers>>
    PROVE  IInv'
<1>1. /\ PageOK(p) /\ p \in Page /\ p.ack \in Int
      /\ ClientOK(x, seq) /\ IsClient(x) /\ Joined(x, p, seq[Room]) /\ seq[Room] \in Nat
  BY FirstFrame
<1>2. Handed(x, y)
  BY ONLY <1>1, y = Remains(x), x.send[1].kind = "CATCHUP_REQUIRED", x.send # <<>>, HandedFrame
<1>3. /\ q \in Page /\ q.cur = p.cur /\ q.seen = p.seen /\ q.taken = p.taken
      /\ q.acked = p.acked /\ q.ack = p.ack /\ q.since = p.ack
  BY ONLY <1>1, q = OnCatchup(p) DEF OnCatchup, Page
<1>4. PageOK(q)
  BY ONLY <1>1, <1>3 DEF PageOK
<1>5. Joined(y, q, seq[Room])
  BY ONLY <1>1, <1>2, <1>3, x.send[1].kind = "CATCHUP_REQUIRED", CatchupKeepsJoined
<1>6. c = app[a].cur /\ q.cur = c /\ Handed(conn[c], y)
  BY <1>2, <1>3
<1>7. /\ conn' = [conn EXCEPT ![c] = y] /\ app' = [app EXCEPT ![a] = q]
      /\ UNCHANGED <<seq, ring, viewers>>
  OBVIOUS
<1>8. QED
  BY ONLY IInv, a \in Accounts, c # NoConn, <1>4, <1>5, <1>6, <1>7, HandedStep
(* Changing one connection twice. *)
LEMMA TwiceChanged ==
    ASSUME NEW cs, cs = [d \in Conns |-> cs[d]], NEW c \in Conns, NEW x, NEW y,
           NEW ds, ds = [cs EXCEPT ![c] = x]
    PROVE  ds[c] = x /\ [ds EXCEPT ![c] = y] = [cs EXCEPT ![c] = y]
OBVIOUS

(* The page takes the frame that writePump wrote. *)
LEMMA DeliverStep == ASSUME IInv, NEW a \in Accounts, Deliver(a) PROVE IInv'
<1> DEFINE p == app[a]
           c == p.cur
           x == conn[c]
           f == Head(x.send)
           rest == [conn EXCEPT ![c].send = Tail(@)]
           m == <<"BACKFILL", p.lastSeq>>
<1>1. c # NoConn /\ x.send # <<>> /\ UNCHANGED <<seq, ring, viewers>>
  BY DEF Deliver
<1>2. /\ PageOK(p) /\ p.lastSeq \in Nat
      /\ c \in Conns /\ ClientOK(x, seq) /\ IsClient(x) /\ seq[Room] \in Nat
      /\ f = x.send[1] /\ x.send[1] \in Frame /\ Carries(x.send[1])
  <2> HIDE DEF x, c, p
  <2>1. QED
    BY <1>1, FirstFrame DEF x, c, p
<1>3. conn = [d \in Conns |-> conn[d]] /\ app = [b \in Accounts |-> app[b]]
  BY DEF IInv
<1>4. rest = [conn EXCEPT ![c] = Remains(x)]
  BY DEF Remains
<1>5. /\ [rest EXCEPT ![c].inbox = Append(@, m)] = [conn EXCEPT ![c] = Asked(Remains(x), m)]
      /\ [rest EXCEPT ![c].chans[f.via].got = f.last]
            = [conn EXCEPT ![c] = Got(Remains(x), f.via, f.last)]
  <2> DEFINE z == Remains(x)
             w == Asked(z, m)
             e == Got(z, f.via, f.last)
  <2>1. [rest EXCEPT ![c].inbox = Append(@, m)] = [rest EXCEPT ![c] = Asked(rest[c], m)]
    BY DEF Asked
  <2>2. [rest EXCEPT ![c].chans[f.via].got = f.last]
            = [rest EXCEPT ![c] = Got(rest[c], f.via, f.last)]
    BY DEF Got
  <2>3. rest = [conn EXCEPT ![c] = z]
    BY <1>4
  <2> HIDE DEF rest, z, w, e, x, f, m, c
  <2>4. /\ rest[c] = z
        /\ [rest EXCEPT ![c] = w] = [conn EXCEPT ![c] = w]
        /\ [rest EXCEPT ![c] = e] = [conn EXCEPT ![c] = e]
    BY <1>2, <1>3, <2>3, TwiceChanged
  <2>5. QED
    BY <2>1, <2>2, <2>4 DEF w, e, z
<1>6. CASE f.kind = "SUBSCRIBED"
  <2> DEFINE q == OnSubscribed(p, f.last)
             y == IF f.last > p.lastSeq THEN Asked(Remains(x), m) ELSE Remains(x)
  <2>1. /\ app' = [app EXCEPT ![a] = q]
        /\ conn' = IF f.last > p.lastSeq THEN [rest EXCEPT ![c].inbox = Append(@, m)] ELSE rest
    BY <1>6 DEF Deliver
  <2>2. conn' = [conn EXCEPT ![c] = y]
    <3> HIDE DEF rest, m, x, f, c, p
    <3>1. QED
      BY <1>4, <1>5, <2>1
  <2>3. y = IF f.last > p.lastSeq THEN Asked(Remains(x), <<"BACKFILL", p.lastSeq>>) ELSE Remains(x)
    OBVIOUS
  <2>4. p = app[a] /\ c = p.cur /\ x = conn[c] /\ f = Head(x.send) /\ q = OnSubscribed(p, f.last)
    OBVIOUS
  <2> HIDE DEF y, q, f, x, c, p, rest
  <2>5. QED
    <3>1. /\ p = app[a] /\ c = p.cur /\ c # NoConn /\ x = conn[c] /\ x.send # <<>>
          /\ f = Head(x.send) /\ f.kind = "SUBSCRIBED" /\ q = OnSubscribed(p, f.last)
          /\ \/ f.last > p.lastSeq /\ y = Asked(Remains(x), <<"BACKFILL", p.lastSeq>>)
             \/ ~ (f.last > p.lastSeq) /\ y = Remains(x)
      BY ONLY <1>1, <1>6, <2>3, <2>4
    <3>2. app' = [app EXCEPT ![a] = q] /\ conn' = [conn EXCEPT ![c] = y]
      BY ONLY <1>1, <2>1, <2>2
    <3>3. UNCHANGED <<seq, ring, viewers>>
      BY ONLY <1>1
    <3>4. QED
      BY ONLY IInv, a \in Accounts, <3>1, <3>2, <3>3, DeliverAck
<1>7. CASE f.kind = "BACKFILL_RESULT"
  <2> DEFINE q == ApplyAll(p, f.list)
             y == Remains(x)
  <2>1. app' = [app EXCEPT ![a] = q] /\ conn' = rest
    BY <1>7 DEF Deliver
  <2>2. f.list \in Seq(Nat)
    BY <1>2 DEF Frame
  <2>3. /\ p = app[a] /\ c = p.cur /\ x = conn[c] /\ q = ApplyAll(p, f.list) /\ y = Remains(x)
        /\ conn' = [conn EXCEPT ![c] = y]
    BY <1>4, <2>1
  <2> HIDE DEF y, q, f, x, c, p, rest
  <2>4. Learns(p, q) /\ \A j \in DOMAIN f.list : f.list[j] \in q.taken
    BY ONLY <1>2, <2>2, <2>3, ApplyAllIs
  <2>5. x.send[1].events \subseteq q.taken
    BY <1>2, <1>7, <2>4 DEF Carries
  <2>6. Handed(x, y)
    BY ONLY <1>1, <1>2, <1>7, <2>3, HandedFrame
  <2>7. QED
    <3>1. /\ p = app[a] /\ c = p.cur /\ c # NoConn /\ x = conn[c] /\ x.send # <<>>
          /\ Learns(p, q) /\ x.send[1].events \subseteq q.taken /\ Handed(x, y)
      BY ONLY <1>1, <2>3, <2>4, <2>5, <2>6
    <3>2. app' = [app EXCEPT ![a] = q] /\ conn' = [conn EXCEPT ![c] = y]
      BY ONLY <1>1, <2>1, <2>3
    <3>3. UNCHANGED <<seq, ring, viewers>>
      BY ONLY <1>1
    <3>4. QED
      BY ONLY IInv, a \in Accounts, <3>1, <3>2, <3>3, DeliverEvents
<1>8. CASE f.kind = "CATCHUP_REQUIRED"
  <2> DEFINE q == OnCatchup(p)
             y == Remains(x)
  <2>1. app' = [app EXCEPT ![a] = q] /\ conn' = rest
    BY <1>8 DEF Deliver
  <2>2. /\ p = app[a] /\ c = p.cur /\ x = conn[c] /\ q = OnCatchup(p) /\ y = Remains(x)
        /\ conn' = [conn EXCEPT ![c] = y]
    BY <1>4, <2>1
  <2> HIDE DEF y, q, f, x, c, p, rest
  <2>3. x.send[1].kind = "CATCHUP_REQUIRED"
    BY <1>2, <1>8
  <2>4. QED
    <3>1. /\ p = app[a] /\ c = p.cur /\ c # NoConn /\ x = conn[c] /\ x.send # <<>>
          /\ x.send[1].kind = "CATCHUP_REQUIRED" /\ q = OnCatchup(p) /\ y = Remains(x)
      BY ONLY <1>1, <2>1, <2>2, <2>3
    <3>2. app' = [app EXCEPT ![a] = q] /\ conn' = [conn EXCEPT ![c] = y]
      BY ONLY <1>1, <2>1, <2>2, <2>3
    <3>3. UNCHANGED <<seq, ring, viewers>>
      BY ONLY <1>1
    <3>4. QED
      BY ONLY IInv, a \in Accounts, <3>1, <3>2, <3>3, DeliverCatchup
<1>9. CASE f.kind = "ERROR"
  <2> DEFINE q == p
             y == Remains(x)
  <2>1. app' = app /\ conn' = rest
    BY <1>9 DEF Deliver
  <2>2. /\ p = app[a] /\ c = p.cur /\ x = conn[c] /\ y = Remains(x)
        /\ conn' = [conn EXCEPT ![c] = y] /\ app' = [app EXCEPT ![a] = q]
    BY <1>3, <1>4, <2>1
  <2> HIDE DEF y, q, f, x, c, p, rest
  <2>3. Learns(p, q) /\ x.send[1].events \subseteq q.taken
    BY <1>2, <1>9 DEF q, Learns, Carries
  <2>4. Handed(x, y)
    BY ONLY <1>1, <1>2, <1>9, <2>2, HandedFrame
  <2>5. QED
    <3>1. /\ p = app[a] /\ c = p.cur /\ c # NoConn /\ x = conn[c] /\ x.send # <<>>
          /\ Learns(p, q) /\ x.send[1].events \subseteq q.taken /\ Handed(x, y)
      BY ONLY <1>1, <2>2, <2>3, <2>4
    <3>2. app' = [app EXCEPT ![a] = q] /\ conn' = [conn EXCEPT ![c] = y]
      BY ONLY <1>1, <2>2
    <3>3. UNCHANGED <<seq, ring, viewers>>
      BY ONLY <1>1
    <3>4. QED
      BY ONLY IInv, a \in Accounts, <3>1, <3>2, <3>3, DeliverEvents
<1>10. CASE f.kind = "event"
  <2> DEFINE q == Apply(p, f.topic, f.last)
             y == Got(Remains(x), f.via, f.last)
  <2>1. /\ app' = [app EXCEPT ![a] = q]
        /\ conn' = [rest EXCEPT ![c].chans[f.via].got = f.last]
    BY <1>10 DEF Deliver
  <2>2. f.topic \in Topics /\ f.last \in Nat
    BY <1>2 DEF Frame
  <2>3. /\ p = app[a] /\ c = p.cur /\ x = conn[c] /\ q = Apply(p, f.topic, f.last)
        /\ y = Got(Remains(x), f.via, f.last)
        /\ conn' = [conn EXCEPT ![c] = y]
    <3>1. conn' = [conn EXCEPT ![c] = y]
      <4> HIDE DEF rest, m, x, f, c, p
      <4>1. QED
        BY <1>5, <2>1
    <3>2. QED
      BY <3>1
  <2>4. f.via \in DOMAIN x.chans
    <3>1. Ordered(x, seq) /\ 1 \in DOMAIN x.send
      <4>1. Handed(x, Remains(x)) \/ x.send[1].kind = "event"
        BY <1>2, <1>10
      <4> DEFINE r == x.send
      <4>2. r \in Seq(Frame) /\ r # <<>>
        BY <1>1, <1>2 DEF IsClient
      <4> HIDE DEF r
      <4>3. 1 \in DOMAIN r
        BY <4>2
      <4> USE DEF r
      <4>4. QED
        BY <1>2, <4>3 DEF ClientOK
    <3>2. QED
      BY <1>2, <1>10, <3>1 DEF Ordered
  <2> HIDE DEF y, q, f, x, c, p, rest
  <2>5. Learns(p, q) /\ (f.topic = Room => f.last \in q.taken)
    BY ONLY <1>2, <2>2, <2>3, ApplyIs
  <2>6. x.send[1].events \subseteq q.taken
    BY <1>2, <1>10, <2>5 DEF Carries
  <2>7. Handed(x, y)
    <3>1. f.via = x.send[1].via /\ f.last = x.send[1].last /\ x.send[1].kind = "event"
      BY <1>2, <1>10
    <3>2. QED
      BY ONLY <1>1, <1>2, <2>2, <2>3, <2>4, <3>1, HandedEvent
  <2>8. QED
    <3>1. /\ p = app[a] /\ c = p.cur /\ c # NoConn /\ x = conn[c] /\ x.send # <<>>
          /\ Learns(p, q) /\ x.send[1].events \subseteq q.taken /\ Handed(x, y)
      BY ONLY <1>1, <2>3, <2>5, <2>6, <2>7
    <3>2. app' = [app EXCEPT ![a] = q] /\ conn' = [conn EXCEPT ![c] = y]
      BY ONLY <1>1, <2>1, <2>3
    <3>3. UNCHANGED <<seq, ring, viewers>>
      BY ONLY <1>1
    <3>4. QED
      BY ONLY IInv, a \in Accounts, <3>1, <3>2, <3>3, DeliverEvents
<1>11. f.kind \in FrameKinds
  BY <1>2 DEF Frame
<1>12. QED
  BY <1>6, <1>7, <1>8, <1>9, <1>10, <1>11 DEF FrameKinds

-----------------------------------------------------------------------------
(* The theorems *)

(* At first nobody is connected. *)
LEMMA InitIInv == GatewayInit => IInv
<1> SUFFICES ASSUME GatewayInit
             PROVE  IInv
  OBVIOUS
<1>1. /\ seq = [t \in Topics |-> 0]
      /\ ring = [t \in Topics |-> [i \in 0..(BackfillLimit - 1) |-> 0]]
      /\ conn = [c \in Conns |-> NotOpen("free")]
      /\ app = [a \in Accounts |-> App]
      /\ viewers = 0
  BY DEF GatewayInit
<1>2. App \in Page /\ App.cur = NoConn /\ ~ App.acked /\ App.seen = <<>>
  BY DEF App, Page
<1>3. PageOK(App)
  <2>1. DOMAIN App.seen = {}
    BY <1>2
  <2>2. QED
    BY <1>2, <2>1 DEF PageOK
<1> DEFINE x == NotOpen("free")
<1>4. ClientOK(x, seq) /\ ~ Counts(x) /\ x.life = "free"
  BY NotOpenIs, NotOpenOK DEF Lives
<1>5. NoSocket(x)
  BY <1>4 DEF NoSocket
<1>6. \A c \in Conns : conn[c] = x
  BY <1>1
<1>7. Counted(conn) = {}
  BY <1>4, <1>6 DEF Counted
<1>8. viewers \in Nat /\ IsFiniteSet(Counted(conn)) /\ viewers = Cardinality(Counted(conn))
  BY <1>1, <1>7, FS_EmptySet
<1> HIDE DEF x
<1>9. Fine(conn, app, seq, viewers)
  BY <1>1, <1>2, <1>3, <1>4, <1>5, <1>6, <1>8 DEF Fine
<1>10. /\ conn = [c \in Conns |-> conn[c]] /\ app = [a \in Accounts |-> app[a]]
       /\ seq \in [Topics -> Nat] /\ ring \in [Topics -> [0..(BackfillLimit - 1) -> Nat]]
  BY <1>1
<1>11. QED
  BY <1>9, <1>10 DEF IInv

(* Every step keeps the invariant. *)
LEMMA NextIInv == IInv /\ [GatewayNext]_gatewayVars => IInv'
<1> SUFFICES ASSUME IInv, [GatewayNext]_gatewayVars
             PROVE  IInv'
  OBVIOUS
<1>1. CASE UNCHANGED gatewayVars
  BY <1>1 DEF IInv, gatewayVars
<1>2. ASSUME NEW c \in Conns, ServerStep(c)
      PROVE  IInv'
  BY <1>2, ReadStep, AckStep, AnswerStep, PublishNextStep, CloseAllStep, ForwardStep DEF ServerStep
<1>3. ASSUME NEW a \in Accounts, ClientStep(a)
      PROVE  IInv'
  BY <1>3, CutStep, RejoinStep, DeliverStep, ConnectStep, SayStep DEF ClientStep
<1>4. ASSUME NEW t \in Topics, PublishElsewhere(t)
      PROVE  IInv'
  BY <1>4, PublishElsewhereStep
<1>5. QED
  BY <1>1, <1>2, <1>3, <1>4 DEF GatewayNext

(* The invariant holds in every reachable state, whatever the number of     *)
(* accounts, connections and topics and the sizes of ring and buffers.      *)
THEOREM Invariant == GatewaySpec => []IInv
<1>1. QED
  BY InitIInv, NextIInv, PTL DEF GatewaySpec

(* InOrder: no event of a subscription overtakes an earlier one, from the   *)
(* publication to the page.                                                 *)
THEOREM EventsKeepTheirOrder == GatewaySpec => []InOrder
<1>1. IInv => InOrder
  BY ConnIs DEF InOrder, ClientOK, Ordered
<1>2. QED
  BY <1>1, Invariant, PTL

(* CountIsSubscribers: roomViewers never drifts from the subscribers, as    *)
(* viewerJoinedRoom and viewerLeftRoom keep it.                             *)
THEOREM ViewersAreCounted == GatewaySpec => []CountIsSubscribers
<1>1. IInv => CountIsSubscribers
  <2> SUFFICES ASSUME IInv
               PROVE  CountIsSubscribers
    OBVIOUS
  <2>1. viewers = Cardinality(Counted(conn))
    BY DEF IInv, Fine
  <2>2. Counted(conn) = {c \in Conns :
                conn[c].acct # Host /\ Subscribed(c, Room) /\ conn[c].pc # "ack"}
    BY DEF Counted, Counts, Holds, Subscribed
  <2>3. QED
    BY <2>1, <2>2 DEF CountIsSubscribers
<1>2. QED
  BY <1>1, Invariant, PTL

(* Where an event of the room is on its way. *)
LEMMA OnTheWayHas ==
    ASSUME NEW c, NEW s
    PROVE  /\ \A k \in DOMAIN conn[c].chans : \A j \in DOMAIN conn[c].chans[k].q :
                  conn[c].chans[k].topic = Room /\ conn[c].chans[k].q[j] = s => s \in OnTheWay(c)
           /\ \A i \in DOMAIN conn[c].send : s \in conn[c].send[i].events => s \in OnTheWay(c)
           /\ \A i \in Asking(conn[c], "BACKFILL") :
                  s \in (conn[c].inbox[i][2] + 1)..seq[Room] => s \in OnTheWay(c)
           /\ conn[c].pc = "answer" /\ s \in (conn[c].last + 1)..conn[c].todo[2] => s \in OnTheWay(c)
<1> DEFINE x == conn[c]
           Queued == UNION {{x.chans[k].q[i] : i \in DOMAIN x.chans[k].q} :
                        k \in {j \in DOMAIN x.chans : x.chans[j].topic = Room}}
           Buffered == UNION {x.send[i].events : i \in DOMAIN x.send}
           Replayed == UNION {(x.inbox[i][2] + 1)..seq[Room] :
                                 i \in {j \in DOMAIN x.inbox : x.inbox[j][1] = "BACKFILL"}}
           Answered == IF x.pc = "answer" THEN (x.last + 1)..x.todo[2] ELSE {}
<1>1. OnTheWay(c) = Queued \cup Buffered \cup Replayed \cup Answered
  <2>1. Waiting(c) = Queued
    BY Zenon DEF Waiting
  <2>2. OnTheWay(c) = Waiting(c) \cup Buffered \cup Replayed \cup Answered
    BY Zenon DEF OnTheWay
  <2> HIDE DEF Queued, Buffered, Replayed, Answered
  <2>3. QED
    BY <2>1, <2>2
<1>2. ASSUME NEW k \in DOMAIN x.chans, NEW j \in DOMAIN x.chans[k].q,
             x.chans[k].topic = Room, x.chans[k].q[j] = s
      PROVE  s \in Queued
  <2>1. s \in {x.chans[k].q[i] : i \in DOMAIN x.chans[k].q}
    BY <1>2
  <2>2. k \in {i \in DOMAIN x.chans : x.chans[i].topic = Room}
    BY <1>2
  <2>3. QED
    BY ONLY <2>1, <2>2, Zenon
<1>3. ASSUME NEW i \in DOMAIN x.send, s \in x.send[i].events
      PROVE  s \in Buffered
  BY <1>3
<1>4. ASSUME NEW i \in Asking(x, "BACKFILL"), s \in (x.inbox[i][2] + 1)..seq[Room]
      PROVE  s \in Replayed
  <2>1. i \in {j \in DOMAIN x.inbox : x.inbox[j][1] = "BACKFILL"}
    BY DEF Asking
  <2>2. QED
    BY ONLY <1>4, <2>1, Zenon
<1>5. x.pc = "answer" /\ s \in (x.last + 1)..x.todo[2] => s \in Answered
  OBVIOUS
<1> HIDE DEF x, Queued, Buffered, Replayed, Answered
<1>6. QED
  BY <1>1, <1>2, <1>3, <1>4, <1>5 DEF x

(* NoGapSinceTheAck: what the subscription, its ack, the replay and the     *)
(* live events bring leaves nothing out.                                    *)
THEOREM ReplayAndLiveEventsJoin == GatewaySpec => []NoGapSinceTheAck
<1>1. IInv => NoGapSinceTheAck
  <2> SUFFICES ASSUME IInv, NEW a \in Accounts, Watching(a),
                      NEW s \in (app[a].since + 1)..seq[Room]
               PROVE  \/ s \in app[a].taken
                      \/ s \in conn[app[a].cur].dropped
                      \/ s \in OnTheWay(app[a].cur)
    BY DEF NoGapSinceTheAck
  <2> DEFINE p == app[a]
             c == p.cur
             x == conn[c]
  <2>1. p.cur # NoConn /\ p.acked
    BY DEF Watching
  <2>2. c \in Conns /\ Joined(x, p, seq[Room]) /\ PageOK(p) /\ p \in Page
    BY <2>1, PageIs
  <2>3. p.ack \in Nat /\ p.since \in Nat /\ seq[Room] \in Nat /\ IsClient(x)
    BY <2>2, ConnIs DEF Page
  <2>4. s \in Int /\ s > p.since /\ s <= seq[Room]
    BY <2>3
  <2>5. ASSUME NEW i \in Asking(x, "BACKFILL"), x.inbox[i][2] < s
        PROVE  s \in (x.inbox[i][2] + 1)..seq[Room]
    <3>1. x.inbox \in Seq(Message)
      BY <2>3 DEF IsClient
    <3>2. x.inbox[i] \in Message /\ x.inbox[i][1] = "BACKFILL"
      BY <3>1 DEF Asking
    <3>3. x.inbox[i] \in {"BACKFILL"} \X Nat
      BY <3>2 DEF Message
    <3>4. x.inbox[i][2] \in Nat
      BY <3>3
    <3>5. QED
      BY <2>3, <2>4, <2>5, <3>4
  <2> HIDE DEF p, c, x
  <2>6. CASE s <= p.ack
    <3>1. Replays(x, p, s)
      BY <2>1, <2>2, <2>3, <2>4, <2>6 DEF Joined
    <3>2. s \in p.taken \/ s \in x.dropped \/ s \in OnTheWay(c)
      BY <2>5, <3>1, OnTheWayHas DEF Replays, x
    <3>3. QED
      BY <3>2 DEF p, c, x
  <2>7. CASE s > p.ack
    <3>1. Comes(x, p, s)
      BY <2>1, <2>2, <2>3, <2>4, <2>7 DEF Joined, LiveSince
    <3>2. s \in p.taken \/ s \in x.dropped \/ s \in OnTheWay(c)
      BY <3>1, OnTheWayHas DEF Comes, x
    <3>3. QED
      BY <3>2 DEF p, c, x
  <2>8. QED
    BY <2>3, <2>4, <2>6, <2>7
<1>2. QED
  BY <1>1, Invariant, PTL
=============================================================================
