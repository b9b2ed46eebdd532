------------------------------- MODULE Gateway -------------------------------
(****************************************************************************)
(* The realtime gateway: the event bus with its replay ring, the server's   *)
(* side of WebSocket connections (subscriptions, forwarding through bounded *)
(* buffers, viewer counts), and the web client, which reconnects and asks   *)
(* for what it has missed.  One room; every account has a topic of its own. *)
(*                                                                          *)
(* A connection's frames are handled one at a time by its read loop; between *)
(* the calls one frame makes, other connections and forwarders go on.       *)
(****************************************************************************)
EXTENDS Integers, Sequences, FiniteSets

CONSTANTS
    Accounts, Host,     \* the accounts online, and the one whose room it is
    Conns, NoConn,      \* connections there will be, and no connection
    BackfillLimit,      \* events the bus replays at most
    SeenCap,            \* message ids a client remembers
    ChanCap, SendCap,   \* buffers of a subscription and of a connection
    MaxSeq,             \* bound: events per topic
    MaxFrames,          \* bound: frames clients send besides the protocol's
    Chatter             \* what those frames are

Room == "room"
Topics == {Room} \cup Accounts      \* an account stands for user:{id}

ASSUME GatewayAssumption ==
    /\ Host \in Accounts /\ NoConn \notin Conns
    /\ Room \notin Accounts            \* room:{id} is no user:{id}
    /\ BackfillLimit \in Nat \ {0} /\ SeenCap \in Nat \ {0}
    /\ ChanCap \in Nat \ {0} /\ SendCap \in Nat \ {0}
    /\ MaxSeq \in Nat /\ MaxFrames \in Nat

VARIABLES
    seq,        \* topicState.seq: events published per topic
    ring,       \* topicState.ring: the sequence number in each slot
    conn,       \* ws.client, one for each connection
    app,        \* useRealtimeRoom in the browser of each account
    viewers,    \* roomViewers of the room
    frames      \* bound: frames sent besides the protocol's

gatewayVars == <<seq, ring, conn, app, viewers, frames>>

(* a subscription's channel; id is its place among the connection's.
   got is auxiliary: the last event of it the client was handed *)
Channel(t) == [topic |-> t, on |-> TRUE, q |-> <<>>, got |-> 0]

(* dropped is auxiliary: the room's events that full buffers lost *)
Client(a) ==
    [acct |-> a, life |-> "up", chans |-> <<Channel(a)>>, inbox |-> <<<<"SUBSCRIBE">>>>,
     send |-> <<>>, pc |-> "read", last |-> 0, todo |-> <<>>, dropped |-> {}]

NotOpen(life) == [Client(Host) EXCEPT !.life = life, !.chans = <<>>, !.inbox = <<>>]

(* shown is what the page holds of the room.  taken, ack and since are auxiliary:
   all it was ever given of it, where the last ack left the client, and what it
   has asked for since *)
App == [cur |-> NoConn, lastSeq |-> 0, seen |-> <<>>, shown |-> {}, taken |-> {},
        acked |-> FALSE, ack |-> 0, since |-> 0]

GatewayInit ==
    /\ seq = [t \in Topics |-> 0]
    /\ ring = [t \in Topics |-> [i \in 0..(BackfillLimit - 1) |-> 0]]
    /\ conn = [c \in Conns |-> NotOpen("free")]
    /\ app = [a \in Accounts |-> App]
    /\ viewers = 0
    /\ frames = 0

-----------------------------------------------------------------------------
(* The bus *)

Full(ch) == Len(ch.q) >= ChanCap

(* Publish: a full channel loses the event for its subscriber.  What waits for a
   dead socket is not kept in the model, for nobody gets it *)
Offer(ch, t, s) ==
    IF ch.topic = t /\ ch.on /\ ~Full(ch) THEN [ch EXCEPT !.q = Append(@, s)] ELSE ch

Loses(cl, t) == t = Room /\ \E k \in DOMAIN cl.chans :
                    cl.chans[k].topic = t /\ cl.chans[k].on /\ Full(cl.chans[k])

PublishWithoutLock(t, conns) ==
    \E s \in {seq[t], seq[t] + 1} :
        /\ s \in 1..MaxSeq
        /\ seq' = [seq EXCEPT ![t] = s]
        /\ ring' = [ring EXCEPT ![t][s % BackfillLimit] = s]
        /\ conn' = [c \in Conns |->
                IF conns[c].life # "up" THEN conns[c]
                ELSE [conns[c] EXCEPT !.chans = [k \in DOMAIN @ |-> Offer(@[k], t, s)]]]

Publish(t, conns) ==
    LET s == seq[t] + 1 IN
    /\ s <= MaxSeq
    /\ seq' = [seq EXCEPT ![t] = s]
    /\ ring' = [ring EXCEPT ![t][s % BackfillLimit] = s]
    /\ conn' = [c \in Conns |->
                    IF conns[c].life # "up" THEN conns[c]
                    ELSE [conns[c] EXCEPT
                            !.chans = [k \in DOMAIN @ |-> Offer(@[k], t, s)],
                            !.dropped = IF Loses(conns[c], t) THEN @ \cup {s} ELSE @]]

(* what Backfill answers: the events after from, or that the gap is too large *)
BackfillSkipsOne(t, from) ==
    LET gap == seq[t] - from IN
    IF from >= seq[t] THEN [ok |-> TRUE, events |-> <<>>]
    ELSE IF gap > BackfillLimit THEN [ok |-> FALSE, events |-> <<>>]
    ELSE [ok |-> TRUE,
          events |-> [i \in 1..(gap - 1) |-> ring[t][(from + i + 1) % BackfillLimit]]]

Backfill(t, from) ==
    LET gap == seq[t] - from IN
    IF from >= seq[t] THEN [ok |-> TRUE, events |-> <<>>]
    ELSE IF \/ gap > BackfillLimit
            \/ \E s \in (from + 1)..seq[t] : ring[t][s % BackfillLimit] # s
         THEN [ok |-> FALSE, events |-> <<>>]
         ELSE [ok |-> TRUE, events |-> [i \in 1..gap |-> ring[t][(from + i) % BackfillLimit]]]

-----------------------------------------------------------------------------
(* The server's side of a connection *)

Subscribed(c, t) == \E k \in DOMAIN conn[c].chans :
                        conn[c].chans[k].topic = t /\ conn[c].chans[k].on

Off(chans, t) == [k \in DOMAIN chans |->
                    IF chans[k].topic = t THEN [chans[k] EXCEPT !.on = FALSE] ELSE chans[k]]

(* sendControl, and the send in forward: a full buffer drops the frame *)
Sent(cl, f) ==
    IF Len(cl.send) < SendCap THEN [cl EXCEPT !.send = Append(@, f)]
    ELSE [cl EXCEPT !.dropped = @ \cup f.events]

Control(kind, last, events) == [kind |-> kind, last |-> last, events |-> events,
                                list |-> <<>>, via |-> 0, topic |-> Room]
Event(t, s, k) == [kind |-> "event", last |-> s, list |-> <<>>, via |-> k, topic |-> t,
                   events |-> IF t = Room THEN {s} ELSE {}]

(* client.forward, a goroutine for each subscription, which outlives it *)
Forward(c, k) ==
    /\ conn[c].chans[k].q # <<>>
    /\ LET f == Event(conn[c].chans[k].topic, Head(conn[c].chans[k].q), k)
       IN  conn' = [conn EXCEPT ![c] = Sent([conn[c] EXCEPT !.chans[k].q = Tail(@)], f)]
    /\ UNCHANGED <<seq, ring, app, viewers, frames>>

(* the topics handle publishes on for one frame, in order.  A gift is announced to
   the room and to both wallets; only the host moderates, and the one concerned
   is told as well; signals go to one account only *)
Gift(a, recipient) == <<Room, a, recipient>>
Moderation(a, target) == IF a = Host THEN <<Room, Room, target>> ELSE <<>>
BroadcastSignal(target) == <<target>>

Publications(kind, a, other) ==
    CASE kind \in {"COMMENT", "LIKE"} -> <<Room>>
      [] kind = "GIFT_SENT" -> Gift(a, other)
      [] kind \in {"MUTE_USER", "KICK_USER"} -> Moderation(a, other)
      [] kind = "BROADCAST_SIGNAL" -> BroadcastSignal(other)
      [] OTHER -> <<>>

(* viewerLeftRoom, for a connection that held the room *)
NobodyLeaves(c) == viewers
ViewersWithout(c) == IF conn[c].acct = Host \/ viewers = 0 THEN viewers ELSE viewers - 1

(* readPump takes the next frame and handle begins on it *)
Read(c) ==
    /\ conn[c].life \in {"up", "cut"} /\ conn[c].pc = "read" /\ conn[c].inbox # <<>>
    /\ LET f == Head(conn[c].inbox)
           cl == [conn[c] EXCEPT !.inbox = Tail(@)]
           says == Publications(f[2], cl.acct, f[3])
       IN  \/ /\ f[1] = "SUBSCRIBE"
              /\ conn' = [conn EXCEPT ![c] = [cl EXCEPT !.pc = "ack", !.last = seq[Room],
                    !.chans = IF Subscribed(c, Room) THEN @ ELSE Append(@, Channel(Room))]]
              /\ UNCHANGED viewers
           \/ /\ f[1] = "UNSUBSCRIBE" /\ Subscribed(c, Room)
              /\ conn' = [conn EXCEPT ![c] = [cl EXCEPT !.pc = "publish", !.todo = <<Room>>,
                                                       !.chans = Off(@, Room)]]
              /\ viewers' = ViewersWithout(c)
           \/ /\ f[1] = "BACKFILL"
              /\ conn' = [conn EXCEPT ![c] = [cl EXCEPT !.pc = "answer", !.last = f[2],
                                                !.todo = <<Backfill(Room, f[2]), seq[Room]>>]]
              /\ UNCHANGED viewers
           \/ /\ f[1] = "SAY"
              /\ conn' = [conn EXCEPT ![c] = IF says = <<>> THEN Sent(cl, Control("ERROR", 0, {}))
                                             ELSE [cl EXCEPT !.pc = "publish", !.todo = says]]
              /\ UNCHANGED viewers
    /\ UNCHANGED <<seq, ring, app, frames>>

(* SUBSCRIBE: the ack follows the subscription, and viewerJoinedRoom and the
   announcement the ack; the host is not counted among the viewers *)
Ack(c) ==
    /\ conn[c].pc = "ack"
    /\ viewers' = IF conn[c].acct = Host THEN viewers ELSE viewers + 1
    /\ conn' = [conn EXCEPT ![c] = [Sent(@, Control("SUBSCRIBED", @.last, {}))
                                    EXCEPT !.pc = "publish", !.todo = <<Room>>, !.last = 0]]
    /\ UNCHANGED <<seq, ring, app, frames>>

(* BACKFILL: the answer was taken from the ring before it is sent *)
Answer(c) ==
    LET r == conn[c].todo[1] IN
    /\ conn[c].pc = "answer"
    /\ conn' = [conn EXCEPT ![c] =
            [Sent(@, IF r.ok THEN [Control("BACKFILL_RESULT", 0, {r.events[i] : i \in DOMAIN r.events})
                                        EXCEPT !.list = r.events]
                     ELSE Control("CATCHUP_REQUIRED", 0, (@.last + 1)..@.todo[2]))
                EXCEPT !.pc = "read", !.todo = <<>>, !.last = 0]]
    /\ UNCHANGED <<seq, ring, app, viewers, frames>>

(* one Publish after the other; the read loop goes on after the last *)
PublishNext(c) ==
    /\ conn[c].pc = "publish"
    /\ Publish(Head(conn[c].todo),
               [conn EXCEPT ![c] = IF Len(@.todo) = 1 /\ @.life = "closing" THEN NotOpen("gone")
                                   ELSE [conn[c] EXCEPT !.todo = Tail(@), !.last = 0,
                                        !.pc = IF Len(conn[c].todo) > 1 THEN @ ELSE "read"]])
    /\ UNCHANGED <<app, viewers, frames>>

(* readPump fails on the dead socket, whatever it has still to read: closeAll *)
CloseAll(c) ==
    /\ conn[c].life = "cut" /\ conn[c].pc = "read"
    /\ viewers' = IF Subscribed(c, Room) THEN ViewersWithout(c) ELSE viewers
    /\ conn' = [conn EXCEPT ![c] =
            IF Subscribed(c, Room)
            THEN [NotOpen("closing") EXCEPT !.acct = conn[c].acct, !.pc = "publish", !.todo = <<Room>>]
            ELSE NotOpen("gone")]
    /\ UNCHANGED <<seq, ring, app, frames>>

(* a publication from outside a connection: STREAM_ENDED on the room, a
   translation or a call's event on an account's topic *)
PublishElsewhere(t) ==
    /\ frames < MaxFrames
    /\ frames' = frames + 1
    /\ Publish(t, conn)
    /\ UNCHANGED <<app, viewers>>

-----------------------------------------------------------------------------
(* The web client *)

(* connect: a fresh token from GET /auth/ws-token is consumed by the upgrade (one
   that has expired is refused and the client tries again); ServeHTTP subscribes
   to the account's topic and starts the pumps; onopen asks for the room *)
Connect(a, c) ==
    /\ app[a].cur = NoConn /\ conn[c].life = "free"
    /\ conn' = [conn EXCEPT ![c] = Client(a)]
    /\ app' = [app EXCEPT ![a].cur = c]
    /\ UNCHANGED <<seq, ring, viewers, frames>>

(* the socket breaks, or the page closes it; onclose schedules a reconnect *)
Cut(a) ==
    /\ app[a].cur # NoConn
    /\ conn' = [conn EXCEPT ![app[a].cur] =
            [conn[app[a].cur] EXCEPT
                      !.life = "cut", !.send = <<>>, !.dropped = {},
                      !.chans = [k \in DOMAIN @ |-> [@[k] EXCEPT !.q = <<>>, !.got = 0]]]]
    /\ app' = [app EXCEPT ![a].cur = NoConn, ![a].acked = FALSE, ![a].ack = 0, ![a].since = 0]
    /\ UNCHANGED <<seq, ring, viewers, frames>>

Say(a, kind, other) ==
    /\ app[a].cur # NoConn /\ frames < MaxFrames
    /\ frames' = frames + 1
    /\ conn' = [conn EXCEPT ![app[a].cur].inbox = Append(@, <<"SAY", kind, other>>)]
    /\ UNCHANGED <<seq, ring, app, viewers>>

(* leave the room and enter it again on one connection *)
Rejoin(a) ==
    /\ app[a].cur # NoConn /\ app[a].acked /\ frames < MaxFrames
    /\ frames' = frames + 1
    /\ conn' = [conn EXCEPT ![app[a].cur].inbox = @ \o <<<<"UNSUBSCRIBE">>, <<"SUBSCRIBE">>>>]
    /\ app' = [app EXCEPT ![a].acked = FALSE]
    /\ UNCHANGED <<seq, ring, viewers>>

(* applyEvent: drop what was seen; lastSeq is one number for all topics *)
Apply(p, t, s) ==
    IF \E i \in DOMAIN p.seen : p.seen[i] = <<t, s>> THEN p
    ELSE [p EXCEPT !.seen = LET longer == Append(@, <<t, s>>) IN
                            IF Len(longer) > SeenCap THEN Tail(longer) ELSE longer,
                   !.lastSeq = IF s > @ THEN s ELSE @,
                   !.shown = IF t = Room THEN @ \cup {s} ELSE @,
                   !.taken = IF t = Room THEN @ \cup {s} ELSE @]

ApplyAll(p, list) ==
    LET after[i \in 0..Len(list)] == IF i = 0 THEN p ELSE Apply(after[i - 1], Room, list[i])
    IN  after[Len(list)]

(* SUBSCRIBED: backfillIfNeeded *)
OnSubscribed(p, last) ==
    [p EXCEPT !.acked = TRUE, !.ack = last,
              !.since = IF last > p.lastSeq THEN p.lastSeq ELSE last]

(* CATCHUP_REQUIRED: start over with an empty page, from the ack on; the ids that
   were seen stay *)
OnCatchup(p) == [p EXCEPT !.lastSeq = 0, !.shown = {}, !.since = p.ack]

(* writePump writes a frame and the page's onmessage takes it *)
Deliver(a) ==
    LET c == app[a].cur
        f == Head(conn[c].send)
        p == app[a]
        rest == [conn EXCEPT ![c].send = Tail(@)]
    IN
    /\ c # NoConn /\ conn[c].send # <<>>
    /\ CASE f.kind = "SUBSCRIBED" ->
                /\ app' = [app EXCEPT ![a] = OnSubscribed(p, f.last)]
                /\ conn' = IF f.last > p.lastSeq
                           THEN [rest EXCEPT ![c].inbox = Append(@, <<"BACKFILL", p.lastSeq>>)]
                           ELSE rest
         [] f.kind = "BACKFILL_RESULT" ->
                app' = [app EXCEPT ![a] = ApplyAll(p, f.list)] /\ conn' = rest
         [] f.kind = "CATCHUP_REQUIRED" ->
                app' = [app EXCEPT ![a] = OnCatchup(p)] /\ conn' = rest
         [] f.kind = "ERROR" -> app' = app /\ conn' = rest
         [] f.kind = "event" ->
                /\ app' = [app EXCEPT ![a] = Apply(p, f.topic, f.last)]
                /\ conn' = [rest EXCEPT ![c].chans[f.via].got = f.last]
    /\ UNCHANGED <<seq, ring, viewers, frames>>

-----------------------------------------------------------------------------
ServerStep(c) ==
    \/ Read(c) \/ Ack(c) \/ Answer(c) \/ PublishNext(c) \/ CloseAll(c)
    \/ \E k \in DOMAIN conn[c].chans : Forward(c, k)

ClientStep(a) ==
    \/ Cut(a) \/ Rejoin(a) \/ Deliver(a)
    \/ \E c \in Conns : Connect(a, c)
    \/ \E kind \in Chatter, other \in Accounts \ {a} : Say(a, kind, other)

GatewayNext ==
    \/ \E c \in Conns : ServerStep(c)
    \/ \E a \in Accounts : ClientStep(a)
    \/ \E t \in Topics : PublishElsewhere(t)

GatewaySpec == GatewayInit /\ [][GatewayNext]_gatewayVars
-----------------------------------------------------------------------------
(* Where an event of the room still is on its way to a connection *)
Waiting(c) ==
    LET chans == conn[c].chans IN
    UNION {{chans[k].q[i] : i \in DOMAIN chans[k].q} :
                k \in {j \in DOMAIN chans : chans[j].topic = Room}}

OnTheWay(c) ==
    LET cl == conn[c] IN
    Waiting(c)
    \cup (UNION {cl.send[i].events : i \in DOMAIN cl.send})
    \cup (UNION {(cl.inbox[i][2] + 1)..seq[Room] : i \in {j \in DOMAIN cl.inbox : cl.inbox[j][1] = "BACKFILL"}})
    \cup (IF cl.pc = "answer" THEN (cl.last + 1)..cl.todo[2] ELSE {})

(* The client has been acknowledged and nothing undoes its subscription *)
Watching(a) == app[a].cur # NoConn /\ app[a].acked

(* What subscription k has handed to the client of x, has in the connection's
   buffer and in its own channel, ascends. *)
Ascends(x, k) ==
    LET ch == x.chans[k]
        mine == {i \in DOMAIN x.send : x.send[i].kind = "event" /\ x.send[i].via = k}
    IN  /\ \A i, j \in mine : i < j => x.send[i].last < x.send[j].last
        /\ \A i, j \in DOMAIN ch.q : i < j => ch.q[i] < ch.q[j]
        /\ \A i \in mine : ch.got < x.send[i].last
        /\ \A j \in DOMAIN ch.q : ch.got < ch.q[j]
        /\ \A i \in mine, j \in DOMAIN ch.q : x.send[i].last < ch.q[j]

(* "Per-topic ordered delivery" (bus.go:1-6): nothing that happens between a
   publication and the client lets a later event of a subscription overtake. *)
InOrder == \A c \in Conns : \A k \in DOMAIN conn[c].chans : Ascends(conn[c], k)

(* Subscription, ack, replay and live events join without a gap: whatever was
   published after what the client had when it was acknowledged has been given to
   its page, is on its way, or was lost to a full buffer. *)
NoGapSinceTheAck ==
    \A a \in Accounts : Watching(a) =>
        \A s \in (app[a].since + 1)..seq[Room] :
            \/ s \in app[a].taken
            \/ s \in conn[app[a].cur].dropped
            \/ s \in OnTheWay(app[a].cur)

(* "The count can never drift from the real subscriber set" (hub.go:170-178),
   as far as clients subscribe once: the count is the number of connections
   other than the host's that hold the room, but for those not counted yet. *)
CountIsSubscribers ==
    viewers = Cardinality({c \in Conns :
                conn[c].acct # Host /\ Subscribed(c, Room) /\ conn[c].pc # "ack"})

(* "Any gap between what we've seen and the topic's current seq means there's
   history to replay" (webui.go:293-301): a client that has been acknowledged,
   has lost nothing to full buffers and has nothing more to come, shows every
   event of the room that the bus could still replay. *)
NothingMissed ==
    \A a \in Accounts :
        (Watching(a) /\ conn[app[a].cur].dropped = {} /\ OnTheWay(app[a].cur) = {}
            /\ conn[app[a].cur].pc = "read" /\ seq[Room] <= BackfillLimit)
        => 1..seq[Room] \subseteq app[a].shown

=============================================================================
