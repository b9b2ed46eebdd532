------------------------------ MODULE Broadcast ------------------------------
(****************************************************************************)
(* Video of a room (useBroadcast in feed/cmd/api/webui.go): the host's page *)
(* keeps a peer connection for each viewer its events tell of, and offers   *)
(* its camera over it; offers and answers are relayed by the gateway        *)
(* (relayBroadcastSignal).  The page runs its effects when React renders,   *)
(* which may be several events and signals later.                           *)
(*                                                                          *)
(* told, overflow and tangled are auxiliary: the viewers of whom the last   *)
(* event told that they are there, whether an event came to a full list,    *)
(* and of whom a rejected offer took a newer connection away.               *)
(****************************************************************************)
EXTENDS Calls

CONSTANTS
    Audience,       \* the accounts that may watch
    EventsKept      \* how many viewer events a page keeps

VARIABLES
    roomPage,   \* the host's page
    watching,   \* watching[v]: the viewer's page
    relayed     \* signals on their way: <<kind, viewer>>

broadcastVars == <<roomPage, watching, relayed>>

BroadcastInit ==
    /\ roomPage = [camera |-> "off", shownCamera |-> "off", events |-> <<>>, read |-> 0,
                   known |-> {}, pc |-> [v \in Audience |-> "none"], closing |-> {},
                   signal |-> <<>>, told |-> {}, overflow |-> FALSE, tangled |-> {}]
    /\ watching = [v \in Audience |-> [in |-> FALSE, pc |-> FALSE, signal |-> "none"]]
    /\ relayed = {}

OnPage(p) == roomPage' = p

-----------------------------------------------------------------------------
(* Audience come and go; the host's page keeps the last events. *)

EventOf(v, joined) ==
    LET kept == IF Len(roomPage.events) < EventsKept THEN roomPage.events
                ELSE Tail(roomPage.events) IN
    [roomPage EXCEPT
        !.events = Append(kept, [who |-> v, joined |-> joined]),
        !.overflow = @ \/ Len(roomPage.events) = EventsKept,
        !.told = IF joined THEN @ \cup {v} ELSE @ \ {v}]

EnterRoom(v) ==
    /\ ~watching[v].in
    /\ Serve("broadcast")
    /\ watching' = [watching EXCEPT ![v].in = TRUE]
    /\ OnPage(EventOf(v, TRUE))
    /\ UNCHANGED <<call, relayed>>

LeaveRoom(v) ==
    /\ watching[v].in
    /\ watching' = [watching EXCEPT ![v] = [in |-> FALSE, pc |-> FALSE, signal |-> "none"]]
    /\ OnPage(EventOf(v, FALSE))
    /\ UNCHANGED <<callVars, relayed>>

-----------------------------------------------------------------------------
(* The camera *)

StartCamera ==
    /\ roomPage.shownCamera = "off" /\ roomPage.camera = "off"
    /\ Serve("broadcast")
    /\ OnPage([roomPage EXCEPT !.camera = "on"])
    /\ UNCHANGED <<call, watching, relayed>>

Making == {v \in Audience : roomPage.pc[v] = "making"}

StopCamera ==
    /\ roomPage.shownCamera = "on" /\ roomPage.camera = "on"
    /\ OnPage([roomPage EXCEPT !.camera = "off", !.pc = [v \in Audience |-> "none"],
                               !.closing = @ \cup Making])
    /\ UNCHANGED <<callVars, watching, relayed>>

-----------------------------------------------------------------------------
(* A render runs the effects: the events not read yet, one by one, and if the camera
   has come on the viewers known. *)

NewEvents == SubSeq(roomPage.events, roomPage.read + 1, Len(roomPage.events))

(* Mutant of News: only the latest event is looked at. *)
LatestOnly(v) ==
    LET e == NewEvents IN
    IF e # <<>> /\ e[Len(e)].who = v THEN <<e[Len(e)].joined>> ELSE <<>>

(* what the unread events say of a viewer, in order *)
News(v) ==
    LET mine == SelectSeq(NewEvents, LAMBDA e : e.who = v) IN
    [i \in DOMAIN mine |-> mine[i].joined]

LeftMeanwhile(v) == \E i \in DOMAIN News(v) : ~News(v)[i]

KnownNow == {v \in Audience : IF News(v) = <<>> THEN v \in roomPage.known
                             ELSE News(v)[Len(News(v))]}

(* a connection for each viewer that joined, or that is known when the camera comes on *)
OfferedNow(v) ==
    LET kept == IF LeftMeanwhile(v) THEN "none" ELSE roomPage.pc[v]
        asked == News(v) # <<>> \/ roomPage.shownCamera = "off" IN
    IF kept = "none" /\ roomPage.camera = "on" /\ v \in KnownNow /\ asked
    THEN "making" ELSE kept

(* a connection that is closed while its offer is made *)
ClosedWhileMaking(v) ==
    /\ LeftMeanwhile(v)
    /\ \/ roomPage.pc[v] = "making"
       \/ roomPage.camera = "on"
          /\ \E i, j \in DOMAIN News(v) : i < j /\ News(v)[i] /\ ~News(v)[j]

RenderRoom ==
    /\ NewEvents # <<>> \/ roomPage.camera # roomPage.shownCamera
    /\ OnPage([roomPage EXCEPT
            !.read = Len(roomPage.events), !.shownCamera = roomPage.camera,
            !.known = KnownNow, !.pc = [v \in Audience |-> OfferedNow(v)],
            !.closing = @ \cup {v \in Audience : ClosedWhileMaking(v)}])
    /\ UNCHANGED <<callVars, watching, relayed>>

-----------------------------------------------------------------------------
(* Offers and answers.  A page keeps one signal until it renders. *)

SendOffer(v) ==
    /\ roomPage.pc[v] = "making"
    /\ OnPage([roomPage EXCEPT !.pc[v] = "offered"])
    /\ relayed' = relayed \cup {<<"offer", v>>}
    /\ UNCHANGED <<callVars, watching>>

(* the browser may reject the offer of a connection closed meanwhile; a newer one it
   takes from the page still sends its own *)
OfferRejected(v) ==
    /\ v \in roomPage.closing
    /\ OnPage([roomPage EXCEPT !.pc[v] = "none", !.closing = @ \ {v},
            !.tangled = IF roomPage.pc[v] # "none" THEN @ \cup {v} ELSE @])
    /\ relayed' = IF v \in Making THEN relayed \cup {<<"offer", v>>} ELSE relayed
    /\ UNCHANGED <<callVars, watching>>

Relay(kind, v) ==
    /\ <<kind, v>> \in relayed
    /\ relayed' = relayed \ {<<kind, v>>}
    /\ \/ /\ kind = "offer"
          /\ watching' = [watching EXCEPT ![v].signal = IF watching[v].in THEN "offer" ELSE @]
          /\ UNCHANGED roomPage
       \/ /\ kind = "answer"
          /\ OnPage([roomPage EXCEPT !.signal = <<v>>])
          /\ UNCHANGED watching
    /\ UNCHANGED callVars

AnswerOffer(v) ==
    /\ watching[v].signal = "offer"
    /\ watching' = [watching EXCEPT ![v].signal = "none", ![v].pc = TRUE]
    /\ relayed' = relayed \cup {<<"answer", v>>}
    /\ UNCHANGED <<callVars, roomPage>>

TakeAnswer ==
    /\ roomPage.signal # <<>>
    /\ LET v == roomPage.signal[1] IN
       OnPage([roomPage EXCEPT !.signal = <<>>,
                               !.pc[v] = IF @ = "offered" THEN "answered" ELSE @])
    /\ UNCHANGED <<callVars, watching, relayed>>

BroadcastNext ==
    \/ StartCamera \/ StopCamera \/ RenderRoom \/ TakeAnswer
    \/ \E v \in Audience :
        \/ EnterRoom(v) \/ LeaveRoom(v)
        \/ SendOffer(v) \/ OfferRejected(v) \/ AnswerOffer(v)
        \/ \E kind \in {"offer", "answer"} : Relay(kind, v)

-----------------------------------------------------------------------------
(* Once the page has rendered what it has, a camera that is on is offered to every
   viewer the events told of - whoever came before it, in one burst with others, or
   left and came back - and to nobody who left; but for events that came to a full
   list, which are never read, and a viewer whose newer connection a rejected offer
   took away (useBroadcast: "a burst of joins/leaves can never skip anyone"). *)
ViewersAreOffered ==
    LET settled == roomPage.camera = roomPage.shownCamera /\ NewEvents = <<>>
        has == {v \in Audience : roomPage.pc[v] # "none"} IN
    settled /\ ~roomPage.overflow =>
        /\ has \subseteq roomPage.told
        /\ roomPage.camera = "on" => roomPage.told \subseteq has \cup roomPage.tangled
=============================================================================
