-------------------------------- MODULE Rooms --------------------------------
(****************************************************************************)
(* Rooms and who has unlocked them (feed/feedsvc over feed/repo.go and over *)
(* feed/pgrepo).  A room is known by when it was created: the two write its *)
(* number differently, and in memory there are fifteen made up rooms before *)
(* the first, which are left out.  The charge for a room is another         *)
(* service's, here made or refused as given (module Premium makes it), and  *)
(* the number of viewers is the gateway's.                                  *)
(****************************************************************************)
EXTENDS Stores, FiniteSetsExt, SequencesExt

Titles == {"songs", "talk"}     \* bound: inputs; " " is none
UnlockPrices == {0, 50}         \* bound: inputs
ViewerCounts == 0..2            \* bound: inputs
TabLimit == 1                      \* bound: cards on a page of the following tab
NoRoom == 3                     \* bound: a number no room has yet

NoRooms == [rooms |-> <<>>, seq |-> 0, unlocked |-> <<>>]
NoRoomRows == [rooms |-> {}, seq |-> 0, unlocks |-> {}]

NewRoom(n, a, title) ==
    [id |-> n, host |-> a, title |-> title, status |-> "live", viewers |-> 0, peak |-> 0,
     premium |-> FALSE, price |-> 0]

-----------------------------------------------------------------------------
(* In memory *)

MemRoom(m, n) == IF n \in DOMAIN m.rooms THEN {m.rooms[n]} ELSE {}

MemListLive(m) == {r \in Range(m.rooms) : r.status = "live"}

MemListByHosts(m, hosts) == {r \in Range(m.rooms) : r.status = "live" /\ r.host \in hosts}

MemCreateRoom(m, a, title) ==
    LET n == m.seq + 1
    IN  Says([m EXCEPT !.seq = n, !.rooms = (n :> NewRoom(n, a, title)) @@ @],
             Given(NewRoom(n, a, title)))

(* the gateway asks for the count to be stored and goes on, whatever is said *)
MemUpdateViewers(m, n, count) ==
    IF MemRoom(m, n) = {}
    THEN Says(m, <<"not found">>)
    ELSE Says([m EXCEPT !.rooms[n].viewers = count,
                        !.rooms[n].peak = IF count > @ THEN count ELSE @], Given("stored"))

MemEndRoom(m, a, n) ==
    CASE MemRoom(m, n) = {} -> Says(m, <<"not found">>)
      [] m.rooms[n].host # a -> Says(m, <<"not host">>)
      [] OTHER -> Says([m EXCEPT !.rooms[n].status = "ended"], Given("ended"))

MemSetPremium(m, a, n, premium, price) ==
    LET asked == IF premium THEN price ELSE 0
        after == [m EXCEPT !.rooms[n].premium = premium, !.rooms[n].price = asked]
    IN  CASE MemRoom(m, n) = {} -> Says(m, <<"not found">>)
          [] m.rooms[n].host # a -> Says(m, <<"not host">>)
          [] premium /\ price <= 0 -> Says(m, <<"price">>)
          [] OTHER -> Says(after, Given(after.rooms[n]))

MemHasUnlocked(m, n, a) == <<n, a>> \in DOMAIN m.unlocked

MemUnlock(m, a, n, charged) ==
    CASE MemRoom(m, n) = {} -> Says(m, <<"not found">>)
      [] ~m.rooms[n].premium \/ a = m.rooms[n].host -> Says(m, Given(m.rooms[n]))
      [] MemHasUnlocked(m, n, a) -> Says(m, Given(m.rooms[n]))
      [] ~charged -> Says(m, <<"not charged">>)
      [] OTHER -> Says([m EXCEPT !.unlocked = (<<n, a>> :> TRUE) @@ @], Given(m.rooms[n]))

-----------------------------------------------------------------------------
(* In Postgres *)

RoomRow(p, n) == {r \in p.rooms : r.id = n}

PgListLive(p) == {r \in p.rooms : r.status = "live"}

PgListByHosts(p, hosts) == {r \in p.rooms : r.status = "live" /\ r.host \in hosts}

PgCreateRoom(p, a, title) ==
    LET n == p.seq + 1
    IN  Says([p EXCEPT !.seq = n, !.rooms = @ \cup {NewRoom(n, a, title)}],
             Given(NewRoom(n, a, title)))

UpdateRoom(p, new) == [p EXCEPT !.rooms = (@ \ RoomRow(p, new.id)) \cup {new}]

(* Mutant of PgUpdateViewers: the peak is stored as the count is. *)
PgUpdateViewersPeakAsCount(p, n, count) ==
    IF RoomRow(p, n) = {}
    THEN Says(p, <<"not found">>)
    ELSE LET r == CHOOSE x \in RoomRow(p, n) : TRUE
         IN  Says(UpdateRoom(p, [r EXCEPT !.viewers = count, !.peak = count]), Given("stored"))

PgUpdateViewers(p, n, count) ==
    IF RoomRow(p, n) = {}
    THEN Says(p, <<"not found">>)
    ELSE LET r == CHOOSE x \in RoomRow(p, n) : TRUE
         IN  Says(UpdateRoom(p, [r EXCEPT !.viewers = count, !.peak = Max({@, count})]),
                  Given("stored"))

(* what the service does, it does with the room it has read *)
WhenHosted(p, a, n, done) ==
    CASE RoomRow(p, n) = {} -> Says(p, <<"not found">>)
      [] ~ \E r \in RoomRow(p, n) : r.host = a -> Says(p, <<"not host">>)
      [] OTHER -> done

PgEndRoom(p, a, n) ==
    LET r == CHOOSE x \in RoomRow(p, n) : TRUE
        ended == Says(UpdateRoom(p, [r EXCEPT !.status = "ended"]), Given("ended"))
    IN  WhenHosted(p, a, n, ended)

PgSetPremium(p, a, n, premium, price) ==
    LET r == CHOOSE x \in RoomRow(p, n) : TRUE
        priced == [r EXCEPT !.premium = premium, !.price = IF premium THEN price ELSE 0]
        set == IF premium /\ price <= 0
               THEN Says(p, <<"price">>)
               ELSE Says(UpdateRoom(p, priced), Given(priced))
    IN  WhenHosted(p, a, n, set)

PgHasUnlocked(p, n, a) == [room |-> n, account |-> a] \in p.unlocks

PgUnlock(p, a, n, charged) ==
    LET r == CHOOSE x \in RoomRow(p, n) : TRUE
        row == [room |-> n, account |-> a]
    IN  CASE RoomRow(p, n) = {} -> Says(p, <<"not found">>)
          [] ~r.premium \/ a = r.host -> Says(p, Given(r))
          [] PgHasUnlocked(p, n, a) -> Says(p, Given(r))
          [] ~charged -> Says(p, <<"not charged">>)
          [] OTHER -> Says([p EXCEPT !.unlocks = @ \cup {row}], Given(r))

-----------------------------------------------------------------------------
(* The requests, in the order of their routes *)

AskUnlock(a, n) ==
    \E charged \in BOOLEAN : Ask("rooms", MemUnlock(Mem, a, n, charged), PgUnlock(Pg, a, n, charged))

AskPremium(a, n) ==
    \E premium \in BOOLEAN, price \in UnlockPrices :
        Ask("rooms", MemSetPremium(Mem, a, n, premium, price), PgSetPremium(Pg, a, n, premium, price))

AskStream(a) ==
    \E title \in Titles \cup {" "} :
        IF title = " "
        THEN Ask("rooms", Says(Mem, <<"no title">>), Says(Pg, <<"no title">>))
        ELSE Ask("rooms", MemCreateRoom(Mem, a, title), PgCreateRoom(Pg, a, title))

AskStop(a, n) == Ask("rooms", MemEndRoom(Mem, a, n), PgEndRoom(Pg, a, n))

StoreViewerCount(n) ==
    \E count \in ViewerCounts :
        Ask("rooms", MemUpdateViewers(Mem, n, count), PgUpdateViewers(Pg, n, count))

RoomsNext ==
    \/ \E a \in AccountIds :
        \/ AskStream(a)
        \/ \E n \in 1..NoRoom : AskUnlock(a, n) \/ AskPremium(a, n) \/ AskStop(a, n)
    \/ \E n \in 1..NoRoom : StoreViewerCount(n)

(* IsRoomUnlockedForViewer *)
OpenTo(room, a, unlocked) == ~room.premium \/ a = room.host \/ unlocked

(* the following tab: the rooms of the hosts, the last started first *)
FollowingTab(rooms) ==
    LET sorted == SetToSortSeq(rooms, LAMBDA x, y : x.id > y.id)
    IN  SubSeq(sorted, 1, Min({TabLimit, Len(sorted)}))

SearchRooms(rooms, q) == {r.id : r \in {x \in rooms : x.title = q}}

(* What the two hold reads the same: each room and whether it is open to an account, the
   rooms that are live, the following tab and searches. *)
RoomsReadAlike ==
    /\ MemListLive(Mem) = PgListLive(Pg)
    /\ \A n \in 1..NoRoom :
        /\ MemRoom(Mem, n) = RoomRow(Pg, n)
        /\ \A a \in AccountIds, r \in RoomRow(Pg, n) :
            OpenTo(r, a, MemHasUnlocked(Mem, n, a)) = OpenTo(r, a, PgHasUnlocked(Pg, n, a))
    /\ \A hosts \in SUBSET AccountIds :
        FollowingTab(MemListByHosts(Mem, hosts)) = FollowingTab(PgListByHosts(Pg, hosts))
    /\ \A q \in Titles : SearchRooms(MemListLive(Mem), q) = SearchRooms(PgListLive(Pg), q)
=============================================================================
