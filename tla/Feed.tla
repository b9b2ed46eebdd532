-------------------------------- MODULE Feed --------------------------------
(****************************************************************************)
(* GET /feed and the web client that pages through it (feed/feedsvc         *)
(* GetFeed, feed/cmd/api/webui.go fetchFeed).  The first page ranks the     *)
(* rooms that are live; the cursor it comes with holds that ranking, so     *)
(* that rooms do not move between pages.  The rooms of a page are fetched   *)
(* one after another, and a room may end before or between them.            *)
(*                                                                          *)
(* One client is followed: its list, the cursor of its next page, and the   *)
(* answers it waits for, which come in any order.  view.ranked and          *)
(* view.tangled are auxiliary: the ranking of the first page it shows, and  *)
(* whether something else was appended to that since.                       *)
(****************************************************************************)
EXTENDS Calls, Functions

CONSTANTS
    LastRoom,   \* bound: the rooms of a run
    Tabs,       \* the ranked ones
    PageSize    \* 12 in the web client

VARIABLES
    onAir,      \* feed_rooms.status; "none" before there is such a row
    view

feedVars == <<onAir, view>>

RoomIds == 1..LastRoom

(* the tab of followed hosts, always empty: buildUserContext leaves FollowedHostIDs nil *)
Following == "following"
NoTab == "none"
NoCursor == <<>>

FeedInit ==
    /\ \E n \in IF Serving({"feed"}) THEN 0..LastRoom ELSE {0} :
            onAir = [r \in RoomIds |-> IF r <= n THEN "live" ELSE "none"]
    /\ view = [tab |-> NoTab, items |-> <<>>, cursor |-> NoCursor, loading |-> FALSE,
               ranked |-> <<>>, tangled |-> FALSE]

-----------------------------------------------------------------------------
(* POST /rooms, and its end; ids come from a sequence *)
CreateRoom(r) ==
    /\ onAir[r] = "none" /\ \A s \in 1..(r - 1) : onAir[s] # "none"
    /\ Serve("feed")
    /\ onAir' = [onAir EXCEPT ![r] = "live"]
    /\ UNCHANGED <<call, view>>

EndRoom(r) ==
    /\ onAir[r] = "live"
    /\ Serve("feed")
    /\ onAir' = [onAir EXCEPT ![r] = "ended"]
    /\ UNCHANGED <<call, view>>

-----------------------------------------------------------------------------
(* fetchFeed, up to the answer *)
FetchFeed(k, tab, cursor) ==
    Begin("feed", k, [op |-> "feed", pc |-> "rank", tab |-> tab, cursor |-> cursor])

(* The tab that is open already is emptied, and not fetched again: the effect that
   fetches runs when the tab has changed. *)
ChangeTab(k, tab) ==
    /\ view' = [view EXCEPT !.tab = tab, !.items = <<>>, !.cursor = NoCursor,
                            !.ranked = <<>>, !.tangled = FALSE,
                            !.loading = @ \/ tab # view.tab]
    /\ IF tab = view.tab THEN UNCHANGED callVars ELSE FetchFeed(k, tab, NoCursor)
    /\ UNCHANGED onAir

(* Retry, and having gone live *)
Reload(k) ==
    /\ view.tab # NoTab
    /\ FetchFeed(k, view.tab, NoCursor)
    /\ view' = [view EXCEPT !.loading = TRUE]
    /\ UNCHANGED onAir

LoadMore(k) ==
    /\ view.items # <<>> /\ view.cursor # NoCursor /\ ~view.loading
    /\ FetchFeed(k, view.tab, view.cursor)
    /\ view' = [view EXCEPT !.loading = TRUE]
    /\ UNCHANGED onAir

-----------------------------------------------------------------------------
(* RuleBasedEngine.Rank: scores that differ by less than 0.001 are ordered by viewers,
   which is no order of the rooms, so any may come out. *)
Rankings ==
    LET live == {r \in RoomIds : onAir[r] = "live"}
    IN  Bijection(1..Cardinality(live), live)

(* DecodeCursor and ListLive: a cursor is of no use on another tab, or after five
   minutes, and on the tab of followed hosts it never is. *)
Paging(k, ids, offset, restarted) ==
    GoOn(k, Joined([call[k] EXCEPT !.pc = "cards"],
                   [ids |-> ids, from |-> offset, next |-> offset + 1, items |-> <<>>,
                    restarted |-> restarted]))

FollowSnapshot(k) ==
    /\ At(k, "feed", "rank")
    /\ call[k].cursor # NoCursor /\ call[k].cursor.tab = call[k].tab
    /\ Paging(k, call[k].cursor.ids, call[k].cursor.offset, FALSE)
    /\ UNCHANGED feedVars

RankAfresh(k) ==
    /\ At(k, "feed", "rank")
    /\ \E ids \in IF call[k].tab = Following THEN {<<>>} ELSE Rankings :
            Paging(k, ids, 0, call[k].cursor # NoCursor)
    /\ UNCHANGED feedVars

PageEnd(c) == IF c.from + PageSize < Len(c.ids) THEN c.from + PageSize ELSE Len(c.ids)

(* Mutant of GetRoomCard: the page ends at a room that has ended. *)
GetRoomCardOrStop(k) ==
    /\ At(k, "feed", "cards")
    /\ call[k].next <= PageEnd(call[k])
    /\ LET r == call[k].ids[call[k].next] IN
       IF onAir[r] = "live"
       THEN GoOn(k, [call[k] EXCEPT !.next = @ + 1, !.items = Append(@, r)])
       ELSE GoOn(k, [call[k] EXCEPT !.next = PageEnd(call[k]) + 1])
    /\ UNCHANGED feedVars

(* A room that has ended is left out, and so is one that cannot be read. *)
GetRoomCard(k) ==
    /\ At(k, "feed", "cards")
    /\ call[k].next <= PageEnd(call[k])
    /\ LET r == call[k].ids[call[k].next]
           skipped == [call[k] EXCEPT !.next = @ + 1] IN
       \/ onAir[r] = "live" /\ GoOn(k, [skipped EXCEPT !.items = Append(@, r)])
       \/ onAir[r] # "live" /\ GoOn(k, skipped)
       \/ Fail /\ call' = [call EXCEPT ![k] = skipped]
    /\ UNCHANGED feedVars

NextCursor(c) ==
    IF PageEnd(c) < Len(c.ids)
    THEN [ids |-> c.ids, offset |-> PageEnd(c), tab |-> c.tab] ELSE NoCursor

-----------------------------------------------------------------------------
(* fetchFeed, from the answer on: a page asked for with a cursor is appended, any other
   replaces the list, whatever the client has open by then *)
Show(k) ==
    LET c == call[k] IN
    /\ At(k, "feed", "cards")
    /\ c.next > PageEnd(c)
    /\ view' =
        IF c.cursor = NoCursor
        THEN [view EXCEPT !.items = c.items, !.cursor = NextCursor(c), !.loading = FALSE,
                          !.ranked = c.ids, !.tangled = FALSE]
        ELSE [view EXCEPT !.items = @ \o c.items, !.cursor = NextCursor(c),
                          !.loading = FALSE,
                          !.tangled = @ \/ c.restarted \/ c.cursor # view.cursor]
    /\ Answer(k)
    /\ UNCHANGED onAir

(* the catch of fetchFeed: when the request in slot k ends early *)
ViewAfter(k) ==
    IF call[k].op = "feed" THEN [view EXCEPT !.loading = FALSE] ELSE view

FeedNext ==
    \/ \E r \in RoomIds : CreateRoom(r) \/ EndRoom(r)
    \/ \E k \in Slots, tab \in Tabs \cup {Following} : ChangeTab(k, tab)
    \/ \E k \in Slots :
        \/ Reload(k) \/ LoadMore(k)
        \/ FollowSnapshot(k) \/ RankAfresh(k) \/ GetRoomCard(k) \/ Show(k)

-----------------------------------------------------------------------------
(* Pages that follow one another make up one ranking: the rooms of the list are in the
   order of that ranking, none twice, and one that is still on air is in it unless its
   page is yet to come.  Exempted: a list to which a page was appended that it was not
   asked for by, or that restarted because the cursor had expired or was another
   tab's; and a room that could not be read (feed/engine.go: "this snapshot makes
   pagination stable even as live viewer counts change"). *)
PagesMakeOneRanking ==
    ~view.tangled =>
        /\ \A i, j \in DOMAIN view.items : i < j =>
            \E x, y \in DOMAIN view.ranked :
                x < y /\ view.ranked[x] = view.items[i] /\ view.ranked[y] = view.items[j]
        /\ failed = 0 => \A x \in DOMAIN view.ranked :
            \/ onAir[view.ranked[x]] # "live"
            \/ view.ranked[x] \in Range(view.items)
            \/ view.cursor # NoCursor /\ x > view.cursor.offset
=============================================================================
