-------------------------------- MODULE People -------------------------------
(****************************************************************************)
(* Profiles, privacy settings and the social graph (profile/profilesvc over *)
(* profile/mem_repo.go and profile/social/social.go, and over the pgrepo of *)
(* each).  The in-memory profiles keep an index of lower-case handles; the  *)
(* table has a row for each account and is searched.  Free text fields of a *)
(* profile are all treated like the display name and are left out.          *)
(****************************************************************************)
EXTENDS Stores

NotGiven == ""                     \* a field a PATCH leaves out, a handle never set
DisplayNames == {"Ann", "Bea"}    \* bound: inputs; " " is too short a name
Handles == {"ann", "Ann", "bob"}  \* bound: inputs; "-" is no valid handle
Policies == {"everyone", "mutuals"}

Lower(h) == IF h = "Ann" THEN "ann" ELSE h

ValidateDisplayName(n) == n # " "
ValidateHandle(h) == h # "-"

NewProfile(a) == [id |-> a, name |-> a, handle |-> NotGiven]

Noone == [follows |-> {}, blocks |-> {}, profiles |-> <<>>, handles |-> <<>>, privacy |-> <<>>]
NoPeople == [follows |-> {}, blocks |-> {}, profiles |-> {}, privacy |-> {}]

-----------------------------------------------------------------------------
(* In memory *)

MemRelationship(m, a, b) ==
    LET contact == <<a, b>> \notin m.blocks /\ <<b, a>> \notin m.blocks
    IN  [following |-> <<a, b>> \in m.follows, followedBy |-> <<b, a>> \in m.follows,
         blocked |-> <<a, b>> \in m.blocks, blockedBy |-> <<b, a>> \in m.blocks,
         canContact |-> contact]

MemFollow(m, a, b) ==
    IF <<a, b>> \in m.blocks \/ <<b, a>> \in m.blocks
    THEN Says(m, <<"blocked">>)
    ELSE LET after == [m EXCEPT !.follows = @ \cup {<<a, b>>}]
         IN  Says(after, Given(MemRelationship(after, a, b)))

MemUnfollow(m, a, b) ==
    LET after == [m EXCEPT !.follows = @ \ {<<a, b>>}]
    IN  Says(after, Given(MemRelationship(after, a, b)))

MemBlock(m, a, b) ==
    LET after == [m EXCEPT !.blocks = @ \cup {<<a, b>>}]
    IN  IF a = b THEN Says(m, <<"self">>)
                 ELSE Says(after, Given(MemRelationship(after, a, b)))

MemUnblock(m, a, b) ==
    LET after == [m EXCEPT !.blocks = @ \ {<<a, b>>}]
    IN  Says(after, Given(MemRelationship(after, a, b)))

(* lists are read up to the first page, which here holds them all *)
MemGetFollowing(m, a) == {b \in AccountIds : <<a, b>> \in m.follows}

MemGetBlocked(m, a) == {b \in AccountIds : <<a, b>> \in m.blocks}

MemGetFollowers(m, a) == {b \in AccountIds : <<b, a>> \in m.follows}

MemCreate(m, a) ==
    IF a \in DOMAIN m.profiles
    THEN Says(m, Given(m.profiles[a]))
    ELSE Says([m EXCEPT !.profiles = (a :> NewProfile(a)) @@ @], Given(NewProfile(a)))

MemSetHandleKeepingOld(m, a, h) ==
    [m EXCEPT !.profiles[a].handle = h, !.handles = (Lower(h) :> a) @@ @]

MemSetHandle(m, a, h) ==
    LET old == Lower(m.profiles[a].handle)
        others == [x \in DOMAIN m.handles \ {old} |-> m.handles[x]]
    IN  [m EXCEPT !.profiles[a].handle = h, !.handles = (Lower(h) :> a) @@ others]

(* the fields are set one after another: a request refused for its handle has already
   changed the name *)
MemUpdate(m, a, name, h) ==
    LET named == IF name = NotGiven THEN m ELSE [m EXCEPT !.profiles[a].name = name]
        taken == Lower(h) \in DOMAIN m.handles /\ m.handles[Lower(h)] # a
    IN  CASE ~ValidateDisplayName(name) -> Says(m, <<"name">>)
          [] h = NotGiven -> Says(named, Given(named.profiles[a]))
          [] ~ValidateHandle(h) -> Says(named, <<"handle">>)
          [] taken -> Says(named, <<"taken">>)
          [] OTHER -> LET after == MemSetHandle(named, a, h)
                      IN  Says(after, Given(after.profiles[a]))

MemGetByHandle(m, h) ==
    IF Lower(h) \in DOMAIN m.handles THEN {m.profiles[m.handles[Lower(h)]]} ELSE {}

MemSearch(m, q) ==
    {a \in DOMAIN m.profiles : q \in {m.profiles[a].name, Lower(m.profiles[a].handle)}}

MemPrivacy(m, a) == IF a \in DOMAIN m.privacy THEN m.privacy[a] ELSE "default"

MemUpdatePrivacy(m, a, s) == Says([m EXCEPT !.privacy = (a :> s) @@ @], Given(s))

-----------------------------------------------------------------------------
(* In Postgres *)

ProfileRow(p, a) == {r \in p.profiles : r.id = a}

PgRelationship(p, a, b) ==
    [following |-> \E r \in p.follows : r = [follower |-> a, followee |-> b],
     followedBy |-> \E r \in p.follows : r = [follower |-> b, followee |-> a],
     blocked |-> \E r \in p.blocks : r = [blocker |-> a, blocked |-> b],
     blockedBy |-> \E r \in p.blocks : r = [blocker |-> b, blocked |-> a],
     canContact |-> ~\E r \in p.blocks : {r.blocker, r.blocked} = {a, b}]

IsBlockedEitherWay(p, a, b) ==
    \E r \in p.blocks : (r.blocker = a /\ r.blocked = b) \/ (r.blocker = b /\ r.blocked = a)

PgFollow(p, a, b) ==
    IF IsBlockedEitherWay(p, a, b)
    THEN Says(p, <<"blocked">>)
    ELSE LET after == [p EXCEPT !.follows = @ \cup {[follower |-> a, followee |-> b]}]
         IN  Says(after, Given(PgRelationship(after, a, b)))

PgUnfollow(p, a, b) ==
    LET after == [p EXCEPT !.follows = {r \in @ : ~(r.follower = a /\ r.followee = b)}]
    IN  Says(after, Given(PgRelationship(after, a, b)))

PgBlock(p, a, b) ==
    LET after == [p EXCEPT !.blocks = @ \cup {[blocker |-> a, blocked |-> b]}]
    IN  IF a = b THEN Says(p, <<"self">>)
                 ELSE Says(after, Given(PgRelationship(after, a, b)))

PgUnblock(p, a, b) ==
    LET after == [p EXCEPT !.blocks = {r \in @ : ~(r.blocker = a /\ r.blocked = b)}]
    IN  Says(after, Given(PgRelationship(after, a, b)))

(* the lists join the profiles: an account without one is left out *)
ListFollowed(p, a) ==
    {r.followee : r \in {f \in p.follows : f.follower = a /\ ProfileRow(p, f.followee) # {}}}

ListFollowers(p, a) ==
    {r.follower : r \in {f \in p.follows : f.followee = a /\ ProfileRow(p, f.follower) # {}}}

PgGetBlocked(p, a) ==
    {r.blocked : r \in {b \in p.blocks : b.blocker = a /\ ProfileRow(p, b.blocked) # {}}}

PgCreate(p, a) ==
    IF ProfileRow(p, a) # {}
    THEN Says(p, Given(CHOOSE r \in ProfileRow(p, a) : TRUE))
    ELSE Says([p EXCEPT !.profiles = @ \cup {NewProfile(a)}], Given(NewProfile(a)))

(* one transaction, after both fields were found valid *)
PgUpdate(p, a, name, h) ==
    LET old == CHOOSE r \in ProfileRow(p, a) : TRUE
        new == [old EXCEPT !.name = IF name = NotGiven THEN @ ELSE name,
                           !.handle = IF h = NotGiven THEN @ ELSE h]
        taken == \E r \in p.profiles : Lower(r.handle) = Lower(h) /\ r.id # a
    IN  CASE ~ValidateDisplayName(name) -> Says(p, <<"name">>)
          [] ~ValidateHandle(h) -> Says(p, <<"handle">>)
          [] h # NotGiven /\ taken -> Says(p, <<"taken">>)
          [] OTHER -> Says([p EXCEPT !.profiles = (@ \ {old}) \cup {new}], Given(new))

PgGetByHandle(p, h) == {r \in p.profiles : r.handle # NotGiven /\ Lower(r.handle) = Lower(h)}

PgSearch(p, q) == {r.id : r \in {x \in p.profiles : q \in {x.name, Lower(x.handle)}}}

PgPrivacy(p, a) ==
    LET rows == {r \in p.privacy : r.id = a}
    IN  IF rows = {} THEN "default" ELSE (CHOOSE r \in rows : TRUE).policy

(* a row of settings refers to a row of profiles *)
PgUpdatePrivacy(p, a, s) ==
    IF ProfileRow(p, a) = {}
    THEN Says(p, <<"no profile">>)
    ELSE Says([p EXCEPT !.privacy = {r \in @ : r.id # a} \cup {[id |-> a, policy |-> s]}],
              Given(s))

-----------------------------------------------------------------------------
(* The requests, in the order of their routes *)

(* GET /me and GET /users/{id} create the profile they show *)
AskProfile(a) == Ask("people", MemCreate(Mem, a), PgCreate(Pg, a))

AskUpdateProfile(a) ==
    LET m == MemCreate(Mem, a).rows
        p == PgCreate(Pg, a).rows
    IN  \E name \in DisplayNames \cup {NotGiven, " "}, h \in Handles \cup {NotGiven, "-"} :
            LET mem == MemUpdate(m, a, name, h)
            IN  AskKnowing("people", mem, PgUpdate(p, a, name, h),
                           If(Refused(mem) /\ mem.rows # m, "half an update is kept"))

AskFollow(a, b) == a # b /\ Ask("people", MemFollow(Mem, a, b), PgFollow(Pg, a, b))

AskUnfollow(a, b) == a # b /\ Ask("people", MemUnfollow(Mem, a, b), PgUnfollow(Pg, a, b))

AskBlock(a, b) == Ask("people", MemBlock(Mem, a, b), PgBlock(Pg, a, b))

AskUnblock(a, b) == Ask("people", MemUnblock(Mem, a, b), PgUnblock(Pg, a, b))

AskPrivacy(a) ==
    \E s \in Policies :
        LET p == PgUpdatePrivacy(Pg, a, s)
        IN  AskKnowing("people", MemUpdatePrivacy(Mem, a, s), p,
                       If(Refused(p), "settings need a profile"))

PeopleNext ==
    \E a \in AccountIds :
        \/ AskProfile(a) \/ AskUpdateProfile(a) \/ AskPrivacy(a)
        \/ \E b \in AccountIds :
            AskFollow(a, b) \/ AskUnfollow(a, b) \/ AskBlock(a, b) \/ AskUnblock(a, b)

(* what one account sees of another's profile *)
ShowProfile(rel, rows) ==
    IF rel.blocked \/ rel.blockedBy \/ rows = {} THEN <<"unavailable">> ELSE Given(<<rel, rows>>)

MemRow(a) == IF a \in DOMAIN Mem.profiles THEN {Mem.profiles[a]} ELSE {}

(* What the two hold reads the same: the profile each account sees of each other, by id and
   by handle, searches, lists (but for accounts without a profile), and settings. *)
PeopleReadAlike ==
    LET Listed(mem) == {b \in mem : ProfileRow(Pg, b) # {}}
    IN  /\ \A a, b \in AccountIds :
            ShowProfile(MemRelationship(Mem, a, b), MemRow(b))
                = ShowProfile(PgRelationship(Pg, a, b), ProfileRow(Pg, b))
        /\ \A h \in Handles : MemGetByHandle(Mem, h) = PgGetByHandle(Pg, h)
        /\ \A q \in DisplayNames \cup Handles : MemSearch(Mem, Lower(q)) = PgSearch(Pg, Lower(q))
        /\ \A a \in AccountIds :
            /\ Listed(MemGetFollowing(Mem, a)) = ListFollowed(Pg, a)
            /\ Listed(MemGetBlocked(Mem, a)) = PgGetBlocked(Pg, a)
            /\ Listed(MemGetFollowers(Mem, a)) = ListFollowers(Pg, a)
            /\ MemPrivacy(Mem, a) = PgPrivacy(Pg, a)
=============================================================================
