-------------------------------- MODULE Match --------------------------------
(****************************************************************************)
(* Matchmaking (match/matchsvc over its repository): requests that search,  *)
(* candidates offered to both sides, and the mutual-connect rule.           *)
(*                                                                          *)
(* Requests are numbered in the order they are stored.  Every account has   *)
(* opted in and is of age.  A run lies within the 24 hours exclusions and   *)
(* skips last and the window of the rate limit.                             *)
(****************************************************************************)
EXTENDS Social, Stores

CONSTANTS
    RateLimitMax,               \* requests an account may make
    RepeatOffenderThreshold     \* accounts that skip somebody before all do

VARIABLES
    requests,   \* match_requests: account, state, matched with
    cand,       \* match_candidates: the decision under <<request, account>>
    exclusions, \* match_exclusions: <<account, excluded>>
    said        \* history: <<a, b>>: a decided to connect with b

matchVars == <<requests, cand, exclusions, said>>

Nobody == "nobody"

MatchInit ==
    /\ requests = <<>>
    /\ cand = <<>>
    /\ exclusions = {}
    /\ said = {}

Of(a) == {r \in DOMAIN requests : requests[r].acct = a}
Searching(r) == requests[r].state = "searching"

-----------------------------------------------------------------------------
(* CreateRequest *)

CreateRequest(k, a) ==
    /\ Cardinality(Of(a)) < RateLimitMax
    /\ Begin("match", k, [op |-> "match", pc |-> "create", by |-> a])
    /\ UNCHANGED <<socialVars, matchVars>>

StoreRequest(k) ==
    /\ At(k, "match", "create")
    /\ requests' = Append(requests, [acct |-> call[k].by, state |-> "searching", with |-> Nobody])
    /\ GoOn(k, [op |-> "match", pc |-> "pick", by |-> call[k].by, req |-> Len(requests) + 1])
    /\ UNCHANGED <<socialVars, cand, exclusions, said>>

-----------------------------------------------------------------------------
(* tryMatch *)

Excluded(a, b) == <<a, b>> \in exclusions \/ <<b, a>> \in exclusions

(* SkipCount: how many accounts have skipped b *)
SkipCount(b) ==
    Cardinality({requests[x[1]].acct : x \in {y \in DOMAIN cand : y[2] = b /\ cand[y] = "skip"}})

Offender(b) == SkipCount(b) >= RepeatOffenderThreshold

(* The pool comes in no particular order: the search stops at some request that
   fits, having shut out the offenders it came across before.  What it asks about
   each request - exclusions, blocks, skips - it reads at one moment here. *)
TryMatch(k) ==
    /\ At(k, "match", "pick")
    /\ LET a == call[k].by
           open == {o \in DOMAIN requests :
                        /\ Searching(o) /\ requests[o].acct # a
                        /\ ~Excluded(a, requests[o].acct)
                        /\ ~IsBlocked({a, requests[o].acct})}
           fits == {o \in open : ~Offender(requests[o].acct)}
           bad == {<<a, requests[o].acct>> : o \in open \ fits} IN
       \/ /\ fits = {}
          /\ exclusions' = exclusions \cup bad
          /\ Answer(k)
       \/ \E o \in fits, seen \in SUBSET bad :
            /\ exclusions' = exclusions \cup seen
            /\ GoOn(k, Contact("match", "offer", {a, requests[o].acct},
                               [by |-> a, req |-> call[k].req, other |-> o]))
    /\ UNCHANGED <<socialVars, requests, cand, said>>

(* AddCandidate: a row there is becomes a fresh offer *)
Offered(c, r, b) == [x \in DOMAIN c \cup {<<r, b>>} |-> IF x = <<r, b>> THEN "" ELSE c[x]]

Offer(k) ==
    /\ At(k, "match", "offer")
    /\ cand' = Offered(cand, call[k].req, requests[call[k].other].acct)
    /\ Goto(k, "offer back")
    /\ UNCHANGED <<socialVars, requests, exclusions, said>>

OfferBack(k) ==
    /\ At(k, "match", "offer back")
    /\ cand' = Offered(cand, call[k].other, call[k].by)
    /\ Answer(k)
    /\ UNCHANGED <<socialVars, requests, exclusions, said>>

-----------------------------------------------------------------------------
(* Decide *)

Decide(k, r, b, decision) ==
    /\ Searching(r)
    /\ <<r, b>> \in DOMAIN cand /\ cand[<<r, b>>] = ""
    /\ Begin("match", k, [op |-> "match", pc |-> "decide", by |-> requests[r].acct,
                          req |-> r, about |-> b, say |-> decision])
    /\ UNCHANGED <<socialVars, matchVars>>

SetCandidateDecision(k) ==
    /\ At(k, "match", "decide")
    /\ LET c == call[k] IN
       /\ cand' = [cand EXCEPT ![<<c.req, c.about>>] = c.say]
       /\ said' = IF c.say = "connect" THEN said \cup {<<c.by, c.about>>} ELSE said
       /\ Goto(k, IF c.say = "connect" THEN "mirror" ELSE "exclude")
    /\ UNCHANGED <<socialVars, requests, exclusions>>

(* after a skip the search goes on, in the pool as it is now *)
ExcludeSkipped(k) ==
    /\ At(k, "match", "exclude")
    /\ exclusions' = exclusions \cup {<<call[k].by, call[k].about>>}
    /\ GoOn(k, [op |-> "match", pc |-> "pick", by |-> call[k].by, req |-> call[k].req])
    /\ UNCHANGED <<socialVars, requests, cand, said>>

(* Mutant of FindMirror: whether the other side said anything is not looked at. *)
FindAnyMirror(k) ==
    /\ At(k, "match", "mirror")
    /\ LET mirrors == {o \in Of(call[k].about) : <<o, call[k].by>> \in DOMAIN cand} IN
       \/ mirrors = {} /\ Answer(k)
       \/ \E o \in mirrors : GoOn(k, Joined([call[k] EXCEPT !.pc = "mine"], [other |-> o]))
    /\ UNCHANGED <<socialVars, matchVars>>

(* FindMirror gives one of the other account's offers, of whichever request *)
FindMirror(k) ==
    /\ At(k, "match", "mirror")
    /\ LET mirrors == {o \in Of(call[k].about) : <<o, call[k].by>> \in DOMAIN cand} IN
       \/ mirrors = {} /\ Answer(k)
       \/ \E o \in mirrors :
            IF cand[<<o, call[k].by>>] = "connect"
            THEN GoOn(k, Joined([call[k] EXCEPT !.pc = "mine"], [other |-> o]))
            ELSE Answer(k)
    /\ UNCHANGED <<socialVars, matchVars>>

Matched(r, b) == [requests EXCEPT ![r].state = "matched", ![r].with = b]

(* UpdateRequest writes the whole row back; all that can have changed since the
   request read it is overwritten *)
UpdateMine(k) ==
    /\ At(k, "match", "mine")
    /\ requests' = Matched(call[k].req, call[k].about)
    /\ Goto(k, "theirs")
    /\ UNCHANGED <<socialVars, cand, exclusions, said>>

UpdateTheirs(k) ==
    /\ At(k, "match", "theirs")
    /\ requests' = Matched(call[k].other, call[k].by)
    /\ Answer(k)
    /\ UNCHANGED <<socialVars, cand, exclusions, said>>

-----------------------------------------------------------------------------
(* CancelRequest reads the request, and writes it back cancelled *)

CancelRequest(k, r) ==
    /\ Searching(r)
    /\ Begin("match", k, [op |-> "match", pc |-> "cancel", req |-> r])
    /\ UNCHANGED <<socialVars, matchVars>>

StoreCancelled(k) ==
    /\ At(k, "match", "cancel")
    /\ requests' = [requests EXCEPT ![call[k].req].state = "cancelled",
                                    ![call[k].req].with = Nobody]
    /\ Answer(k)
    /\ UNCHANGED <<socialVars, cand, exclusions, said>>

MatchNext ==
    \/ \E k \in Slots, a \in AccountIds : CreateRequest(k, a)
    \/ \E k \in Slots, x \in DOMAIN cand, d \in {"connect", "skip"} : Decide(k, x[1], x[2], d)
    \/ \E k \in Slots, r \in DOMAIN requests : CancelRequest(k, r)
    \/ \E k \in Slots :
        \/ StoreRequest(k) \/ TryMatch(k) \/ Offer(k) \/ OfferBack(k)
        \/ SetCandidateDecision(k) \/ ExcludeSkipped(k) \/ FindMirror(k)
        \/ UpdateMine(k) \/ UpdateTheirs(k) \/ StoreCancelled(k)

-----------------------------------------------------------------------------
(* A request is matched with somebody only if both have decided to connect with
   each other (matchsvc Decide: "only once BOTH sides have independently decided"). *)
MatchedIsMutual ==
    \A r \in DOMAIN requests :
        requests[r].with # Nobody =>
            /\ <<requests[r].acct, requests[r].with>> \in said
            /\ <<requests[r].with, requests[r].acct>> \in said

(* a request on r that is still at work *)
AtWorkOn(r) == \E k \in Slots :
    /\ call[k].op = "match"
    /\ call[k].pc \in {"mirror", "mine", "theirs"}
    /\ r \in {call[k].req} \cup (IF "other" \in DOMAIN call[k] THEN {call[k].other} ELSE {})

(* And nobody is left waiting: when two accounts, each with one request, have both
   connected, and no decision is under way or was cut short, neither request
   searches on, though each decision looks for the other one's only after its own
   is stored, and requests may be cancelled or offers renewed in between. *)
MutualIsResolved ==
    \A r, o \in DOMAIN requests :
        LET a == requests[r].acct
            b == requests[o].acct IN
        /\ failed = 0 /\ a # b /\ Of(a) = {r} /\ Of(b) = {o}
        /\ {<<r, b>>, <<o, a>>} \subseteq DOMAIN cand
        /\ cand[<<r, b>>] = "connect" /\ cand[<<o, a>>] = "connect"
        /\ ~AtWorkOn(r) /\ ~AtWorkOn(o)
        => ~Searching(r) /\ ~Searching(o)

MatchedIffMutual == MatchedIsMutual /\ MutualIsResolved

-----------------------------------------------------------------------------
(****************************************************************************)
(* Match requests, candidates and exclusions (match/matchsvc over           *)
(* match/mem_repo.go and over match/pgrepo).  Searching requests and        *)
(* mirrors come in any order from both, so the one the service takes is     *)
(* given to both.  Time is the number of requests so far; rate limits,      *)
(* skips and exclusions last for a window of it.                            *)
(****************************************************************************)

Likes == {"any", "near"}        \* bound: preferences; "any" is the empty one

(* Requests come at even instants and windows end at odd ones: no two times that are
   compared are equal, as no two instants are. *)
Now == 2 * served
Spell == 3                     \* bound: how long rate limits and exclusions last

NoSearch == [requests |-> <<>>, candidates |-> <<>>, exclusions |-> <<>>, prefs |-> <<>>]
NoMatches == [requests |-> {}, candidates |-> {}, exclusions |-> {}, prefs |-> {}]

-----------------------------------------------------------------------------
(* In memory *)

MemPreferences(m, a) == IF a \in DOMAIN m.prefs THEN m.prefs[a] ELSE "any"

MemSetPreferences(m, a, like) == Says([m EXCEPT !.prefs = (a :> like) @@ @], Given(like))

MemCreateRequest(m, a) ==
    LET r == [acct |-> a, state |-> "searching", with |-> "", at |-> Now]
    IN  Says([m EXCEPT !.requests = Append(@, r)], Given(r))

MemSearching(m, a) ==
    {r \in DOMAIN m.requests : m.requests[r].state = "searching" /\ m.requests[r].acct # a}

MemHistory(m, a) ==
    {<<r, m.requests[r]>> : r \in {x \in DOMAIN m.requests : m.requests[x].acct = a}}

MemRecentRequestCount(m, a) ==
    Cardinality({r \in DOMAIN m.requests : m.requests[r].acct = a /\ m.requests[r].at + Spell > Now})

MemAddCandidate(m, r, b) ==
    [m EXCEPT !.candidates = (<<r, b>> :> [at |-> Now, decision |-> ""]) @@ @]

(* the candidate offered last of those not decided on *)
MemPendingCandidate(m, r) ==
    LET open == {x \in DOMAIN m.candidates : x[1] = r /\ m.candidates[x].decision = ""}
    IN  {x[2] : x \in {y \in open : \A z \in open : m.candidates[z].at <= m.candidates[y].at}}

MemMirrors(m, r, b) ==
    {q \in DOMAIN m.requests :
        m.requests[q].acct = b /\ <<q, m.requests[r].acct>> \in DOMAIN m.candidates}

MemIsExcluded(m, a, b) ==
    LET Check(x) == x \in DOMAIN m.exclusions /\ ~(Now > m.exclusions[x])
    IN  Check(<<a, b>>) \/ Check(<<b, a>>)

MemSkipCount(m, b) ==
    Cardinality({m.requests[x[1]].acct : x \in {y \in DOMAIN m.candidates :
        y[2] = b /\ m.candidates[y].decision = "skip" /\ ~(m.candidates[y].at < Now - Spell)}})

MemResolve(m, r, b) == [m EXCEPT !.requests[r].state = "matched", !.requests[r].with = b]

MemDecide(m, r, b, decision, q) ==
    LET a == m.requests[r].acct
        c == <<r, b>>
        set == [m EXCEPT !.candidates[c].decision = decision]
        mutual == q # 0 /\ set.candidates[<<q, a>>].decision = "connect"
    IN  CASE m.requests[r].state # "searching" -> Says(m, <<"not searching">>)
          [] c \notin DOMAIN m.candidates -> Says(m, <<"no candidate">>)
          [] m.candidates[c].decision # "" -> Says(m, <<"no candidate">>)
          [] decision = "skip" ->
                Says([set EXCEPT !.exclusions = (<<a, b>> :> Now + Spell) @@ @], Given("searching"))
          [] mutual -> Says(MemResolve(MemResolve(set, r, b), q, a), Given("matched"))
          [] OTHER -> Says(set, Given("searching"))

MemCancelRequest(m, r) ==
    IF m.requests[r].state # "searching" THEN Says(m, <<"not searching">>)
    ELSE Says([m EXCEPT !.requests[r].state = "cancelled"], Given("cancelled"))

-----------------------------------------------------------------------------
(* In Postgres *)

RequestRow(t, r) == CHOOSE x \in t.requests : x.id = r

PgPreferences(t, a) ==
    LET rows == {x \in t.prefs : x.acct = a}
    IN  IF rows = {} THEN "any" ELSE (CHOOSE x \in rows : TRUE).like

PgSetPreferences(t, a, like) ==
    Says([t EXCEPT !.prefs = {x \in @ : x.acct # a} \cup {[acct |-> a, like |-> like]}], Given(like))

PgCreateRequest(t, a) ==
    LET r == [acct |-> a, state |-> "searching", with |-> "", at |-> Now]
    IN  Says([t EXCEPT !.requests = @ \cup {[id |-> Cardinality(@) + 1, row |-> r]}], Given(r))

PgSearching(t, a) == {x.id : x \in {y \in t.requests : y.row.state = "searching" /\ y.row.acct # a}}

PgHistory(t, a) == {<<x.id, x.row>> : x \in {y \in t.requests : y.row.acct = a}}

PgRecentRequestCount(t, a) ==
    Cardinality({x \in t.requests : x.row.acct = a /\ x.row.at > Now - Spell})

PgAddCandidate(t, r, b) ==
    [t EXCEPT !.candidates = {c \in @ : ~(c.request = r /\ c.acct = b)} \cup
                             {[request |-> r, acct |-> b, at |-> Now, decision |-> ""]}]

PgPendingCandidate(t, r) ==
    LET open == {c \in t.candidates : c.request = r /\ c.decision = ""}
    IN  {c.acct : c \in {d \in open : \A e \in open : d.at >= e.at}}

PgMirrors(t, r, b) ==
    {c.request : c \in {d \in t.candidates :
        RequestRow(t, d.request).row.acct = b /\ d.acct = RequestRow(t, r).row.acct}}

PgIsExcluded(t, a, b) ==
    \E x \in t.exclusions : {x.acct, x.excluded} = {a, b} /\ x.expires > Now

PgSkipCount(t, b) ==
    Cardinality({RequestRow(t, c.request).row.acct : c \in {d \in t.candidates :
        d.acct = b /\ d.decision = "skip" /\ d.at >= Now - Spell}})

PgUpdateRequest(t, r, state, b) ==
    LET x == RequestRow(t, r)
    IN  [t EXCEPT !.requests = (@ \ {x}) \cup {[x EXCEPT !.row.state = state, !.row.with = b]}]

PgSetCandidateDecision(t, c, decision) ==
    [t EXCEPT !.candidates = (@ \ {c}) \cup {[c EXCEPT !.decision = decision]}]

PgAddExclusion(t, a, b) ==
    [t EXCEPT !.exclusions = {x \in @ : ~(x.acct = a /\ x.excluded = b)} \cup
                             {[acct |-> a, excluded |-> b, expires |-> Now + Spell]}]

PgDecide(t, r, b, decision, q) ==
    LET a == RequestRow(t, r).row.acct
        open == {c \in t.candidates : c.request = r /\ c.acct = b /\ c.decision = ""}
        set == PgSetCandidateDecision(t, CHOOSE c \in open : TRUE, decision)
        mutual == \E c \in t.candidates : c.request = q /\ c.acct = a /\ c.decision = "connect"
    IN  CASE RequestRow(t, r).row.state # "searching" -> Says(t, <<"not searching">>)
          [] open = {} -> Says(t, <<"no candidate">>)
          [] decision = "skip" -> Says(PgAddExclusion(set, a, b), Given("searching"))
          [] mutual -> Says(PgUpdateRequest(PgUpdateRequest(set, r, "matched", b), q, "matched", a),
                            Given("matched"))
          [] OTHER -> Says(set, Given("searching"))

PgCancelRequest(t, r) ==
    IF RequestRow(t, r).row.state # "searching" THEN Says(t, <<"not searching">>)
    ELSE Says(PgUpdateRequest(t, r, "cancelled", ""), Given("cancelled"))

-----------------------------------------------------------------------------
(* The requests *)

AskPreferences(a) ==
    \E like \in Likes : Ask("pairing", MemSetPreferences(Mem, a, like), PgSetPreferences(Pg, a, like))

(* the preferences a request is made with are stored with it and never looked at *)
AskMatch(a) == Ask("pairing", MemCreateRequest(Mem, a), PgCreateRequest(Pg, a))

(* tryMatch offers each side the other, here as a step of its own *)
AskOffer(r) ==
    \E q \in MemSearching(Mem, Mem.requests[r].acct) :
        LET a == Mem.requests[r].acct
            b == Mem.requests[q].acct
        IN  /\ Mem.requests[r].state = "searching" /\ ~MemIsExcluded(Mem, a, b)
            /\ Ask("pairing",
                   Says(MemAddCandidate(MemAddCandidate(Mem, r, b), q, a), Given("offered")),
                   Says(PgAddCandidate(PgAddCandidate(Pg, r, b), q, a), Given("offered")))

AskDecide(r, b) ==
    \E decision \in {"connect", "skip"} :
    \E q \in IF MemMirrors(Mem, r, b) = {} THEN {0} ELSE MemMirrors(Mem, r, b) :
        Ask("pairing", MemDecide(Mem, r, b, decision, q), PgDecide(Pg, r, b, decision, q))

AskCancel(r) == Ask("pairing", MemCancelRequest(Mem, r), PgCancelRequest(Pg, r))

PairingNext ==
    \/ \E a \in AccountIds : AskPreferences(a) \/ AskMatch(a)
    \/ \E r \in DOMAIN Mem.requests :
        \/ AskOffer(r) \/ AskCancel(r)
        \/ \E b \in AccountIds \ {Mem.requests[r].acct} : AskDecide(r, b)

(* what the service looks up, for every account, request and pair *)
PairingReadsAlike ==
    /\ \A a \in AccountIds :
        /\ MemHistory(Mem, a) = PgHistory(Pg, a)
        /\ MemSearching(Mem, a) = PgSearching(Pg, a)
        /\ MemRecentRequestCount(Mem, a) = PgRecentRequestCount(Pg, a)
        /\ MemSkipCount(Mem, a) = PgSkipCount(Pg, a)
        /\ MemPreferences(Mem, a) = PgPreferences(Pg, a)
        /\ \A b \in AccountIds : MemIsExcluded(Mem, a, b) = PgIsExcluded(Pg, a, b)
    /\ \A r \in DOMAIN Mem.requests :
        /\ MemPendingCandidate(Mem, r) = PgPendingCandidate(Pg, r)
        /\ \A b \in AccountIds \ {Mem.requests[r].acct} :
            MemMirrors(Mem, r, b) = PgMirrors(Pg, r, b)
=============================================================================
