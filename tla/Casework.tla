------------------------------- MODULE Casework ------------------------------
(****************************************************************************)
(* Reports, enforcements, appeals, risk profiles and moderators             *)
(* (moderation/modsvc over moderation/mem_repo.go and moderation/pgrepo).   *)
(* In memory there are indexes: the last report of a pair, the enforcements *)
(* of an account, the appeal of an enforcement; the tables are searched.    *)
(* What an enforcement does to the account is Moderation's; how risk is     *)
(* scored is Risk's, here a profile is only raised from one status to the   *)
(* next.                                                                    *)
(****************************************************************************)
EXTENDS Stores, SequencesExt, FiniteSetsExt

Subjects == {"room"}                  \* bound: what is reported
CaseActions == {"warn", "restrict"}   \* bound: one that cannot be appealed, one that can

(* as in Match, no two instants that are compared are equal *)
CaseTime == 2 * served
ReportWindow == 3                     \* bound: ReportRateLimitWindow, a day

Raised(status) == IF status = "none" THEN "watch" ELSE "manual_review"

NoCases == [reports |-> <<>>, lastReportAt |-> <<>>, enforcements |-> <<>>, byAcct |-> <<>>,
            appeals |-> <<>>, byEnforcement |-> <<>>, risk |-> <<>>, moderators |-> <<>>]
NoCaseRows == [reports |-> {}, enforcements |-> {}, appeals |-> {}, risk |-> {}, moderators |-> {}]

-----------------------------------------------------------------------------
(* In memory *)

MemIsModerator(m, a) == a \in DOMAIN m.moderators /\ m.moderators[a]

MemGrant(m, a) == Says([m EXCEPT !.moderators = (a :> TRUE) @@ @], Given("granted"))

MemRecentlyReported(m, a, s) ==
    <<a, s>> \in DOMAIN m.lastReportAt /\ CaseTime - m.lastReportAt[<<a, s>>] < ReportWindow

MemSubmitReport(m, a, s) ==
    LET r == [by |-> a, subject |-> s, state |-> "open", at |-> CaseTime]
    IN  IF MemRecentlyReported(m, a, s) THEN Says(m, <<"rate limited">>)
        ELSE Says([m EXCEPT !.reports = Append(@, r),
                            !.lastReportAt = (<<a, s>> :> CaseTime) @@ @],
                  Given(<<Len(m.reports) + 1, r>>))

MemTriageReport(m, mod, r, state) ==
    CASE ~MemIsModerator(m, mod) -> Says(m, <<"not a moderator">>)
      [] r \notin DOMAIN m.reports -> Says(m, <<"no report">>)
      [] OTHER -> Says([m EXCEPT !.reports[r].state = state],
                       Given([m.reports[r] EXCEPT !.state = state]))

MemListReports(m, filter) ==
    Reverse(SelectSeq(m.reports, LAMBDA r : filter \in {"", r.state}))

MemCreateEnforcement(m, mod, a, action) ==
    LET e == [acct |-> a, action |-> action, by |-> mod]
        id == Len(m.enforcements) + 1
        of == IF a \in DOMAIN m.byAcct THEN m.byAcct[a] ELSE <<>>
    IN  IF ~MemIsModerator(m, mod) THEN Says(m, <<"not a moderator">>)
        ELSE Says([m EXCEPT !.enforcements = Append(@, e),
                            !.byAcct = (a :> Append(of, id)) @@ @],
                  Given(<<id, e>>))

MemListByAccount(m, a) ==
    IF a \notin DOMAIN m.byAcct THEN <<>>
    ELSE Reverse([i \in DOMAIN m.byAcct[a] |-> <<m.byAcct[a][i], m.enforcements[m.byAcct[a][i]]>>])

MemHasPending(m, e) ==
    e \in DOMAIN m.byEnforcement /\ m.appeals[m.byEnforcement[e]].state = "pending"

MemFileAppeal(m, a, e) ==
    LET x == [enf |-> e, acct |-> a, state |-> "pending", by |-> ""]
        id == Len(m.appeals) + 1
    IN  CASE e \notin DOMAIN m.enforcements -> Says(m, <<"no enforcement">>)
          [] m.enforcements[e].acct # a -> Says(m, <<"not yours">>)
          [] m.enforcements[e].action = "warn" -> Says(m, <<"not appealable">>)
          [] MemHasPending(m, e) -> Says(m, <<"already appealed">>)
          [] OTHER -> Says([m EXCEPT !.appeals = Append(@, x),
                                     !.byEnforcement = (e :> id) @@ @],
                           Given(<<id, x>>))

MemDecideAppeal(m, mod, i, state) ==
    LET decided == [m.appeals[i] EXCEPT !.state = state, !.by = mod]
    IN  CASE ~MemIsModerator(m, mod) -> Says(m, <<"not a moderator">>)
          [] i \notin DOMAIN m.appeals -> Says(m, <<"no appeal">>)
          [] m.appeals[i].state # "pending" -> Says(m, <<"already decided">>)
          [] OTHER -> Says([m EXCEPT !.appeals[i] = decided], Given(decided))

MemListAppeals(m, filter) ==
    Reverse(SelectSeq(m.appeals, LAMBDA x : filter \in {"", x.state}))

MemRiskProfile(m, a) == IF a \in DOMAIN m.risk THEN m.risk[a] ELSE "none"

MemUpsertRisk(m, a, status) == Says([m EXCEPT !.risk = (a :> status) @@ @], Given("kept"))

MemListFlagged(m) == {<<a, m.risk[a]>> : a \in {x \in DOMAIN m.risk : m.risk[x] # "none"}}

-----------------------------------------------------------------------------
(* In Postgres *)

PgIsModerator(p, a) == \E row \in p.moderators : row.acct = a

PgGrant(p, a) == Says([p EXCEPT !.moderators = @ \cup {[acct |-> a]}], Given("granted"))

PgRecentlyReported(p, a, s) ==
    \E r \in p.reports :
        r.row.by = a /\ r.row.subject = s /\ r.row.at > CaseTime - ReportWindow

(* ids come from a sequence for each table; every number taken is used *)
NextId(rows) == Cardinality(rows) + 1

PgSubmitReport(p, a, s) ==
    LET r == [id |-> NextId(p.reports),
              row |-> [by |-> a, subject |-> s, state |-> "open", at |-> CaseTime]]
    IN  IF PgRecentlyReported(p, a, s) THEN Says(p, <<"rate limited">>)
        ELSE Says([p EXCEPT !.reports = @ \cup {r}], Given(<<r.id, r.row>>))

PgTriageReport(p, mod, r, state) ==
    LET found == {x \in p.reports : x.id = r}
        new == {[x EXCEPT !.row.state = state] : x \in found}
    IN  CASE ~PgIsModerator(p, mod) -> Says(p, <<"not a moderator">>)
          [] found = {} -> Says(p, <<"no report">>)
          [] OTHER -> Says([p EXCEPT !.reports = (@ \ found) \cup new],
                           Given((CHOOSE x \in new : TRUE).row))

(* ORDER BY created_at DESC: the rows are made one after another *)
NewestFirst(rows) == SetToSortSeq(rows, LAMBDA x, y : x.id > y.id)

RowsOf(s) == [i \in DOMAIN s |-> s[i].row]

PgListReports(p, filter) ==
    RowsOf(NewestFirst({r \in p.reports : filter = "" \/ r.row.state = filter}))

PgCreateEnforcement(p, mod, a, action) ==
    LET e == [id |-> NextId(p.enforcements), row |-> [acct |-> a, action |-> action, by |-> mod]]
    IN  IF ~PgIsModerator(p, mod) THEN Says(p, <<"not a moderator">>)
        ELSE Says([p EXCEPT !.enforcements = @ \cup {e}], Given(<<e.id, e.row>>))

PgListByAccount(p, a) ==
    LET rows == NewestFirst({e \in p.enforcements : e.row.acct = a})
    IN  [i \in DOMAIN rows |-> <<rows[i].id, rows[i].row>>]

PgHasPending(p, e) == \E x \in p.appeals : x.row.enf = e /\ x.row.state = "pending"

PgFileAppeal(p, a, e) ==
    LET found == {x \in p.enforcements : x.id = e}
        enf == (CHOOSE x \in found : TRUE).row
        new == [id |-> NextId(p.appeals),
                row |-> [enf |-> e, acct |-> a, state |-> "pending", by |-> ""]]
    IN  CASE found = {} -> Says(p, <<"no enforcement">>)
          [] enf.acct # a -> Says(p, <<"not yours">>)
          [] enf.action = "warn" -> Says(p, <<"not appealable">>)
          [] PgHasPending(p, e) -> Says(p, <<"already appealed">>)
          [] OTHER -> Says([p EXCEPT !.appeals = @ \cup {new}], Given(<<new.id, new.row>>))

(* the WHERE of the update looks at the state *)
PgDecideAppeal(p, mod, i, state) ==
    LET open == {x \in p.appeals : x.id = i /\ x.row.state = "pending"}
        new == {[x EXCEPT !.row.state = state, !.row.by = mod] : x \in open}
    IN  CASE ~PgIsModerator(p, mod) -> Says(p, <<"not a moderator">>)
          [] open # {} -> Says([p EXCEPT !.appeals = (@ \ open) \cup new],
                               Given((CHOOSE x \in new : TRUE).row))
          [] ~\E x \in p.appeals : x.id = i -> Says(p, <<"no appeal">>)
          [] OTHER -> Says(p, <<"already decided">>)

PgListAppeals(p, filter) ==
    RowsOf(NewestFirst({x \in p.appeals : filter = "" \/ x.row.state = filter}))

PgRiskProfile(p, a) ==
    LET rows == {x \in p.risk : x.acct = a}
    IN  IF rows = {} THEN "none" ELSE (CHOOSE x \in rows : TRUE).status

PgUpsertRisk(p, a, status) ==
    Says([p EXCEPT !.risk = {x \in @ : x.acct # a} \cup {[acct |-> a, status |-> status]}],
         Given("kept"))

PgListFlagged(p) == {<<x.acct, x.status>> : x \in {y \in p.risk : y.status # "none"}}

-----------------------------------------------------------------------------
(* The requests *)

AskGrant(a) == Ask("casework", MemGrant(Mem, a), PgGrant(Pg, a))

AskReport(a) ==
    \E s \in Subjects : Ask("casework", MemSubmitReport(Mem, a, s), PgSubmitReport(Pg, a, s))

(* any text is taken for a state *)
AskTriage(a) ==
    \E r \in 1..2 : Ask("casework", MemTriageReport(Mem, a, r, "triaged"),
                                    PgTriageReport(Pg, a, r, "triaged"))

AskEnforce(mod, a) ==
    \E action \in CaseActions :
        Ask("casework", MemCreateEnforcement(Mem, mod, a, action),
                        PgCreateEnforcement(Pg, mod, a, action))

AskAppeal(a) ==
    \E e \in 1..2 : Ask("casework", MemFileAppeal(Mem, a, e), PgFileAppeal(Pg, a, e))

AskDecideAppeal(mod) ==
    \E i \in 1..2, state \in {"upheld", "overturned"} :
        Ask("casework", MemDecideAppeal(Mem, mod, i, state), PgDecideAppeal(Pg, mod, i, state))

(* a signal raises the profile that was read *)
AskRiskSignal(a) ==
    Ask("casework", MemUpsertRisk(Mem, a, Raised(MemRiskProfile(Mem, a))),
                    PgUpsertRisk(Pg, a, Raised(PgRiskProfile(Pg, a))))

CaseworkNext ==
    \E a \in AccountIds :
        \/ AskGrant(a) \/ AskReport(a) \/ AskTriage(a) \/ AskAppeal(a)
        \/ AskDecideAppeal(a) \/ AskRiskSignal(a)
        \/ \E b \in AccountIds : AskEnforce(a, b)

(* the queues of the moderators, and what an account sees of its enforcements *)
CaseworkReadsAlike ==
    /\ \A state \in {"", "open", "triaged"} : MemListReports(Mem, state) = PgListReports(Pg, state)
    /\ \A state \in {"", "pending", "upheld", "overturned"} :
        MemListAppeals(Mem, state) = PgListAppeals(Pg, state)
    /\ MemListFlagged(Mem) = PgListFlagged(Pg)
    /\ \A a \in AccountIds : MemListByAccount(Mem, a) = PgListByAccount(Pg, a)
=============================================================================
