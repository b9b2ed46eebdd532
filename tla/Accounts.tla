------------------------------ MODULE Accounts -------------------------------
(****************************************************************************)
(* Accounts, passwords and sessions (auth/authsvc over auth/memrepo and     *)
(* over auth/pgrepo).  In memory an account is found through an index for   *)
(* each kind of login and a session through its refresh token; the tables   *)
(* are searched.  In memory a session is named after its account and device *)
(* and a rotated token stays behind as a revoked session; in the table a    *)
(* session has one row, whose token is overwritten.                         *)
(*                                                                          *)
(* Whether the code sent to a phone was right is given (module SignIn), and *)
(* is_new_account, which the table never clears, is left out.               *)
(****************************************************************************)
EXTENDS Stores

PhoneNumber == "+1"
EmailsTyped == {"ann@x", "Ann@x", ""}   \* bound: inputs; "" is no email
Passwords == {"right", "wrong"}         \* bound: inputs; "short" is not accepted
LoginDevices == {"phone", "laptop"}     \* bound: inputs
Standings == {"restricted", "active"}   \* bound: what an admin sets
MadeUpToken == 0

NormalizeEmail(e) == IF e = "Ann@x" THEN "ann@x" ELSE e

NewAccount(a, phone, email) ==
    [id |-> a, phone |-> phone, email |-> email, status |-> "active", age |-> "undeclared"]

NoAccounts == [accounts |-> <<>>, byPhone |-> <<>>, byEmail |-> <<>>, hashes |-> <<>>,
               sessions |-> <<>>]
NoAccountRows == [accounts |-> {}, hashes |-> {}, sessions |-> {}]

Barred(acc) == acc.status \in {"suspended", "deleted"}

-----------------------------------------------------------------------------
(* In memory *)

MemAccount(m, a) == IF a \in DOMAIN m.accounts THEN {m.accounts[a]} ELSE {}

MemFindByPhone(m, n) == IF n \in DOMAIN m.byPhone THEN MemAccount(m, m.byPhone[n]) ELSE {}

MemFindByEmail(m, e) == IF e \in DOMAIN m.byEmail THEN MemAccount(m, m.byEmail[e]) ELSE {}

MemCreatePhone(m, a, n) ==
    [m EXCEPT !.accounts = (a :> NewAccount(a, n, "")) @@ @, !.byPhone = (n :> a) @@ @]

MemCreateEmail(m, a, e, pw) ==
    [m EXCEPT !.accounts = (a :> NewAccount(a, "", e)) @@ @, !.byEmail = (e :> a) @@ @,
              !.hashes = (a :> pw) @@ @]

MemCreateSession(m, a, d, t) ==
    [m EXCEPT !.sessions = (t :> [id |-> <<a, d>>, acct |-> a, device |-> d, revoked |-> FALSE]) @@ @]

MemIssue(m, a, d, t) ==
    LET after == MemCreateSession(m, a, d, t)
    IN  Says(after, Given(<<after.accounts[a], t>>))

(* new: the account to be made if there is none *)
MemByPhone(m, right, new, d, t) ==
    LET found == MemFindByPhone(m, PhoneNumber)
        acc == CHOOSE x \in found : TRUE
    IN  CASE ~right -> Says(m, <<"code">>)
          [] found = {} -> MemIssue(MemCreatePhone(m, new, PhoneNumber), new, d, t)
          [] Barred(acc) -> Says(m, <<"failed">>)
          [] OTHER -> MemIssue(m, acc.id, d, t)

MemRegister(m, e, pw, new, d, t) ==
    CASE e = "" \/ pw = "short" -> Says(m, <<"invalid">>)
      [] MemFindByEmail(m, e) # {} -> Says(m, <<"exists">>)
      [] OTHER -> MemIssue(MemCreateEmail(m, new, e, pw), new, d, t)

MemLogin(m, e, pw, d, t) ==
    LET found == MemFindByEmail(m, e)
        acc == CHOOSE x \in found : TRUE
    IN  IF found = {} \/ Barred(acc) \/ m.hashes[acc.id] # pw
        THEN Says(m, <<"credentials">>)
        ELSE MemIssue(m, acc.id, d, t)

MemDeviceRevoked(m, s) ==
    \E x \in DOMAIN m.sessions :
        /\ m.sessions[x].acct = s.acct /\ m.sessions[x].device = s.device
        /\ m.sessions[x].revoked

MemRevokeDevice(m, s) ==
    [m EXCEPT !.sessions =
        [x \in DOMAIN @ |-> IF @[x].acct = s.acct /\ @[x].device = s.device
                            THEN [@[x] EXCEPT !.revoked = TRUE] ELSE @[x]]]

MemTokensOf(m, id) == {x \in DOMAIN m.sessions : m.sessions[x].id = id}

(* found: the session of that id which the map gives first *)
MemRotate(m, found, t) ==
    [m EXCEPT !.sessions = (t :> @[found]) @@ [@ EXCEPT ![found].revoked = TRUE]]

MemRefresh(m, token, found, t) ==
    LET s == m.sessions[token]
    IN  CASE token \notin DOMAIN m.sessions -> Says(m, <<"expired">>)
          [] MemDeviceRevoked(m, s) -> Says(MemRevokeDevice(m, s), <<"reuse">>)
          [] m.accounts[s.acct].status # "active" -> Says(m, <<"expired">>)
          [] OTHER -> Says(MemRotate(m, found, t), Given(t))

MemLogout(m, token, found) ==
    IF token \in DOMAIN m.sessions
    THEN Says([m EXCEPT !.sessions[found].revoked = TRUE], Given("out"))
    ELSE Says(m, Given("out"))

MemSetAge(m, a, status) == Says([m EXCEPT !.accounts[a].age = status], Given(status))

MemSetStanding(m, a, status) ==
    IF a \in DOMAIN m.accounts
    THEN Says([m EXCEPT !.accounts[a].status = status], Given(status))
    ELSE Says(m, <<"not found">>)

MemCancelDeletion(m, a) ==
    Says([m EXCEPT !.accounts[a].status = IF @ = "deleted" THEN "active" ELSE @], Given("back"))

-----------------------------------------------------------------------------
(* In Postgres *)

PgAccount(p, a) == {r \in p.accounts : r.id = a}

PgFindByPhone(p, n) == {r \in p.accounts : r.phone = n}

PgFindByEmail(p, e) == {r \in p.accounts : r.email = e}

PgCreateAccount(p, new) == [p EXCEPT !.accounts = @ \cup {new}]

PgSetPassword(p, a, pw) ==
    [p EXCEPT !.hashes = {r \in @ : r.id # a} \cup {[id |-> a, hash |-> pw]}]

(* the id of a session is made up: here it is its first token *)
PgIssue(p, a, d, t) ==
    LET row == [id |-> t, acct |-> a, device |-> d, token |-> t, revoked |-> FALSE]
        acc == CHOOSE x \in PgAccount(p, a) : TRUE
    IN  Says([p EXCEPT !.sessions = @ \cup {row}], Given(<<acc, t>>))

PgByPhone(p, right, new, d, t) ==
    LET found == PgFindByPhone(p, PhoneNumber)
        acc == CHOOSE x \in found : TRUE
    IN  CASE ~right -> Says(p, <<"code">>)
          [] found = {} -> PgIssue(PgCreateAccount(p, NewAccount(new, PhoneNumber, "")), new, d, t)
          [] Barred(acc) -> Says(p, <<"failed">>)
          [] OTHER -> PgIssue(p, acc.id, d, t)

PgRegister(p, e, pw, new, d, t) ==
    LET made == PgSetPassword(PgCreateAccount(p, NewAccount(new, "", e)), new, pw)
    IN  CASE e = "" \/ pw = "short" -> Says(p, <<"invalid">>)
          [] PgFindByEmail(p, e) # {} -> Says(p, <<"exists">>)
          [] OTHER -> PgIssue(made, new, d, t)

PgLogin(p, e, pw, d, t) ==
    LET found == PgFindByEmail(p, e)
        acc == CHOOSE x \in found : TRUE
    IN  IF found = {} \/ Barred(acc) \/ [id |-> acc.id, hash |-> pw] \notin p.hashes
        THEN Says(p, <<"credentials">>)
        ELSE PgIssue(p, acc.id, d, t)

PgSession(p, token) == {s \in p.sessions : s.token = token}

PgRevoke(p, rows) ==
    [p EXCEPT !.sessions = (@ \ rows) \cup {[s EXCEPT !.revoked = TRUE] : s \in rows}]

(* no row and no error is not looked out for: the request panics *)
PgRefresh(p, token, t) ==
    LET found == PgSession(p, token)
        s == CHOOSE x \in found : TRUE
        acc == CHOOSE x \in PgAccount(p, s.acct) : TRUE
        family == {x \in p.sessions : x.acct = s.acct /\ x.device = s.device /\ ~x.revoked}
    IN  CASE found = {} -> Says(p, <<"panic">>)
          [] s.revoked -> Says(PgRevoke(p, family), <<"reuse">>)
          [] acc.status # "active" -> Says(p, <<"expired">>)
          [] OTHER -> Says([p EXCEPT !.sessions = (@ \ found) \cup {[s EXCEPT !.token = t]}],
                           Given(t))

PgLogout(p, token) ==
    IF PgSession(p, token) = {}
    THEN Says(p, <<"panic">>)
    ELSE Says(PgRevoke(p, PgSession(p, token)), Given("out"))

PgUpdateAccount(p, a, status) ==
    Says([p EXCEPT !.accounts = {IF r.id = a THEN [r EXCEPT !.status = status] ELSE r : r \in @}],
         Given(status))

PgSetAge(p, a, age) ==
    Says([p EXCEPT !.accounts = {IF r.id = a THEN [r EXCEPT !.age = age] ELSE r : r \in @}],
         Given(age))

PgCancelDeletion(p, a) ==
    Says([p EXCEPT !.accounts = {IF r.id = a /\ r.status = "deleted"
                                 THEN [r EXCEPT !.status = "active"] ELSE r : r \in @}],
         Given("back"))

-----------------------------------------------------------------------------
(* The requests, in the order of their routes *)

NextToken == Cardinality(DOMAIN Mem.sessions) + 1
NewIds == AccountIds \ DOMAIN Mem.accounts

AskVerify(a, d) ==
    \E right \in BOOLEAN :
        Ask("accounts", MemByPhone(Mem, right, a, d, NextToken),
                        PgByPhone(Pg, right, a, d, NextToken))

AskRegister(a, d) ==
    \E typed \in EmailsTyped, pw \in Passwords \cup {"short"} :
        LET e == NormalizeEmail(typed)
        IN  Ask("accounts", MemRegister(Mem, e, pw, a, d, NextToken),
                            PgRegister(Pg, e, pw, a, d, NextToken))

AskLogin(d) ==
    \E typed \in EmailsTyped, pw \in Passwords :
        LET e == NormalizeEmail(typed)
        IN  Ask("accounts", MemLogin(Mem, e, pw, d, NextToken), PgLogin(Pg, e, pw, d, NextToken))

(* what the map may give first for the session of a token *)
Finds(token) ==
    IF token \in DOMAIN Mem.sessions THEN MemTokensOf(Mem, Mem.sessions[token].id) ELSE {token}

(* where the two keep sessions differently *)
KeptApart(token) ==
    If(PgSession(Pg, token) = {}, "a token of no row panics")
        \cup If(Cardinality(Finds(token)) > 1, "sessions of a device share an id")

AskRefresh(token) ==
    \E found \in Finds(token) :
        LET mem == MemRefresh(Mem, token, found, NextToken)
        IN  AskKnowing("accounts", mem, PgRefresh(Pg, token, NextToken), KeptApart(token))

AskLogout(token) ==
    \E found \in Finds(token) :
        LET mem == MemLogout(Mem, token, found)
        IN  AskKnowing("accounts", mem, PgLogout(Pg, token), KeptApart(token))

(* a date of birth that makes the account too young is refused, and nothing is kept of it *)
AskAge(a) ==
    \/ Ask("accounts", Says(Mem, <<"under age">>), Says(Pg, <<"under age">>))
    \/ \E age \in {"declared", "assured"} :
        Ask("accounts", MemSetAge(Mem, a, age), PgSetAge(Pg, a, age))

AskDeletion(a) ==
    Ask("accounts", MemSetStanding(Mem, a, "deleted"), PgUpdateAccount(Pg, a, "deleted"))

AskCancelDeletion(a) == Ask("accounts", MemCancelDeletion(Mem, a), PgCancelDeletion(Pg, a))

(* of moderation and of admins, for any id they type *)
AskStanding(a) ==
    \E status \in Standings :
        AskKnowing("accounts", MemSetStanding(Mem, a, status), PgUpdateAccount(Pg, a, status),
                   If(a \notin DOMAIN Mem.accounts, "an update of no row is no error"))

AccountsNext ==
    \/ \E a \in NewIds, d \in LoginDevices : AskVerify(a, d) \/ AskRegister(a, d)
    \/ \E d \in LoginDevices : AskLogin(d)
    \/ \E token \in DOMAIN Mem.sessions \cup {MadeUpToken} : AskRefresh(token) \/ AskLogout(token)
    \/ \E a \in DOMAIN Mem.accounts : AskAge(a) \/ AskDeletion(a) \/ AskCancelDeletion(a)
    \/ \E a \in AccountIds : AskStanding(a)

(* What the two hold reads the same: each account by id, by phone and by email, and a
   session of a device that has not been refreshed. *)
AccountsReadAlike ==
    /\ \A a \in AccountIds : MemAccount(Mem, a) = PgAccount(Pg, a)
    /\ MemFindByPhone(Mem, PhoneNumber) = PgFindByPhone(Pg, PhoneNumber)
    /\ \A e \in EmailsTyped \ {""} : MemFindByEmail(Mem, e) = PgFindByEmail(Pg, e)
    /\ \A t \in DOMAIN Mem.sessions :
        Cardinality(MemTokensOf(Mem, Mem.sessions[t].id)) = 1
            => \E s \in PgSession(Pg, t) : s.revoked = Mem.sessions[t].revoked
=============================================================================
