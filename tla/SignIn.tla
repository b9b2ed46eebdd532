------------------------------- MODULE SignIn --------------------------------
(****************************************************************************)
(* Codes sent to a phone (auth/otp), kept in the memory of one process      *)
(* (main passes otp.NewMemoryStore), whose operations are the steps.  It    *)
(* has no mutex; that two of its operations meet in a map is left out.      *)
(* wrong, opened and crossed are auxiliary: what became of a code, and      *)
(* whether two checks of it were under way at one time.                     *)
(****************************************************************************)
EXTENDS Auth

CONSTANTS
    Phones,
    MaxSends,       \* maxSendsPerWindow
    MaxAttempts     \* maxAttempts

ASSUME CodesAssumption == MaxAttempts \in Nat

VARIABLES
    challenges, \* MemoryStore.challenges, in the order they were made
    sends,      \* MemoryStore.sends: how many in the window
    lockedOut   \* the phones whose lockout has not ended

codeVars == <<challenges, sends, lockedOut>>

CodesInit ==
    /\ challenges = <<>>
    /\ sends = [p \in Phones |-> 0]
    /\ lockedOut = {}

-----------------------------------------------------------------------------
(* A code is asked for: otp.Start *)

PhoneStart(k, p) ==
    /\ p \notin lockedOut
    /\ Begin("signin", k, [op |-> "start", pc |-> "count", phone |-> p])
    /\ UNCHANGED codeVars

IncrSendCount(k) ==
    /\ At(k, "start", "count")
    /\ sends' = [sends EXCEPT ![call[k].phone] = @ + 1]
    /\ IF sends[call[k].phone] < MaxSends THEN Goto(k, "send") ELSE Answer(k)
    /\ UNCHANGED <<challenges, lockedOut>>

SendCode(k) ==
    /\ At(k, "start", "send")
    /\ challenges' = Append(challenges,
            [phone |-> call[k].phone, attempts |-> 0, stored |-> TRUE, expired |-> FALSE,
             wrong |-> 0, opened |-> 0, crossed |-> FALSE])
    /\ Answer(k)
    /\ UNCHANGED <<sends, lockedOut>>

-----------------------------------------------------------------------------
(* A code is checked: otp.Verify *)

(* what Verify does with the copy it got, and with a right or a wrong code *)
Verdict(ch, right) ==
    IF ch.expired THEN "discard"
    ELSE IF ch.attempts >= MaxAttempts THEN "lock"
    ELSE IF right THEN "accept" ELSE "setback"

(* number is the one the client sends along with the code *)
PhoneVerify(k, c, right, number, d) ==
    LET ch == challenges[c] IN
    /\ ch.stored
    /\ Begin("signin", k,
            [op |-> "verify", pc |-> Verdict(ch, right), code |-> c,
             attempts |-> ch.attempts, phone |-> ch.phone,
             number |-> number, device |-> d])
    /\ challenges' = [challenges EXCEPT ![c].crossed =
            @ \/ \E j \in Slots : call[j].op = "verify" /\ call[j].code = c]
    /\ UNCHANGED <<sends, lockedOut>>

SetLockout(k) ==
    /\ At(k, "verify", "lock")
    /\ lockedOut' = lockedOut \cup {call[k].phone}
    /\ IF call[k].attempts >= MaxAttempts THEN Goto(k, "discard") ELSE Answer(k)
    /\ UNCHANGED <<challenges, sends>>

DeleteChallenge(k) ==
    /\ At(k, "verify", "discard")
    /\ challenges' = [challenges EXCEPT ![call[k].code].stored = FALSE]
    /\ Answer(k)
    /\ UNCHANGED <<sends, lockedOut>>

(* Mutant of CountAttempt: the count is kept in the copy only. *)
CountNoAttempt(k) ==
    /\ At(k, "verify", "setback")
    /\ challenges' = [challenges EXCEPT ![call[k].code].wrong = @ + 1]
    /\ Answer(k)
    /\ UNCHANGED <<sends, lockedOut>>

(* the copy is stored with one attempt more *)
CountAttempt(k) ==
    /\ At(k, "verify", "setback")
    /\ challenges' = [challenges EXCEPT
            ![call[k].code].attempts = call[k].attempts + 1,
            ![call[k].code].stored = TRUE,
            ![call[k].code].wrong = @ + 1]
    /\ IF call[k].attempts + 1 >= MaxAttempts THEN Goto(k, "lock") ELSE Answer(k)
    /\ UNCHANGED <<sends, lockedOut>>

AcceptCode(k) ==
    /\ At(k, "verify", "accept")
    /\ challenges' = [challenges EXCEPT
            ![call[k].code].stored = FALSE, ![call[k].code].opened = @ + 1]
    /\ Goto(k, "find")
    /\ UNCHANGED <<sends, lockedOut>>

(* Time passes: a code expires, the window of a number's sends moves on, a lockout ends. *)
Expire(c) ==
    /\ challenges[c].stored /\ ~challenges[c].expired
    /\ challenges' = [challenges EXCEPT ![c].expired = TRUE]
    /\ UNCHANGED <<sends, lockedOut>>

WindowPasses(p) ==
    /\ sends[p] > 0
    /\ sends' = [sends EXCEPT ![p] = 0]
    /\ UNCHANGED <<challenges, lockedOut>>

LockoutEnds(p) ==
    /\ p \in lockedOut
    /\ lockedOut' = lockedOut \ {p}
    /\ UNCHANGED <<challenges, sends>>

TimePasses ==
    /\ "signin" \in load.parts
    /\ \/ \E c \in DOMAIN challenges : Expire(c)
       \/ \E p \in Phones : WindowPasses(p) \/ LockoutEnds(p)
    /\ UNCHANGED callVars

CodesNext ==
    \/ \E k \in Slots, p \in Phones : PhoneStart(k, p)
    \/ \E k \in Slots, c \in DOMAIN challenges, right \in BOOLEAN,
          number \in Phones, d \in Devices : PhoneVerify(k, c, right, number, d)
    \/ \E k \in Slots :
        \/ IncrSendCount(k) \/ SendCode(k)
        \/ SetLockout(k) \/ DeleteChallenge(k) \/ CountAttempt(k) \/ AcceptCode(k)
    \/ TimePasses

-----------------------------------------------------------------------------
(* A code signs in at most once, and not after MaxAttempts wrong tries - whatever
   expires, is sent again or is locked out meanwhile - unless two checks of it were
   under way at one time, of which the later writes its copy over what the other did
   (otp.Verify: "one-time use", "locks out after maxAttempts"). *)
CodesWorkOnce ==
    \A c \in DOMAIN challenges :
        LET ch == challenges[c] IN
        ~ch.crossed => /\ ch.opened <= 1
                       /\ ch.wrong <= MaxAttempts
                       /\ ch.opened = 1 => ch.wrong < MaxAttempts

-----------------------------------------------------------------------------
(****************************************************************************)
(* Signing in and up (auth/authsvc): by a code or by a password.  The       *)
(* account is that of the number the client sends along with the code.      *)
(****************************************************************************)

CONSTANTS Emails

VARIABLES
    holder,     \* accounts.phone_e164 and accounts.email
    hashed      \* the accounts that have a row in password_hashes

signInVars == <<holder, hashed>>

NoAccount == "none"

SignInInit ==
    /\ holder = [n \in Phones \cup Emails |-> NoAccount]
    /\ hashed = {}

Unavailable(a) == status[a] \in {"suspended", "deleted"}
Unregistered == {a \in AccountIds : \A n \in DOMAIN holder : holder[n] # a}

(* once the account is known a session is made for it: issueTokens *)
IssueTokens(k, a) ==
    GoOn(k, [op |-> "login", pc |-> "create", acct |-> a, device |-> call[k].device])

-----------------------------------------------------------------------------
(* By a code: getOrCreateByPhone *)

FindByPhone(k) ==
    /\ At(k, "verify", "find")
    /\ LET a == holder[call[k].number] IN
       IF a = NoAccount THEN Goto(k, "insert")
       ELSE IF Unavailable(a) THEN Answer(k) ELSE IssueTokens(k, a)
    /\ UNCHANGED signInVars

(* phone_e164 is unique: an insert that comes second is answered with an error *)
CreateByPhone(k) ==
    /\ At(k, "verify", "insert")
    /\ \/ /\ holder[call[k].number] # NoAccount
          /\ Answer(k)
          /\ UNCHANGED holder
       \/ /\ holder[call[k].number] = NoAccount
          /\ \E a \in Unregistered : /\ holder' = [holder EXCEPT ![call[k].number] = a]
                              /\ IssueTokens(k, a)
    /\ UNCHANGED hashed

-----------------------------------------------------------------------------
(* By a password *)

RegisterEmail(k, e, d) ==
    /\ holder[e] = NoAccount
    /\ Begin("signin", k, [op |-> "register", pc |-> "insert", email |-> e, device |-> d])
    /\ UNCHANGED signInVars

CreateByEmail(k) ==
    /\ At(k, "register", "insert")
    /\ \/ /\ holder[call[k].email] # NoAccount
          /\ Answer(k)
          /\ UNCHANGED holder
       \/ /\ holder[call[k].email] = NoAccount
          /\ \E a \in Unregistered : /\ holder' = [holder EXCEPT ![call[k].email] = a]
                              /\ Goto(k, "hash")
    /\ UNCHANGED hashed

SetPasswordHash(k) ==
    /\ At(k, "register", "hash")
    /\ hashed' = hashed \cup {holder[call[k].email]}
    /\ IssueTokens(k, holder[call[k].email])
    /\ UNCHANGED holder

(* the account's standing is that of the row found by its email *)
LoginEmail(k, e, d) ==
    /\ holder[e] # NoAccount
    /\ Begin("signin", k, [op |-> "password", pc |-> "hash", email |-> e, device |-> d,
                           shut |-> Unavailable(holder[e])])
    /\ UNCHANGED signInVars

(* the right password, of an account that has one *)
CheckPassword(k) ==
    /\ At(k, "password", "hash")
    /\ \/ Answer(k)
       \/ /\ holder[call[k].email] \in hashed /\ ~call[k].shut
          /\ IssueTokens(k, holder[call[k].email])
    /\ UNCHANGED signInVars

SignInNext ==
    \/ \E k \in Slots, e \in Emails, d \in Devices : RegisterEmail(k, e, d) \/ LoginEmail(k, e, d)
    \/ \E k \in Slots :
        \/ FindByPhone(k) \/ CreateByPhone(k)
        \/ CreateByEmail(k) \/ SetPasswordHash(k) \/ CheckPassword(k)
=============================================================================
