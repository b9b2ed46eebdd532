-------------------------------- MODULE Auth ---------------------------------
(****************************************************************************)
(* Accounts and sessions (auth/authsvc over its Postgres repository): an     *)
(* account's standing, logins, and refresh tokens.                          *)
(*                                                                          *)
(* A session is presented by its current token: a token that was rotated    *)
(* away is found in no row, and the request fails before it changes         *)
(* anything.  revokedOnce is auxiliary: the session has been revoked at     *)
(* some time.                                                               *)
(****************************************************************************)
EXTENDS Calls

CONSTANTS Devices

VARIABLES
    status,     \* accounts.status
    sessions    \* the rows of sessions, in the order they were created

authVars == <<status, sessions>>

Statuses == {"active", "restricted", "suspended", "deleted"}

AuthInit ==
    /\ status = [a \in AccountIds |-> "active"]
    /\ sessions = <<>>

Revoked(s) == [s EXCEPT !.revoked = TRUE, !.revokedOnce = TRUE]

-----------------------------------------------------------------------------
(* A login, by password or by code: the standing is looked at, then the session
   is stored *)

Login(k, a, d) ==
    /\ status[a] \notin {"suspended", "deleted"}
    /\ Begin("auth", k, [op |-> "login", pc |-> "create", acct |-> a, device |-> d])
    /\ UNCHANGED authVars

CreateSession(k) ==
    /\ At(k, "login", "create")
    /\ sessions' = Append(sessions, [acct |-> call[k].acct, device |-> call[k].device,
                                     revoked |-> FALSE, revokedOnce |-> FALSE])
    /\ Answer(k)
    /\ UNCHANGED status

-----------------------------------------------------------------------------
(* RefreshTokens *)

RefreshTokens(k, s) ==
    /\ Begin("auth", k, [op |-> "refresh", sess |-> s, late |-> sessions[s].revokedOnce,
                         pc |-> IF sessions[s].revoked THEN "family" ELSE "account"])
    /\ UNCHANGED authVars

RevokeAllDeviceSessions(k) ==
    /\ At(k, "refresh", "family")
    /\ LET mine == sessions[call[k].sess] IN
       sessions' = [i \in DOMAIN sessions |->
                        IF sessions[i].acct = mine.acct /\ sessions[i].device = mine.device
                        THEN Revoked(sessions[i]) ELSE sessions[i]]
    /\ Answer(k)
    /\ UNCHANGED status

FindAccount(k) ==
    /\ At(k, "refresh", "account")
    /\ IF status[sessions[call[k].sess].acct] = "active"
       THEN Goto(k, "rotate") ELSE Answer(k)
    /\ UNCHANGED authVars

(* Mutant of RotateSession: the row is written whole, as it was when it was read. *)
RotateAndRestore(k) ==
    /\ At(k, "refresh", "rotate")
    /\ sessions' = [sessions EXCEPT ![call[k].sess].revoked = FALSE]
    /\ Answer(k)
    /\ UNCHANGED status

(* RotateSession gives the session a new token, and leaves revoked_at alone *)
RotateSession(k) ==
    /\ At(k, "refresh", "rotate")
    /\ Answer(k)
    /\ UNCHANGED authVars

Logout(s) ==
    /\ Serve("auth")
    /\ sessions' = [sessions EXCEPT ![s] = Revoked(@)]
    /\ UNCHANGED <<call, status>>

-----------------------------------------------------------------------------
(* Deletion, which a grace period lets the owner cancel *)

RequestDeletion(a) ==
    /\ Serve("auth")
    /\ status' = [status EXCEPT ![a] = "deleted"]
    /\ UNCHANGED <<call, sessions>>

CancelDeletion(a) ==
    /\ status[a] = "deleted"
    /\ Serve("auth")
    /\ status' = [status EXCEPT ![a] = "active"]
    /\ UNCHANGED <<call, sessions>>

AuthNext ==
    \/ \E k \in Slots, a \in AccountIds, d \in Devices : Login(k, a, d)
    \/ \E k \in Slots, s \in DOMAIN sessions : RefreshTokens(k, s)
    \/ \E k \in Slots :
        \/ CreateSession(k) \/ RevokeAllDeviceSessions(k)
        \/ FindAccount(k) \/ RotateSession(k)
    \/ \E s \in DOMAIN sessions : Logout(s)
    \/ \E a \in AccountIds : RequestDeletion(a) \/ CancelDeletion(a)

-----------------------------------------------------------------------------
(* A session that has been revoked gets no tokens ever again: a refresh that begins
   after a logout, or after the family was revoked, is never on its way to new ones,
   even though a refresh that was under way at that moment rotates the session after
   it (authsvc RefreshTokens; pgrepo RotateSession keeps revoked_at). *)
RevokedStaysOut ==
    \A k \in Slots : call[k].op = "refresh" /\ call[k].pc \in {"account", "rotate"}
                        => ~call[k].late
=============================================================================
