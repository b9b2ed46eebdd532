----------------------------- MODULE Moderation ------------------------------
(****************************************************************************)
(* Enforcement and appeals (moderation/modsvc over its Postgres             *)
(* repository) and the account actions of the admin console, all of which   *)
(* set the standing that Auth keeps.  A row is stored first and the         *)
(* standing is set by a statement of its own.                               *)
(****************************************************************************)
EXTENDS Auth

CONSTANTS Actions   \* the enforcement actions taken

VARIABLES
    enforcements,   \* moderation_enforcements: account and action
    appeals         \* moderation_appeals: enforcement and state

moderationVars == <<enforcements, appeals>>

AllActions == {"warn", "mute", "restrict_broadcast", "restrict_pv", "suspend", "terminate"}

ASSUME ActionsAssumption == Actions \subseteq AllActions

ModerationInit == enforcements = <<>> /\ appeals = <<>>

(* Mutant of Standing: the action's own name is stored as the standing. *)
StandingAsNamed(action, was) ==
    IF action \in {"warn", "mute"} THEN was ELSE action

(* main's applyEnforcement: the standing an action gives the account *)
Standing(action, was) ==
    CASE action \in {"restrict_broadcast", "restrict_pv"} -> "restricted"
      [] action \in {"suspend", "terminate"}              -> "suspended"
      [] OTHER                                            -> was

-----------------------------------------------------------------------------
(* CreateEnforcement *)

CreateEnforcement(k, a, action) ==
    /\ Begin("moderation", k, [op |-> "enforce", pc |-> "apply", acct |-> a, action |-> action])
    /\ enforcements' = Append(enforcements, [acct |-> a, action |-> action])
    /\ UNCHANGED <<authVars, appeals>>

ApplyEnforcement(k) ==
    /\ At(k, "enforce", "apply")
    /\ status' = [status EXCEPT ![call[k].acct] = Standing(call[k].action, @)]
    /\ Answer(k)
    /\ UNCHANGED <<sessions, moderationVars>>

-----------------------------------------------------------------------------
(* FileAppeal *)

HasPending(e) == \E i \in DOMAIN appeals : appeals[i].enf = e /\ appeals[i].state = "pending"

FileAppeal(k, e) ==
    /\ enforcements[e].action # "warn"
    /\ ~HasPending(e)
    /\ Begin("moderation", k, [op |-> "appeal", pc |-> "create", enf |-> e])
    /\ UNCHANGED <<authVars, moderationVars>>

(* the unique index refuses a second pending appeal *)
CreateAppeal(k) ==
    /\ At(k, "appeal", "create")
    /\ appeals' = IF HasPending(call[k].enf) THEN appeals
                  ELSE Append(appeals, [enf |-> call[k].enf, state |-> "pending"])
    /\ Answer(k)
    /\ UNCHANGED <<authVars, enforcements>>

-----------------------------------------------------------------------------
(* DecideAppeal *)

(* Mutant of DecideAppeal: the UPDATE does not ask for a pending appeal. *)
DecideAgain(k, i, uphold) ==
    /\ Begin("moderation", k,
             IF uphold THEN Idle
             ELSE [op |-> "overturn", pc |-> "reinstate", appeal |-> i])
    /\ appeals' = [appeals EXCEPT ![i].state = IF uphold THEN "upheld" ELSE "overturned"]
    /\ UNCHANGED <<authVars, enforcements>>

(* the UPDATE decides an appeal that is pending, once *)
DecideAppeal(k, i, uphold) ==
    /\ appeals[i].state = "pending"
    /\ Begin("moderation", k,
             IF uphold THEN Idle
             ELSE [op |-> "overturn", pc |-> "reinstate", appeal |-> i])
    /\ appeals' = [appeals EXCEPT ![i].state = IF uphold THEN "upheld" ELSE "overturned"]
    /\ UNCHANGED <<authVars, enforcements>>

Reinstate(k) ==
    /\ At(k, "overturn", "reinstate")
    /\ status' = [status EXCEPT ![enforcements[appeals[call[k].appeal].enf].acct] = "active"]
    /\ Answer(k)
    /\ UNCHANGED <<sessions, moderationVars>>

-----------------------------------------------------------------------------
(* RestrictAccount and UnsuspendAccount of the admin console *)

SetAccountStatus(a, s) ==
    /\ s \in {"restricted", "active"}
    /\ Serve("moderation")
    /\ status' = [status EXCEPT ![a] = s]
    /\ UNCHANGED <<call, sessions, moderationVars>>

ModerationNext ==
    \/ \E k \in Slots, a \in AccountIds, action \in Actions : CreateEnforcement(k, a, action)
    \/ \E k \in Slots, e \in DOMAIN enforcements : FileAppeal(k, e)
    \/ \E k \in Slots, i \in DOMAIN appeals, u \in BOOLEAN : DecideAppeal(k, i, u)
    \/ \E k \in Slots : ApplyEnforcement(k) \/ CreateAppeal(k) \/ Reinstate(k)
    \/ \E a \in AccountIds, s \in {"restricted", "active"} : SetAccountStatus(a, s)

-----------------------------------------------------------------------------
(* An appeal is settled once, by whichever moderator comes first: no account is about
   to be reinstated by an appeal that stands as upheld, and no enforcement has two
   appeals in the queue, though filing looks before it inserts and deciding sets the
   standing after it has stored the decision (modsvc FileAppeal, DecideAppeal; pgrepo
   Decide: "of two concurrent decisions on the same appeal, exactly one UPDATE affects
   a row"). *)
UpheldIsNotReinstated ==
    /\ \A k \in Slots : call[k].op = "overturn" => appeals[call[k].appeal].state = "overturned"
    /\ \A i, j \in DOMAIN appeals :
            /\ appeals[i].enf = appeals[j].enf
            /\ appeals[i].state = "pending" /\ appeals[j].state = "pending"
            => i = j
=============================================================================
