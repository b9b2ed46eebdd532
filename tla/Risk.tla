-------------------------------- MODULE Risk --------------------------------
(****************************************************************************)
(* Risk scoring (moderation/modsvc risk.go) and the fraud rules that feed   *)
(* it from logins, gifts and disputes (fraud/fraudsvc): a hook records what *)
(* happened, looks at what others did, and adds signals to the profiles of  *)
(* those concerned.  A profile is read, changed and stored without a lock.  *)
(* Gifts are of one time window, so all of them are recent.                 *)
(*                                                                          *)
(* given and crossed are auxiliary: the sum of the signals stored for an    *)
(* account, and the accounts whose profile was stored over another change.  *)
(****************************************************************************)
EXTENDS Calls

CONSTANTS DeviceHashes

VARIABLES
    fingerprints,   \* fraud_device_fingerprints: device and account
    gifts,          \* sender and recipient
    disputes,
    risk,           \* moderation_risk_profiles
    given,
    crossed

riskVars == <<fingerprints, gifts, disputes, risk, given, crossed>>

(* Signals, with their weights *)
DeviceClustering == [reason |-> "device_clustering", delta |-> 4]
GiftLoop == [reason |-> "gift_loop", delta |-> 4]
RepeatChargeback == [reason |-> "repeat_chargeback", delta |-> 3]
Keyword == [reason |-> "keyword_signal", delta |-> 2]
RapidEscalation == [reason |-> "rapid_escalation_to_pv", delta |-> 3]
NoReciprocity == [reason |-> "no_reciprocal_engagement", delta |-> 2]

DeviceClusterMinAccounts == 2
ChargebackRiskThreshold == 2
RiskWatchThreshold == 3
RiskManualReviewThreshold == 6

RiskInit ==
    /\ fingerprints = {}
    /\ gifts = {}
    /\ disputes = [a \in AccountIds |-> 0]
    /\ risk = [a \in AccountIds |-> [score |-> 0, reasons |-> {}, status |-> "none"]]
    /\ given = [a \in AccountIds |-> 0]
    /\ crossed = {}

-----------------------------------------------------------------------------
(* a hook goes on to give each of signals, account and signal; one after another *)
Give(k, signals) ==
    IF signals = {} THEN Answer(k)
    ELSE GoOn(k, [op |-> "risk", pc |-> "get", signals |-> signals])

DeviceLogin(k, a, d) ==
    /\ Begin("risk", k, [op |-> "risk", pc |-> "record", row |-> <<d, a>>])
    /\ UNCHANGED riskVars

RecordDevice(k) ==
    /\ At(k, "risk", "record")
    /\ fingerprints' = fingerprints \cup {call[k].row}
    /\ Goto(k, "cluster")
    /\ UNCHANGED <<gifts, disputes, risk, given, crossed>>

(* Mutant of AccountsForDevice: only who logs in now is given the signal. *)
AccountForDevice(k) ==
    /\ At(k, "risk", "cluster")
    /\ LET cluster == {a \in AccountIds : <<call[k].row[1], a>> \in fingerprints} IN
       Give(k, IF Cardinality(cluster) >= DeviceClusterMinAccounts
               THEN {<<call[k].row[2], DeviceClustering>>} ELSE {})
    /\ UNCHANGED riskVars

AccountsForDevice(k) ==
    /\ At(k, "risk", "cluster")
    /\ LET cluster == {a \in AccountIds : <<call[k].row[1], a>> \in fingerprints} IN
       Give(k, IF Cardinality(cluster) >= DeviceClusterMinAccounts
               THEN cluster \X {DeviceClustering} ELSE {})
    /\ UNCHANGED riskVars

(* giftsvc posts the gift, and then runs the hook *)
SendGift(k, a, b) ==
    /\ a # b
    /\ Begin("risk", k, [op |-> "risk", pc |-> "loop", row |-> <<a, b>>])
    /\ gifts' = gifts \cup {<<a, b>>}
    /\ UNCHANGED <<fingerprints, disputes, risk, given, crossed>>

CheckGiftLoop(k) ==
    /\ At(k, "risk", "loop")
    /\ LET a == call[k].row[1]
           b == call[k].row[2] IN
       Give(k, IF <<b, a>> \in gifts THEN {a, b} \X {GiftLoop} ELSE {})
    /\ UNCHANGED riskVars

RecordDispute(k, a) ==
    /\ Begin("risk", k,
            IF disputes[a] + 1 < ChargebackRiskThreshold THEN Idle
            ELSE [op |-> "risk", pc |-> "get", signals |-> {<<a, RepeatChargeback>>}])
    /\ disputes' = [disputes EXCEPT ![a] = @ + 1]
    /\ UNCHANGED <<fingerprints, gifts, risk, given, crossed>>

(* RecordMessage and RecordPVRequest, for what they may find in one message or call *)
Observe(k, a, found) ==
    /\ Begin("risk", k, [op |-> "risk", pc |-> "get", signals |-> {a} \X found])
    /\ UNCHANGED riskVars

-----------------------------------------------------------------------------
(* addSignal *)
Scored(p, signal) ==
    LET score == p.score + signal.delta IN
    [score |-> score,
     reasons |-> p.reasons \cup {signal.reason},
     status |-> IF score >= RiskManualReviewThreshold THEN "manual_review"
                ELSE IF score >= RiskWatchThreshold /\ p.status = "none" THEN "watch"
                ELSE p.status]

GetProfile(k) ==
    /\ At(k, "risk", "get")
    /\ \E s \in call[k].signals :
        GoOn(k, [op |-> "risk", pc |-> "upsert", signals |-> call[k].signals \ {s},
                 acct |-> s[1], profile |-> Scored(risk[s[1]], s[2]), delta |-> s[2].delta])
    /\ UNCHANGED riskVars

UpsertProfile(k) ==
    /\ At(k, "risk", "upsert")
    /\ LET a == call[k].acct IN
       /\ risk' = [risk EXCEPT ![a] = call[k].profile]
       /\ given' = [given EXCEPT ![a] = @ + call[k].delta]
       /\ crossed' = IF \E j \in Slots \ {k} : At(j, "risk", "upsert") /\ call[j].acct = a
                     THEN crossed \cup {a} ELSE crossed
    /\ Give(k, call[k].signals)
    /\ UNCHANGED <<fingerprints, gifts, disputes>>

RiskNext ==
    \/ \E k \in Slots, a \in AccountIds :
        \/ \E d \in DeviceHashes : DeviceLogin(k, a, d)
        \/ \E b \in AccountIds : SendGift(k, a, b)
        \/ RecordDispute(k, a)
        \/ \E found \in {{Keyword}, {RapidEscalation, NoReciprocity}} : Observe(k, a, found)
    \/ \E k \in Slots :
        \/ RecordDevice(k) \/ AccountsForDevice(k) \/ CheckGiftLoop(k)
        \/ GetProfile(k) \/ UpsertProfile(k)

-----------------------------------------------------------------------------
Hooked == \E k \in Slots : call[k].op = "risk"

(* When no hook is at work and none was cut short, what accounts did together shows on
   all their profiles, in whichever order their requests were interleaved: accounts
   that share a device are clustered, a gift and one back are a loop, and a profile's
   score is the sum of all its signals - but for accounts whose profile was stored over
   another change; and no profile has a lower status than its score stands for
   (fraudsvc: "every account in the cluster gets a risk signal"). *)
SharedConductIsSeen ==
    /\ \A a \in AccountIds :
        /\ risk[a].score >= RiskManualReviewThreshold <=> risk[a].status = "manual_review"
        /\ risk[a].score < RiskWatchThreshold <=> risk[a].status = "none"
    /\ ~Hooked /\ failed = 0 => \A a \in AccountIds \ crossed :
        /\ risk[a].score = given[a]
        /\ \A b \in AccountIds \ {a} :
            /\ (\E d \in DeviceHashes : {<<d, a>>, <<d, b>>} \subseteq fingerprints)
                => "device_clustering" \in risk[a].reasons
            /\ {<<a, b>>, <<b, a>>} \subseteq gifts => "gift_loop" \in risk[a].reasons
=============================================================================
