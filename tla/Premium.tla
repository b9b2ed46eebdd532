------------------------------- MODULE Premium -------------------------------
(****************************************************************************)
(* Premium rooms and referral rewards (feed/feedsvc UnlockRoom and          *)
(* SetRoomPremium, referral/referralsvc ClaimCode): two services that post  *)
(* to the ledger and then write a record of their own.  The ledger is       *)
(* LedgerOps's: a post is one step, as a SERIALIZABLE transaction is.       *)
(*                                                                          *)
(* There is one room.  The coins an account spends on it are those it was   *)
(* rewarded with.  An Idempotency-Key is used by one account and for this   *)
(* room, as clients make them up; the code takes whatever transaction the   *)
(* key has for the charge.                                                  *)
(****************************************************************************)
EXTENDS Calls

CONSTANTS
    ClientKeys,     \* the Idempotency-Key headers of an account
    Prices,         \* what the host may ask, in coins
    RewardCoins     \* coins for a referrer

ASSUME PremiumAssumption == Prices \subseteq Nat /\ RewardCoins \in Nat

VARIABLES
    ledger,
    room,           \* the host, and the price: 0 when the room is free
    unlocks,        \* feed_premium_unlocks: accounts
    claims,         \* referral_claims: accounts that have used their one claim
    rewards         \* referrals: referrer and referred

premiumVars == <<ledger, room, unlocks, claims, rewards>>

UnlockKey(a, c) == <<"unlock", a, c>>
ReferralKey(a) == <<"referral", a>>
LedgerKeys == {UnlockKey(a, c) : a \in AccountIds, c \in ClientKeys}
                \cup {ReferralKey(a) : a \in AccountIds}

M == INSTANCE LedgerOps WITH Users <- AccountIds, Keys <- LedgerKeys

PremiumInit ==
    /\ ledger = M!NewMemLedger
    /\ room \in [host : AccountIds, price : {0}]
    /\ unlocks = {} /\ claims = {} /\ rewards = <<>>

-----------------------------------------------------------------------------
(* SetRoomPremium, of the host *)
SetRoomPremium(price) ==
    /\ Serve("premium")
    /\ room' = [room EXCEPT !.price = price]
    /\ UNCHANGED <<call, ledger, unlocks, claims, rewards>>

(* UnlockRoom: the room is read, then the unlocks; the price is the one read *)
UnlockRoom(k, a, c) ==
    /\ room.price > 0 /\ a # room.host
    /\ Begin("premium", k, [op |-> "unlock", pc |-> "look", by |-> a, key |-> UnlockKey(a, c),
                            price |-> room.price])
    /\ UNCHANGED premiumVars

HasUnlocked(k) ==
    /\ At(k, "unlock", "look")
    /\ IF call[k].by \in unlocks THEN Answer(k) ELSE Goto(k, "charge")
    /\ UNCHANGED premiumVars

(* main's unlockRoomCoins *)
UnlockRoomCoins(k) ==
    /\ At(k, "unlock", "charge")
    /\ LET r == M!Post(ledger, "premium_unlock", call[k].key,
                       M!SpendEntries(call[k].by, room.host, call[k].price)) IN
       /\ ledger' = r.ledger
       /\ IF r.err = "nil" THEN Goto(k, "record") ELSE Answer(k)
    /\ UNCHANGED <<room, unlocks, claims, rewards>>

RecordUnlock(k) ==
    /\ At(k, "unlock", "record")
    /\ unlocks' = unlocks \cup {call[k].by}
    /\ Answer(k)
    /\ UNCHANGED <<ledger, room, claims, rewards>>

-----------------------------------------------------------------------------
(* ClaimCode *)

(* Mutant of ClaimCode: the one claim is recorded and not asked about. *)
ClaimOften(k, a, referrer) ==
    /\ a # referrer
    /\ Begin("referral", k, [op |-> "claim", pc |-> "credit", by |-> a, for |-> referrer])
    /\ claims' = claims \cup {a}
    /\ UNCHANGED <<ledger, room, unlocks, rewards>>

(* TryClaim inserts the claim, or finds that there is one *)
ClaimCode(k, a, referrer) ==
    /\ a # referrer
    /\ a \notin claims
    /\ Begin("referral", k, [op |-> "claim", pc |-> "credit", by |-> a, for |-> referrer])
    /\ claims' = claims \cup {a}
    /\ UNCHANGED <<ledger, room, unlocks, rewards>>

(* main's referralCreditCoins *)
ReferralCreditCoins(k) ==
    /\ At(k, "claim", "credit")
    /\ ledger' = M!Post(ledger, "referral_reward", ReferralKey(call[k].by),
                        M!CreditEntries(call[k].for, RewardCoins)).ledger
    /\ Goto(k, "record")
    /\ UNCHANGED <<room, unlocks, claims, rewards>>

RecordReward(k) ==
    /\ At(k, "claim", "record")
    /\ rewards' = Append(rewards, [referrer |-> call[k].for, referred |-> call[k].by])
    /\ Answer(k)
    /\ UNCHANGED <<ledger, room, unlocks, claims>>

PremiumNext ==
    \/ \E p \in Prices \cup {0} : SetRoomPremium(p)
    \/ \E k \in Slots, a \in AccountIds, c \in ClientKeys : UnlockRoom(k, a, c)
    \/ \E k \in Slots, a, b \in AccountIds : ClaimCode(k, a, b)
    \/ \E k \in Slots :
        \/ HasUnlocked(k) \/ UnlockRoomCoins(k) \/ RecordUnlock(k)
        \/ ReferralCreditCoins(k) \/ RecordReward(k)

-----------------------------------------------------------------------------
Txs == {ledger.byID[i] : i \in 1..ledger.seq}
Charged(a) == \E t \in Txs : t.kind = "premium_unlock" /\ M!Coins(a) \in DOMAIN t.entries
Credited(a, b) == \E t \in Txs : /\ t.kind = "referral_reward" /\ t.key = ReferralKey(b)
                                 /\ t.entries = M!CreditEntries(a, RewardCoins)
InHand(op, a) == \E k \in Slots : call[k].op = op /\ call[k].by = a

(* Records and money agree.  Who is let into the room was charged, and a referral on
   record was credited to that very referrer, one for each account that claims,
   however claims and unlocks overlap and wherever one is cut short; and when none
   was cut short, every charge and every claim has its record once the request is
   done (feedsvc UnlockRoom, referralsvc ClaimCode: "This is the only ordering that
   can never double-credit a referrer"). *)
RecordedIsPosted ==
    /\ \A a \in unlocks : Charged(a)
    /\ \A i \in DOMAIN rewards : Credited(rewards[i].referrer, rewards[i].referred)
    /\ \A i, j \in DOMAIN rewards : rewards[i].referred = rewards[j].referred => i = j
    /\ failed = 0 => \A a \in AccountIds :
        /\ Charged(a) /\ ~InHand("unlock", a) => a \in unlocks
        /\ a \in claims /\ ~InHand("claim", a)
                => \E i \in DOMAIN rewards : rewards[i].referred = a
=============================================================================
