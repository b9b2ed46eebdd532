----------------------------- MODULE LedgerOps -----------------------------
(***************************************************************************)
(* The double-entry ledger of src/ledger as operators on a ledger value:   *)
(* the record MemLedger keeps behind its mutex (mem_ledger.go), what       *)
(* PostTransaction and ReverseTransaction do to it, and the entries the    *)
(* services of the economy post.  Ledger.tla makes a state machine of it;  *)
(* the modules of the services that move money (orders, calls, payouts)    *)
(* use the same operators on the ledger they share.                        *)
(*                                                                         *)
(* A transaction's entries are a function from the accounts it touches to  *)
(* signed amounts: every caller in src/ gives each account at most one     *)
(* leg.  The account determines the currency, as in every caller.          *)
(***************************************************************************)
EXTENDS Integers, Sequences, FiniteSets, Functions

CONSTANTS
    Users,      \* account ids of people
    Keys        \* idempotency keys

(* The people who have accounts at any time are finitely many. *)
ASSUME UsersAssumption == IsFiniteSet(Users)

-----------------------------------------------------------------------------
(* Accounts: ledger.go's UserCoinsAccount, UserDiamondsAccount and the      *)
(* three platform control accounts.                                         *)

Coins(u) == <<"coins", u>>
Diamonds(u) == <<"diamonds", u>>
Revenue == <<"platform", "revenue">>
Liability == <<"platform", "liability">>
DiamondLiability == <<"platform", "diamond_liability">>

PlatformAccounts == {Revenue, Liability, DiamondLiability}
Wallets == {Coins(u) : u \in Users} \cup {Diamonds(u) : u \in Users}
Accounts == Wallets \cup PlatformAccounts

CoinAccounts == {Coins(u) : u \in Users} \cup {Revenue, Liability}
DiamondAccounts == {Diamonds(u) : u \in Users} \cup {DiamondLiability}

(* The kinds of transaction src/ posts. *)
Kinds == {"promo", "gift", "premium_unlock", "purchase", "referral_reward", "pv_call",
          "payout", "payout_reversal", "reversal"}

IsEntries(e) == DOMAIN e \subseteq Accounts /\ e \in [DOMAIN e -> Int]

(* A transaction: `of' is metadata's reversed_transaction_id, 0 when it     *)
(* reverses nothing.  The transaction tx-<n> is byID[n].                    *)
IsTransaction(t) ==
    /\ t \in [kind : Kinds, key : Keys, entries : {t.entries}, of : Nat]
    /\ IsEntries(t.entries)

HistoryItem == [tx : Nat, amount : Int]

(* MemLedger's maps.  byKey[k] = 0: no transaction under key k; the domain  *)
(* of reversalOf is the set of ids that have been reversed.                 *)
IsLedger(L) ==
    /\ L \in [balances : [Accounts -> Int], seq : Nat, byID : {L.byID},
             byKey : [Keys -> 0..L.seq], byAcct : [Accounts -> Seq(HistoryItem)],
             reversalOf : {L.reversalOf}]
    /\ L.byID = [i \in 1..L.seq |-> L.byID[i]]
    /\ \A i \in 1..L.seq : IsTransaction(L.byID[i])
    /\ DOMAIN L.reversalOf \subseteq 1..L.seq
    /\ L.reversalOf \in [DOMAIN L.reversalOf -> 1..L.seq]

NewMemLedger ==
    [balances   |-> [a \in Accounts |-> 0],
     seq        |-> 0,
     byKey      |-> [k \in Keys |-> 0],
     byID       |-> << >>,
     byAcct     |-> [a \in Accounts |-> << >>],
     reversalOf |-> << >>]

-----------------------------------------------------------------------------
(* postLocked *)

(* The entries' sum over the accounts of one currency. *)
SumOver(f, S) == SumFunctionOnSet(f, DOMAIN f \cap S)

(* Mutant of Balanced: the per-currency check forgets the coins. *)
BalancedInDiamonds(entries) == SumOver(entries, DiamondAccounts) = 0

Balanced(entries) ==
    /\ SumOver(entries, CoinAccounts) = 0
    /\ SumOver(entries, DiamondAccounts) = 0

(* Mutant of Proposed: the platform's balances are left alone. *)
ProposedForWallets(L, entries) ==
    [a \in Accounts |-> L.balances[a] + (IF a \in DOMAIN entries \ PlatformAccounts
                                         THEN entries[a] ELSE 0)]

(* An account's balance once the entries are applied. *)
Proposed(L, entries) ==
    [a \in Accounts |-> L.balances[a] + (IF a \in DOMAIN entries THEN entries[a] ELSE 0)]

(* Mutant of Covered: looks at the balance before the entries. *)
CoveredBefore(L, entries) ==
    \A a \in DOMAIN entries \ PlatformAccounts : L.balances[a] >= 0

Covered(L, entries) ==
    \A a \in DOMAIN entries \ PlatformAccounts : L.balances[a] + entries[a] >= 0

(* Why a new transaction is refused, in the order of the code's checks. *)
PostError(L, entries) ==
    CASE DOMAIN entries = {}  -> "ErrTransactionEmpty"
      [] ~ Balanced(entries)  -> "ErrUnbalancedTransaction"
      [] ~ Covered(L, entries) -> "InsufficientBalanceError"
      [] OTHER -> "nil"

(* Nothing stops the new transaction: balances, the key, the id and every   *)
(* touched account's history change together.                               *)
Applied(L, kind, key, entries, of) ==
    LET id == L.seq + 1
        tx == [kind |-> kind, key |-> key, entries |-> entries, of |-> of] IN
    [balances   |-> Proposed(L, entries),
     seq        |-> id,
     byKey      |-> [L.byKey EXCEPT ![key] = id],
     byID       |-> [i \in 1..id |-> IF i = id THEN tx ELSE L.byID[i]],
     byAcct     |-> [a \in Accounts |->
                        IF a \in DOMAIN entries
                        THEN Append(L.byAcct[a], [tx |-> id, amount |-> entries[a]])
                        ELSE L.byAcct[a]],
     reversalOf |-> L.reversalOf]

(* What a call returns: the ledger it leaves, the transaction it names      *)
(* (0: none), whether that one is new, and the error.                       *)
Reply(L, id, isNew, err) == [ledger |-> L, tx |-> id, isNew |-> isNew, err |-> err]

(* Mutant of PostLocked: no look at the key. *)
PostLockedAfresh(L, kind, key, entries, of) ==
    IF PostError(L, entries) # "nil" THEN Reply(L, 0, FALSE, PostError(L, entries))
    ELSE Reply(Applied(L, kind, key, entries, of), L.seq + 1, TRUE, "nil")

PostLocked(L, kind, key, entries, of) ==
    IF L.byKey[key] # 0 THEN Reply(L, L.byKey[key], FALSE, "nil")
    ELSE IF PostError(L, entries) # "nil" THEN Reply(L, 0, FALSE, PostError(L, entries))
    ELSE Reply(Applied(L, kind, key, entries, of), L.seq + 1, TRUE, "nil")

Post(L, kind, key, entries) == PostLocked(L, kind, key, entries, 0)

-----------------------------------------------------------------------------
(* ReverseTransaction *)

Negated(entries) == [a \in DOMAIN entries |-> - entries[a]]

(* Why a reversal under an unused key is refused before it is posted. *)
ReverseError(L, id) ==
    CASE id \notin 1..L.seq      -> "ErrTransactionNotFound"
      [] L.byID[id].kind = "reversal"   -> "ErrCannotReverseAReversal"
      [] id \in DOMAIN L.reversalOf    -> "ErrAlreadyReversed"
      [] OTHER -> "nil"

NoteReversal(L, id, reversal) ==
    [L EXCEPT !.reversalOf = [i \in DOMAIN L.reversalOf \cup {id} |->
                                 IF i = id THEN reversal ELSE L.reversalOf[i]]]

Reverse(L, id, key) ==
    IF L.byKey[key] # 0 THEN Reply(L, L.byKey[key], FALSE, "nil")
    ELSE IF ReverseError(L, id) # "nil" THEN Reply(L, 0, FALSE, ReverseError(L, id))
    ELSE LET r == PostLocked(L, "reversal", key, Negated(L.byID[id].entries), id)
         IN  IF r.isNew THEN [r EXCEPT !.ledger = NoteReversal(r.ledger, id, r.tx)] ELSE r

-----------------------------------------------------------------------------
(* The entries each service posts.  Integer division rounds down, as Go's   *)
(* does on these non-negative amounts.                                      *)

PlatformTakeBPS == 3000
DiamondsPerThousandCoins == 700

PlatformShare(gross) == (gross * PlatformTakeBPS) \div 10000
CreatorDiamonds(gross) ==
    ((gross - PlatformShare(gross)) * DiamondsPerThousandCoins) \div 1000

(* giftsvc.SendGift, unlockRoomCoins and pvsvc's charge: coins become the    *)
(* platform's share and the creator's diamonds, issued against the          *)
(* diamond liability.                                                       *)
SpendEntries(payer, creator, gross) ==
    [a \in {Coins(payer), Revenue, Liability, Diamonds(creator), DiamondLiability} |->
        CASE a = Coins(payer)      -> - gross
          [] a = Revenue           -> PlatformShare(gross)
          [] a = Liability         -> gross - PlatformShare(gross)
          [] a = Diamonds(creator) -> CreatorDiamonds(gross)
          [] a = DiamondLiability  -> - CreatorDiamonds(gross)]

(* Order credits, referral rewards and promotional top-ups: coins issued    *)
(* against the coin liability.                                              *)
CreditEntries(u, coins) ==
    [a \in {Coins(u), Liability} |-> IF a = Liability THEN - coins ELSE coins]

(* postPayout: diamonds leave the creator and the liability shrinks. *)
PayoutEntries(u, diamonds) ==
    [a \in {Diamonds(u), DiamondLiability} |->
        IF a = DiamondLiability THEN diamonds ELSE - diamonds]
=============================================================================
