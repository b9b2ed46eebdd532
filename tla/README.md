# Lumena Live: TLA+ models and proofs

Specifications of the parts of the Go backend that carry its own logic, with the
TLC runs that check them on small instances and TLAPS proofs of the properties that
must hold for every instance. Paths are relative to the repository root.

`PROJECT.json` lists components, runs, mutants, theorems, hazards and findings, and
maps every definition to the lines it models.

## 1. The system

One process (`feed/cmd/api/main.go`) wires a set of services, each with a repository
that exists twice: a map behind a mutex, and Postgres tables (the store of sign-in codes is a
map without a mutex, `auth/otp/otp.go:171-231`, in both cases). Services call each other
through functions injected in `main.go`; the ledger is what most of them meet in.

| component | state | operations | what is hard | what makes it correct |
|---|---|---|---|---|
| In-memory ledger (`ledger/mem_ledger.go`) | balances, per-account history, transactions by id and by key, reversal index, sequence | post, reverse, snapshot, restore | restart forgets the keys; refunds of spent money | books balance, no wallet below zero, one refund per transaction, history append-only |
| Postgres ledger (`ledger/pgrepo`) | the same as rows, `ledger_reversals` | the same, statement by statement | two calls at once, serialization failures, lost connections | is an atomic ledger |
| Coin orders (`ledger/ordersvc`, `ordpgrepo`, `reconciler`, `store`) | order rows, store purchases, the ledger | create, verify, reconcile | retries against the reconciler, stale copies, crash between payment and credit | coins only for a payment, once, to one order, and eventually |
| Gifts, premium charges (`ledger/giftsvc`) | none of their own | one ledger post | rounding of the platform's share | entries balance |
| Private calls (`pv`) | sessions, the ledger | request, accept, decline, end | doubled requests, stale sessions, money moved meanwhile | hold before ring, hold given back, only a taken call is billed |
| Creator payouts (`creator`) | KYC, profiles, payouts, the ledger | submit, approve, request, review | checks long before the debit, concurrent admins, a review cut off | the state machine, reversal iff returned, hold period |
| Local state file (`feed/cmd/api/localstate.go`) | snapshots of five repositories | periodic and final save, load | torn snapshots, kills during a save | what a finished save holds outlives a restart, under its owner |
| Spend limits (`ledger/spendlimits.go`, `ledger/handlers/orders.go`) | caps, pending caps, cooling-off | change, resolve, check | read-change-store without a lock, check before the order exists | caps tighten at once and loosen late; purchases keep to them |
| Gateway (`gateway/ws`, `gateway/bus`) and its client (`webui.go`) | topics with sequence numbers and replay, connections, viewer counts | publish, subscribe, backfill, close | full buffers, reconnects, order of updates | a client misses nothing it can still ask for; counts match subscribers |
| Streaming (`streaming`) and video in a room (`webui.go`) | broadcast sessions; peer connections of the host's page | start, live, end, terminate; offer, answer | late callbacks, effects that run several events later | the first ending stays; every viewer is offered the video |
| Match (`match`) | requests, candidates, exclusions, preferences | request, decide, cancel | two sides deciding at once | a match needs both |
| Chat (`chat`) and its page | conversations, messages, receipts | start, send, accept, decline, read, delete | block racing a message, retries, lost sockets | one message per client id, in order, and on its way to the page |
| Auth (`auth`) | accounts, passwords, sessions, challenges | sign in and up, refresh, log out, delete | concurrent refreshes, checks of one code | a revoked session stays out, a code works once |
| Moderation and risk (`moderation`), fraud (`fraud`) | reports, enforcements, appeals, risk profiles, device uses | report, enforce, appeal, decide, signal | decide then reinstate, read-modify-write | one outcome per appeal, shared conduct shows on all profiles |
| Admin console (`admin`) | roles, audit log, tickets | reply, resolve, delegate | replies crossing | the status shows whose turn it is |
| Feed and rooms (`feed`), referral (`referral`) | rooms, unlocks, claims, rewards | create, end, page, unlock, claim | charge then record; rooms that end between pages | paid iff unlocked; pages make up one ranking |
| Profile and graph (`profile`) | profiles, settings, follows, blocks | edit, follow, block | others ask while it changes | blocks are honoured everywhere |
| Rollout, analytics, translate | flags, event log | mostly single writes | little | not modelled |

`backend/`, `ledger/internal` and `streaming/internal` are earlier drafts that the running
binary does not import. `tools/loadtest` is a client.

Interactions: orders, calls, payouts, premium rooms and referrals post to the ledger
through `Repo.PostTransaction` under a key of their own (`order-`id, the client's
Idempotency-Key, `pv-hold-reverse-`id, `pv-settle-`id, `payout-reversal:`id). A client's key
is one name for whatever it is sent with: gifts, unlocks, payouts and calls share them. Gifts and
calls publish on the bus; admin and moderation call back into accounts, rooms and streams.

## 2. Modules

| module | models |
|---|---|
| `LedgerOps` | accounts, and `postLocked` / `ReverseTransaction` as operators from a ledger to a reply; the entries the services post |
| `Ledger` | MemLedger with its state file: post, reverse, save, restart |
| `AtomicLedger` | what `ledger.Repo` promises: a transaction takes effect at once, wholly, and covered |
| `LedgerPg` | pgrepo, statement by statement; refines `AtomicLedger` |
| `Orders` | `advance()` by clients and reconciler over the order table, the stores and the ledger |
| `PvCall` | pvsvc over its sessions and the ledger |
| `Payouts` | creatorsvc over KYC, profiles, payouts and the ledger |
| `Gateway` | the bus, hub connections and the web client over a room and the accounts' own topics |
| `Platform` | the services that share accounts, graph or ledger, serving requests at the same time; composes the modules below |
| `Calls` | requests in flight: slots, steps, early ends, and the load of a run |
| `Social`, `Chat`, `Match` | blocks and follows; conversations and messages, and the page that shows one over the gateway's `MESSAGE` frames; searching and deciding |
| `Auth`, `SignIn` | sessions; codes sent to a phone, and signing in and up by code or password |
| `Moderation`, `Streaming`, `Risk`, `Desk` | enforcements and appeals; broadcast sessions; risk profiles with the fraud rules; tickets |
| `Premium`, `SpendLimits` | rooms that cost and referrals over `LedgerOps`; limits, and creating orders under them |
| `Feed`, `Broadcast`, `LocalState` | paging through ranked rooms; video of a room; the state file |
| `Stores` | twin stores: one request put to the in-memory and to the Postgres repository |
| `People`, `Inbox`, `Casework`, `Rooms`, `Earnings`, `Accounts` | the twins of profile and graph, chat, moderation, feed, creator and auth; those of match and admin are the second halves of `Match` and `Desk` |
| `MC*` | the instances TLC checks |
| `LedgerOpsProofs` | lemmas about sums over finite sets, and about the operators of `LedgerOps` |
| `LedgerProofs`, `LedgerPgProofs`, `OrdersProofs`, `PayoutsProofs`, `PvCallProofs`, `GatewayProofs`, `PlatformProofs` | the theorems about the module each is named after |

### LedgerOps and Ledger

A ledger is a record of MemLedger's maps: `balances`, `byAcct` (history per account),
`byID` (ids are 1, 2, ... in order of posting), `byKey` (0: unused), `reversalOf`, `seq`. A
transaction's entries are a function from accounts to amounts; the one simplification is
that a transaction names an account once, which every caller in the code does. `PostLocked`
keeps the order of the code's checks: key, empty, balanced per currency, covered. Only
user wallets are checked for cover: platform accounts may go negative (`isPlatformAccount`).
MemLedger's operations run under one mutex and are one action each. `Save` is one step, for
the file is renamed into place. `Restart` is a crash or a clean stop at any moment: all since
the last save is lost, and `byKey` is always lost, since the snapshot leaves it out.
`boot` is where this process began, so that idempotency can be stated for the life of a
process, which is what the code offers.

### AtomicLedger and LedgerPg

`ledger` holds committed rows. A post is `Begin` (the transaction's snapshot, the lookup of
the key, the balances) and `Commit`; `Conflict` is Postgres' serializable isolation, modelled
from how the code depends on it: a commit that read a balance somebody has changed since
does not succeed. `Postable` is the check that stands before the retries: a post starts only
with balanced, non-empty entries (a reversal's are negated ones, checked when it gets
there). A refused commit fails with 40001 (`SerializationFailure`, tried again a bounded
number of times) or, when the key is taken, with 23505 (`KeyTaken`). A reversal is five steps
on the pool. `Abandon` stops a call between any two. `ImplementsAtomicLedger` maps the
committed transactions and balances to `AtomicLedger`.

### Orders

`order` is the table, `store` what was bought and how each purchase stands, `run` each
goroutine's `advance()` with its own copy of the row, `batch` what RunOnce has still to do.
Every repository call, the call to the store and the ledger post is a step; every write
stores the whole copy, which is how the code loses another run's update. `Crash` stops all
goroutines and keeps rows and ledger; `Abandon` stops one client's request. Postgres is what
production runs on, so `UniqueIndexRefuses` is the partial unique index. The answer of a
verifier is `Confirm`, `Reject` or `NotYet`, constrained only by what was bought. The lookup
for another order with the token may fail at any time, and then counts as having found none
(`ordersvc/service.go:196` drops its error).

### PvCall

`run` is a request goroutine with a loaded copy of a session; accept, decline and end load
in one step and write later, with the ledger calls between. A request's key is the client's
Idempotency-Key as it came, which is also the ledger's key: `ChargeHold` gets the transaction
that stands under it, whoever it was for, and `RequestSession` may send any key with any
caller, callee and rate. Nothing compares the two (`pvsvc/service.go:107-113,146`).
`named` is the `session_id` in the metadata of that transaction, by which a retry is answered.
The four gates are one nondeterministic refusal. `SpendElsewhere` and `CashOut` move money
meanwhile: a gift takes the caller's coins, under a key that a later call may send again, and a
payout takes the callee's diamonds, so that the hold can no longer be given back.

`ReverseHold` and `Bill` go on whatever the ledger answers (`pvsvc/service.go:323`, `:306-311`).
A refusal is the ledger's; a failure (a lost connection, retries used up) may come at any time,
before or after the posting took effect. A goroutine may also stop at any step (`Abandon`).
`failures` counts all of these and bounds them. Three variables are history: `accepted`, `uses`
(what clients were answered with under each key) and `lost` (the sessions a reversal of whose
hold failed). Interchangeable idle goroutines are taken in order.

### Payouts

`RequestPayout` reads the gates and the history in one step, then balance, in-flight total,
debit and stored payout are steps of their own. `aged` is the hold period's cutoff as a
position in the history, and only grows, to a transaction that credits a creator (no other
transaction's age is read). An approval, processing or paid transition loads
the payout, checks, and checks again in the lock; reject and fail hold the lock from the check
(`ReversePayout`) to the commit (`CommitReview`), and `CutReview` is the commit that never
happens although the reversal, posted by a transaction of its own, is there.

`Orders`, `PvCall` and `Payouts` post through `LedgerOps` in one step. `LedgerPg` is the
reason this is sound for posting. Its finding about reversals does not reach them: each uses
one reversal key per payout or session, and the property it breaks concerns two keys for one
transaction. In `PvCall` two sessions can share one hold and so reverse it under two keys:
there the model has the guarantee of the in-memory ledger.

### Gateway

`seq` and `ring` are the bus; publishing numbers the event and hands it to every subscriber's
buffer in one step, under the topic's lock, and drops it where the buffer is full. A
connection has its subscriptions (`chans`, each with a buffer and a forwarding goroutine),
one send buffer, and what its read goroutine is in the middle of (`pc`, `todo`): subscribing,
acknowledging and counting the viewer are steps of their own, and so are the steps of
closing. `app` is the web client: its socket, what it shows, the one highest number it keeps
and the ring of ids it has seen. `taken` is auxiliary: every event of the room that the page was
ever given. A connection may break at any step.

Accepted by the model as the code has it: the ring of ids seen is shared by all topics
(`docs/08_WEBSOCKET_PROTOCOL.md:235` says per topic), and an event that is dropped and
followed by one that fits is never asked for (`hub.go:362-365`). After `CATCHUP_REQUIRED` the
page is emptied and its number goes back to 0 (`webui.go:331-336`), but the ids it has seen
stay (`webui.go:210-218`), so that a replay may bring events which the page passes over as
duplicates and shows no more. `NoGapSinceTheAck` therefore says that an event has been given
to the page (`taken`), is on its way, or was lost to a full buffer, and not that it is shown:
in terms of what is shown it fails, first after 31 steps with 3 connections and 4 events.

### Platform

`Calls` gives the form: `call[k]` holds the local variables of the request in slot `k`, and a
service has one action for each step between two repository calls, because no service keeps
a lock from one to the next. A request that is one repository call is one action (`Serve`).
`CutShort` ends a request after any step: its context is cancelled, a call fails, or the
process goes down. Repositories are those of the deployment, Postgres; `LocalState` is the
process without a database, and `SignIn` uses the in-memory store, which is the one
`main.go` passes in both cases. A `load` says which parts get requests, how many, and how
many end early; that keeps the product of services that share nothing out of the run.

- `Social`, `Chat`, `Match` meet in blocks: `call[k].open` is auxiliary and says whether there
  was a moment without a block since the request came in. `Chat` has the transaction of
  `SendMessage` with both unique constraints; a statement waits for another transaction
  that holds the row. `Match` has the offers to both sides, the mirror that `Decide` looks
  for, and exclusions.
- `Chat`, the page: it loads the oldest `HistoryLimit` messages once, then shows what arrives;
  it never asks for what it missed. A publication goes through the subscription's channel and the
  connection's send buffer, both bounded by `PageBuffer`, and is lost where there is no room
  (`Publish`, `forward`), as in `Gateway`; `dropped` is auxiliary and holds what was lost so.
- `Auth`, `Moderation`, `Streaming`: a session that was ever revoked (`revokedOnce`) against
  refreshes that read it before; enforcement and appeal as calls to the account; the host,
  the ingest node and the classifier writing one broadcast's state.
- `SignIn`: a challenge is read, compared and stored back unlocked. `crossed` marks
  codes with two checks under way. The account looked for, or made, is that of the number
  the client sends with the code (`authsvc/service.go:182-186`), not of the challenge's.
- `Premium`, `SpendLimits`: `LedgerOps` is the ledger. `missed` marks an order or
  a row that was stored while another was between its check and its store.
- `Feed`: `view` is one web client, whose answers come in any order. Any order of the live
  rooms may come out of the ranking.
- `Risk`: a profile is read and stored back; a cluster is looked up after the device is noted.
- `Desk`: an answer and the status that follows it are two steps.
- `Broadcast`: the host's page works off its list of join and leave events when React renders.
- `LocalState`: the snapshots are taken one after another, written to `.tmp`, then renamed; a
  kill may come between any two.

### Twin stores

`Stores.twins` holds what the in-memory repository has (`mem`) and what the tables have
(`pg`). `Ask` puts one request, with the service code around it, to both; `twins.alike` says
whether all answers were the same so far. Each twin module writes a repository twice, in the
form of its own code: maps and indexes on one side, rows that are searched, sorted and joined
on the other; and its `...ReadAlike` compares every list and lookup, cursors included. Where
the code is known to differ, `AskKnowing` names the difference and `StoresAgree` says nothing
about what comes after; ids that only look different are compared by what they stand for.

Differences the twins name, or leave out of the comparison:

| where | difference |
|---|---|
| profile (`People`) | named "half an update is kept": in memory `Update` changes the name before it refuses the handle. Named "settings need a profile": `privacy_settings` has a foreign key to `profiles` (`0003_profile.sql:21`) and the privacy routes do not make one |
| graph (`People`) | compared as sets: lists are newest first in memory, by id and joined with `profiles` in Postgres; in memory names in lists are ids, counts of followers are 0, and a cursor skips one follower per page (`profile/social/social.go:395`). Search pages are not compared: in memory they follow map order |
| chat (`Inbox`) | "delete for me" hides nothing from the deployment's history (`message_deletes` is never read by the list); a conversation cursor is an id in memory, a sequence number in Postgres |
| match (`Match`) | order of the history; whether an exclusion holds at the very instant it ends |
| moderation (`Casework`) | in memory only the latest appeal of an enforcement is asked about (the index `0008_moderation.sql` speaks of) |
| admin (`Desk`) | tickets and messages share a counter in memory |
| rooms (`Rooms`) | ids are written differently; in memory there are fifteen rooms before the first |
| auth (`Accounts`) | named "a token of no row panics": pgrepo's `GetSession` answers neither row nor error for an unknown or rotated token, and `RefreshTokens` and `Logout` use it. Named "sessions of a device share an id": in memory a rotated token leaves a revoked session under the device's id. Named "an update of no row is no error". `is_new_account` is never cleared in Postgres and is left out |

## 3. Runs

All runs explore the whole state space of their instance.

| run | instance | distinct states | shows |
|---|---|---|---|
| `ledger` | 2 users, 3 keys, 5 transactions; requests: a top-up, a gift of 50 out of 60 coins, a payout, an unbalanced and an empty one | 31 thousand | `ZeroSum` per currency, `NoOverdraft`, `BalanceIsHistory` (IntegrityCheck), `KeyRemembersItsTransaction`, `RefundedOnce`, `AppendOnly` |
| `ledger_pg` | 2 calls, 4 keys, 4 transactions, 2 tries | 333 thousand | `AnswersNameTheirKey`, refinement of `AtomicLedger` (which gives no overdraft and true reversal rows) |
| `orders` | 2 clients, reconciler, 2 orders offered one purchase that fits one or both, 1 crash | 201 thousand | `CreditedWasPaid` (with the posting and the token of one order), `CreditedOnce`, liveness `PaidIsCredited` |
| `pv_calls` | 2 goroutines, 1 client key, sent with calls at 2 rates or with a gift, 2 sessions, 2 minutes, 1 other movement of money, 1 failure | 392 thousand | `HeldBeforeRing`, `HoldReleasedFirst`, `OnlyTakenCallsAreBilled`, liveness `CallsCanBeHungUp` |
| `payouts` | 1 creator, 1 gift, 2 keys, 2 requests, 1 admin, 2 payouts, 1 cut | 1.0 million | `NoneBeforeTheHold`, `ReversedIffReturned`, `AlongTheStateMachine` |
| `gateway` | 2 accounts, 2 connections, 3 events of the room, 1 frame, buffers of 1 and 3 | 631 thousand | `InOrder`, `NoGapSinceTheAck`, `CountIsSubscribers` |
| `platform` | the loads of `MCPlatform`, below | 682 thousand | `TypeOK` and the 17 properties below |

`pv_calls` and the payout runs switch deadlock off: when every session is over, or every
payout decided and the bounds used up, nothing is left to do. `gateway` and `platform` do so
because frames and requests run out.

What `platform` checks, by the parts that are loaded together:

| parts | properties |
|---|---|
| follow, block, start, chat, marks; block, match | `ContactsAreOpen`: no contact under a block that was there all along. `DeliveredOnceInOrder`: messages are numbered without a gap and stored once per client id |
| chat, thread | `AnsweredAreOnTheirWay`: when a frame is answered without an error its message is on the subscribed page, on its way there, or was lost to a full buffer; nothing else loses it while the connection lasts |
| match | `MatchedIffMutual` |
| auth; auth, moderation; moderation; moderation, streaming | `RevokedStaysOut`, `UpheldIsNotReinstated`, `EndingsAreKept` |
| signin | `CodesWorkOnce`: a code gets one account in, and not after too many wrong ones |
| premium, referral | `RecordedIsPosted` |
| caps; caps, orders; cooling, orders; orders | `RaisesWait`, `PurchasesKeepToLimits` |
| feed | `PagesMakeOneRanking` |
| broadcast | `ViewersAreOffered` |
| local | `SavedIsKept` |
| risk | `SharedConductIsSeen` |
| desk | `StatusShowsWhoseTurn` |
| people, inbox, pairing, casework, helpdesk, rooms, earnings, accounts | `StoresAgree` |

Several of these exempt an interleaving in which the code does go wrong, by an auxiliary
variable that says so (`crossed`, `missed`, `tangled`); section 5 lists what is exempted.

Bounds. Four or five transactions suffice to fill a wallet, spend from it, refund and try to
refund again, with a restart in between. The code retries serialization failures 5 times;
2 is the smallest bound at which a retry happens and a call can still run out of them. Two
orders and one token are what a replayed token needs. Two sessions for one key are what a
doubled request makes, and two goroutines what any stale copy needs. In `pv_calls` the
caller opens with 15 coins and asks for a call at 10, where the first minute is affordable and
the second is not, or at 20, of which no minute is: such a session is stored only with what its
key has paid for already. One failure is enough to lose a reversal that the ledger would have
granted, or to post one and lose the answer. Two payouts are what a request repeated under one key makes. A gift of 30
coins brings 14 diamonds, the amount withdrawn and the minimum. Permutations of keys, calls
and requests are taken as symmetric only in runs without liveness.

`gateway`: two connections are what a reconnect makes, a buffer of one event overflows at the
second, three events of the room are one shown, one missed and one later, and the ring of ids
holds 4. `platform`: three accounts and two slots, taken as symmetric: two requests that
overlap are what a stale read needs, and the third account is the one that shares a device,
makes a cluster or is offered in another's place. A load has two to four requests and at most
one that ends early (seven for `earnings`, where a payout takes six to be paid). Limits of the
code that are configuration are small: 2 codes sent, 2 attempts, 2 reports, an offence that
repeats once, pages of 2, a history of 2, 4 events kept (50 in the code). A raise waits 2 days
of 3. Caps are 100 and 600 coins and packs 100 and 500, so that a cap is met and exceeded.
Client message ids, order keys and idempotency keys are two each: one repeated, one new.
Both buffers of a page hold one message: the second of two publications in a row overflows the
channel, or the send buffer if the first two have been forwarded. There is one phone, one email and one device, which accounts contend for. One ranked tab and
the tab of followed hosts make a late answer that belongs to the other. The inputs of the
twins (handles, names, amounts, destinations, notes) stand at the head of each module,
marked as bounds: one that is accepted and one for each refusal.

Fairness. `Orders`: the reconciler's ticker keeps firing (`reconciler.go:52-66`), so listing,
taking the next order and its goroutine's steps are weakly fair; a store that has confirmed a
purchase is asked again and again and does not withhold the answer for ever, hence strong
fairness of the reconciler's `Confirm`. Nothing is assumed of clients. `PvCall`: among the started
goroutines some one goes on (weak fairness of all their steps together, which any scheduler
gives, written out with `Quiet` for what is otherwise ENABLED; failures are bounded), and while connected calls can be hung up again and again, one of
them is (strong fairness, of the users, not of the code). That the call then really ends,
whether or not the caller can pay and whatever copies are written, is what
`CallsCanBeHungUp` checks.

### Disagreements with the documentation

Each of these runs checks one property that a comment or document states, and TLC finds it
violated.

| run | what is stated | what happens |
|---|---|---|
| `ledger_pg_refund` | "a transaction can be refunded exactly once" (`ledger/ledger.go:43-47`) | pgrepo checks, posts and records a reversal in three transactions: two keys refund one transaction twice |
| `pv_declined` | "the caller never pays for a call nobody took" (`pv/pvsvc/service.go:213-215`) | a refused reversal is dropped, the session is declined all the same |
| `payouts_hold` | "Minimum hold period elapsed since the diamonds were earned" (`docs/11_MONETIZATION_MODEL.md:162`) | old earnings already paid out are counted again, so fresh ones can be withdrawn |
| `gateway_missed` | "Any gap between what we've seen ... and the topic's current seq means there's history to replay" (`feed/cmd/api/webui.go:293-301`) | one highest number is kept over all topics, so events of the account's own topic hide a gap in the room's |
| `payouts_twice` | POST /payouts is "Idempotent" (`docs/07_API_SPECIFICATION.md:247`) | a repeated request stores a second payout over one debit; rejecting both returns it twice |

`NoneBeforeTheHold` and `HoldReleasedFirst` are what does hold next to `payouts_hold` and
`pv_declined`:
no single withdrawal exceeds all that was ever earned and held, and a closed session has
its hold given back, unless the call to the ledger failed (its error is dropped), or whom the hold
paid has been paid his diamonds out. `pv_declined` allows no failure: the refusal is enough.

### Mutants

Every property of a passing run has a mutant: an operator named after the definition it
replaces, standing before it, that errs as a bug there might (`BeginUnchecked` leaves the
balance check out, `NothingRefuses` drops the unique index, `SnapshotWithoutReversals`
forgets to save the reversal index). With it in place TLC finds the property violated.

## 4. Proofs

The theorems hold for any sets of users, keys, clients, connections, ... and any bounds that
satisfy the assumptions each module names; `PROJECT.json` lists them. No property is inductive
alone, so each proof module begins with `IInv`, an invariant that is, and ends with a theorem
`Invariant` from which the others follow; `PlatformProofs` has one such invariant for each
service instead. TLC finds all of them true on the instances of the runs.

| module | theorem | states |
|---|---|---|
| `LedgerProofs` | `TypeCorrect`, `NeverOverdrawn`, `MoneyIsConserved`, `BalancesAreHistories`, `Idempotent`, `RefundsHappenOnce`, `HistoryAppendOnly` | every property of the run `ledger` |
| `LedgerPgProofs` | `AnswersAreTheirOwn`, `Serializable` | `AnswersNameTheirKey`; the refinement of `AtomicLedger` |
| `OrdersProofs` | `CoinsComeFromPurchases`, `NeverCreditedTwice`, `CoinsComeFromPayments` | credited orders were bought; `CreditedOnce`; `CreditedWasPaid` if a client sends one token per order |
| `PayoutsProofs` | `WithdrawalsWaitForTheHold`, `DiamondsComeBackWhenRejected`, `PayoutsMoveAlong` | every property of the run `payouts` |
| `PvCallProofs` | `CallsAreHeldBeforeTheyRing`, `HoldsAreReleasedFirst`, `OnlyTakenCallsArePaid` | the invariants of `pv_calls` |
| `GatewayProofs` | `EventsKeepTheirOrder`, `ViewersAreCounted`, `ReplayAndLiveEventsJoin` | every property of the run `gateway` |
| `PlatformProofs` | `ContactsAreUnblocked`, `MessagesAreNumbered`, `MatchedWhenMutual` | `ContactsAreOpen`, `DeliveredOnceInOrder`, `MatchedIffMutual` |
| | `RevokedSessionsStayOut`, `CodesSignInOnce`, `AppealsAreSettledOnce`, `ReasonsAreKept` | `RevokedStaysOut`, `CodesWorkOnce`, `UpheldIsNotReinstated`, `EndingsAreKept` |
| | `ConductIsSeen`, `TicketsShowWhoseTurn` | `SharedConductIsSeen`, `StatusShowsWhoseTurn` |
| | `RecordsAreOfMoney`, `RaisesHaveWaited` | `RecordedIsPosted`, `RaisesWait` |

Assumptions: `UsersAssumption` (finitely many users), then per module
`RequestsAssumption` and `MaxTxsAssumption`, `PgRequestsAssumption` and `PgBoundsAssumption`
(requests have entries over known accounts and are no reversals by kind), `OrdersAssumption`
(no token is the empty string), `PayoutsAssumption`, `PvAssumption` (there is something to ask
for, a caller does not call himself, and clients send no `pv-settle-` and no `pv-hold-reverse-` key), `GatewayAssumption` (`room:{id}` is no `user:{id}`), and for `Platform`
`AccountsAssumption` (finitely many), `CallsAssumption` (a load is a set of parts and two
numbers), `ActionsAssumption` (the actions are among those there are), `CodesAssumption`
(the number of tries is a natural one), `PremiumAssumption` (so are prices, for feedsvc
refuses one that is not positive, and a referral's reward) and `LimitsAssumption` (so are the
caps asked for, and the days a raise waits). TLC evaluates them on every run. `OneTokenEach` is a hypothesis of `CoinsComeFromPayments` alone.

### Sums

The double-entry law is about sums over a set of accounts, `SumFunctionOnSet` of the community
modules, which is a fold. The library's induction theorems cannot be used here (they take an
operator), so `LedgerOpsProofs` has its own induction, stated first-order: a set of naturals that is
not empty has a least element (`LeastNatural`, from `WFMin`), hence a set of naturals with 0
and every successor is `Nat` (`SetInduction`), and a set of subsets of a finite set that holds
the empty one and grows by one element holds them all (`SubsetInduction`). A table of
the sums over all subsets exists and is unique (`SumTable`, `SumTablesAgree`), and the laws
follow: take one element out, change the function at two places, split pointwise.
It then applies them to what a post does (`AppliedBooks`, `AppliedHistory`,
`PostSound`, `ReverseSound`) and says what each service's entries are (`SpendEntriesAre`,
`PayoutEntriesAre`, ...). All five modules that post use these lemmas.

### Ledger

`IInv`: `Sound` of the ledger in memory and of the state file (because `Restart` makes the
latter the former), the place where the present process began, `KeyRemembersItsTransaction`,
and that the file holds a beginning of the history. `Sound` has the types, `Solvent`,
`RefundsNoted` (a transaction is of kind "reversal" exactly when it has an original, which is
earlier, is no reversal and whose entry in `reversalOf` names this one; single refunds follow,
for two reversals of one original would be one value of `reversalOf`), `BooksClose` and
`HistoryAddsUp`.

### LedgerPg

A call between its statements knows only what it has read. `CallSound` says what of that it may
still rely on: a call about to commit either conflicts with a commit since its snapshot, and
will be refused, or its key is still unused and its entries are still covered. A reversal's
entries stay the negation of its original, since rows do not change. `Serializable` then maps
each step: a successful `Commit` is `AtomicLedger`'s transaction, and all else stutters. The refinement gives no overdraft under any interleaving. The second
refund of `ledger_pg_refund` is no contradiction: `AtomicLedger` asks of a reversal that it has
the opposite entries of an earlier transaction, not that it is the only one.

### Orders

Rows are overwritten by old copies, so nothing can be said about how a row moves. What is
inductive is about each copy alone (`CopySound`), wherever it is: in the table, in a run, in
the reconciler's batch. A copy past "pending" has a purchase of its order, by its client,
that the store confirmed; purchases stay confirmed, so age does not matter. `CoinsAdd` ties each
buyer's balance to the set of credited orders, which grows by one under an order's own key.

`CreditedWasPaid` speaks of the token in the row, and needs more: with two tokens for one order it
is false. TLC's counterexample has 13 steps: one run claims the order with t1, whose purchase
is still pending; the client sends t2, which is verified and credits; the row keeps t1, which
was never paid (`ledger/ordersvc/service.go:189-238`). The coins are paid for, the record of
what paid for them is wrong. So `CoinsComeFromPayments` assumes that a client sends one token per
order, as the run does, and `TokensStand` says what that gives: no stale copy brings another
token, and no two rows share one. `CoinsComeFromPurchases` is what holds for any tokens.

### Payouts

`ReqSound`: what a request has read of the earnings can only grow, so checks made long before
the debit stay true of the earnings (of the balance they do not: `HoldPeriodElapsed` fails, as
`payouts_hold` shows). `ReversalSound`: under a payout's reversal key there is either nothing
or the opposite of its debit, and if it is there, then a review has the row locked, or was
cut, or was committed. The keys of payouts still to come are unused.

### PvCall

A hold stays in place when a session closes if the reversal failed, which `lost` notes, or was
refused, which the ledger does when somebody the hold paid lacks the diamonds. Who that is, is not known
from the session: under a reused key the hold may be a gift to somebody else. So the invariant
keeps every account: unless paid out, it has the sum of what all standing transactions gave it
(`Standing`: no reversals and not reversed), each of them not negative (`DiamondsStand`). A hold
that stands is one of the summands, hence covered; what the theorem says of a refusal is said of
this cause only, and failures need no cause.

What is under a client's key is something the key was used for (`KeysUsed`): a
transaction under it is posted, or found, by an action that notes the use. `HeldBeforeRing` follows
with the hold a run has from `ChargeHold`. `RunSound` says what a stale copy has in common with
its session: the request and the hold never change once stored, and a run that settles knows the
call was taken.

### Gateway

`IInv` follows an event along the way: `Ordered` (what a subscription handed out, has in the
send buffer and in its own channel ascends, and was published), `Polite` (a client subscribes
once at a time and waits for the ack, which is what makes counts exact), `Joined` (from the
snapshot in the ack on every event comes live; what is between the client's number and the
ack is asked for, being answered, in a frame, given, or dropped), and the count as the
cardinality of a set. A replay is a list applied one by one; that all of it is then taken is
`ApplyAll`, a recursive function, treated with the least number at which it would fail.

### Platform

The services share the slots of requests, so a property of one has to survive the steps of
all. The first part of `PlatformProofs` proves once how a step of each service may change a
slot: `Moves(ops)` (a slot stays as it is, or belongs to a request of these kinds before and
after, or ends early) and `Spares(ops)` (requests of these kinds are left alone, or end
early). The frame lemmas (`StandingFrame`, `ContactFrame`, `ApartFrame` and those of
single services) reduce `[Next]_vars` to the steps of one service, and each theorem is then
about that service's actions, for any number of accounts, slots and requests and any load.

- `RevokedStaysOut`, by `SessionsOK`: a request's local variables at each step, and the rows
  they point to. A refresh that found its session revoked is going to revoke the family and
  does nothing else, whatever is written meanwhile.
- `CodesWorkOnce`, by `FairCode`: while its checks never overlapped, a code is checked by one
  request at most, which has the row as it is stored; so tries are counted and a code that
  got somebody in is not stored again.
- `UpheldIsNotReinstated` and `EndingsAreKept`, by `CasesOK`: one pending appeal for an
  enforcement, what is overturned stays so, and a broadcast that is over has a reason. A
  request that ends a broadcast writes the reason only where there is none.
- `DeliveredOnceInOrder`, by `SendsOK`: a send that is let to commit has the next number and an
  id that is not there, and is alone in that for its conversation, because a statement waits
  for the transaction that holds the row; one that waits may have a number that was taken, but
  never one beyond the next.
- `MatchedIffMutual`, by `MatchesOK` (a match is mutual; what a request relies on, each decision
  in the history included, stays) and `MutualsOK`: where both have connected, on the only
  request each has, neither is searching or some request is about to match both. Each decision
  is stored before the other is looked for, so whichever comes second finds the first.
- `ContactsAreOpen`, by `ContactsOK`: a request past its check for blocks has seen a moment
  without one (`open`), and stays so.
- `SharedConductIsSeen`, by `RiskOK`: what two accounts did is on the profile, or a hook is about
  to look, or owes the signal it found; and a profile about to be stored adds one signal to
  the one that is there, or is stored over another change (`crossed`).
- `RecordedIsPosted`, by `PremiumOK`: who is to be recorded has been charged, or credited; the
  one transaction under a key is of the account that the key names; a claim that is not yet
  credited has an unused key, so its own post is the one the record names. A post of the
  referrer's credit is never refused, since wallets are not overdrawn (`LedgerSolid`).
- `StatusShowsWhoseTurn`, by `DeskOK`: while a message's status is not written that message is the
  last, or messages crossed; and whoever is assigned is in the log or about to write there.
- `RaisesWait`, by `LimitsOK`: a row that is to be stored was made today, from the one there is
  or over another; what is pending in the stored row is due no sooner than `RaiseDelay` after
  anything was asked for last, because every change moves the date of all that is pending.

What these promise will be stored (`MutualsOK`, `ConductSeen` and the last conjuncts of `UnlocksOK`,
`ClaimsOK` and `TicketOK`) they promise until a request is cut short, as the properties do;
all else holds with requests that end anywhere.

`Contact` of `Social` uses `Joined` of `Calls` where one would write `@@`: the provers know
nothing of `@@`, which the module TLC defines with `CHOOSE`.

### Model-checked only

- `PaidIsCredited`, `CallsCanBeHungUp`: liveness under fairness.
- `Platform`'s `TypeOK`: each invariant above holds the types its proof needs. One for all
  services would add no more than the types of state that no theorem is about.
- `StoresAgree`: that two repositories answer alike needs a relation between maps and sorted
  rows for each of eight twins, and lists with cursors are recursive or made with `SortSeq`.
- `ViewersAreOffered` and `AnsweredAreOnTheirWay` follow the elements of a sequence through
  `SelectSeq` and folds, of which the library has no laws, and which need induction.
- `PurchasesKeepToLimits`, `SavedIsKept` and `PagesMakeOneRanking`: their modules build states
  with `@@`, sums over sets of orders and `SubSeq` of arbitrary rankings; no proof has been
  tried.

## 5. What is left out

Everywhere: descriptions, metadata (but `session_id`), timestamps (but the hold period, raises,
expiry and windows), logging, HTTP decoding, access tokens; the width of integers (amounts are
int64 and far below its limit; no model wraps).

Behaviour that the code has and no property forbids, or that a property exempts:

- `Orders`: an order is offered one token. With two tokens for one order, a run that carries
  the bad one may write "failed" over the row of the good one, and `PaidIsCredited` fails. An
  order's shown status may go back when a stale copy is written.
- `PvCall`: a key that was used before, for a gift or for a call to somebody else or at another
  rate, lets a session ring with that charge alone as its hold, and declining it gives that
  charge back: a gift, then. A repeated key is answered with whatever session it names. Two sessions with
  one key share a hold, so that one may ring after the other gave it back. A reversal that fails
  is never tried again, and the caller stays charged. Here a reversal takes effect at once or not
  at all; one that stops half way is in `LedgerPg`. Clients are taken not to send keys of
  the server's form.
- `PvCall`: nothing expires an unanswered call, and nothing gives back a hold whose request
  stopped before its session was stored.
- `Payouts`: `RequestPayout`'s first four reads are one step.
- `Gateway`: a repeated SUBSCRIBE counts a viewer twice (`hub.go:428`, against 170-178); the copy
  of the count in the room's row is written after the unlock; forwarding goroutines never end.
- `Chat`: a page misses what is published while its socket is down and what a full buffer
  dropped, and a history of more than the limit shows the oldest. A page keeps 200 live messages
  (`webui.go:949`), here all; typing and read frames, which share its buffers, are left out. A send that a unique constraint refuses is an error frame,
  which the page ignores.
- `Chat`: a client message id is not apart for each sender; accept and decline work in any state.
- `Match`: a pair that has been offered may match after a block; an offer made again resets a
  decision; a cancellation read earlier may be stored over a match; a decision cut short is lost.
- `Auth`: two refreshes with one token both succeed and the last one's token works; deletion
  and its cancellation lift a suspension. `SignIn`: a registration cut between account and
  password leaves an email that can neither register nor log in.
- `SignIn`: checks of one code that overlap lose attempts or store a used challenge again. The
  store has no mutex, and what goes wrong in a map that two goroutines change at once is left
  out: a call of the store is one step. The run has one phone, so that the number sent with a
  code is always the code's.
- `Moderation`: an overturned appeal whose reinstatement fails cannot be retried; a
  reinstatement looks at no other enforcement; nothing lifts a status when an enforcement
  expires. `Risk`: profiles stored over each other lose signals.
- `Streaming`: a late first packet makes an ended session live; an end between creation and
  credentials leaves the ingest open. The health monitor changes no session and is left out.
- `Premium`: two requests under different keys charge twice (the comment at
  `feed/feedsvc/service.go:255-260` says once). A key that has paid for something else, another
  room for instance, unlocks a room without a charge (`feedsvc/service.go:282`); in the model keys are
  for one room and one account. `SpendLimits`: overlapping changes lose a lowering, and any
  change moves the date of a waiting raise. Overlapping orders exceed a cap. There is one account;
  in the code all share the cache of keys, and keys are taken to differ. The lookup of the key and
  the reading of the limits are one step.
- `Feed`: the Following tab is always empty, since `buildUserContext` sets no `FollowedHostIDs`
  (`feed/handlers/handlers.go:300-313`); the list that `getFollowingFeed` would make is not modelled.
  The open tab, clicked again, is emptied and not fetched; a late answer is shown on
  whatever tab is open; a cursor that is no longer good starts over and repeats rooms.
- `Broadcast`: past 50 events the list is cut while the count of those worked off is kept; a
  rejected offer of a closed connection deletes a newer one. ICE candidates, `getUserMedia`'s
  delay and a viewer's own reconnect are left out.
- `LocalState`: a snapshot may hold rows whose account it lacks, which a newcomer inherits;
  saves overlap in one `.tmp`; a kill is of the process, and nothing is said of a power
  loss (the file is not synced); the last save comes before the server has stopped serving.
- `Desk`: answers that cross may leave the other side's turn; an audit entry may be lost.
- The comment at `main.go:157-165` lists repositories without a Postgres version that have one
  now; the models follow the code.

Not modelled: attachments (in memory their ids start over after a restart while messages
stay); notifications (nothing creates one); typing and read frames; rollout flags (a hash
bucket over a record); analytics and the economy dashboard (read-only, and an append-only
log); translation (an external call); database connection and migrations; pages of text;
`tools/loadtest`; `backend/`, `ledger/internal` and `streaming/internal`, which the running
binary does not import.

## 6. Plan

The money, the gateway and the services that share accounts are modelled, and what
section 4 lists is proved. What is left:

1. `PurchasesKeepToLimits` (`SpendLimits`), the next in `Platform`: the sum over the orders of a
   window needs the laws of `LedgerOpsProofs` for another kind of set.
2. An abstract order (unpaid, paid, credited) that `Orders` implements, and an abstract payout
   for `Payouts`: both would follow from the invariants proved here.
3. `AtomicLedger`'s own invariants (books close, no overdraft), so that they carry over to
   `LedgerPg` by `Serializable`.
