------------------------------ MODULE Platform -------------------------------
(****************************************************************************)
(* The services of the API process that share accounts, the social graph or *)
(* the ledger, serving requests at the same time (feed/cmd/api/main.go      *)
(* wires them together): profile/social with chat and with match; auth with *)
(* moderation, the admin console and streaming; premium rooms with          *)
(* referrals; spend limits with the orders they hold for; and, sharing      *)
(* nothing with others here, the feed, the local state file, risk, the help *)
(* desk, the broadcast pages and the twin stores (module Stores), where the *)
(* same requests are put to the in-memory and to the Postgres repositories. *)
(****************************************************************************)
EXTENDS Chat, Match, Streaming, SignIn, Premium, SpendLimits, Feed, LocalState,
        Risk, Desk, Broadcast, People, Inbox, Casework, Rooms, Earnings, Accounts

vars == <<callVars, socialVars, chatVars, threadVars, matchVars, authVars, moderationVars,
          streamingVars, codeVars, signInVars, premiumVars, limitsVars, purchaseVars, feedVars,
          localVars, riskVars, deskVars, broadcastVars, twins>>

(* the stores asked are those of the part that gets requests *)
TwinsInit ==
    twins = CASE Serving({"people"}) -> Twins(Noone, NoPeople)
              [] Serving({"inbox"}) -> Twins(NoTalk, NoChats)
              [] Serving({"pairing"}) -> Twins(NoSearch, NoMatches)
              [] Serving({"casework"}) -> Twins(NoCases, NoCaseRows)
              [] Serving({"helpdesk"}) -> Twins(NoDesk, NoDeskRows)
              [] Serving({"rooms"}) -> Twins(NoRooms, NoRoomRows)
              [] Serving({"earnings"}) -> Twins(NoEarnings, NoEarningRows)
              [] Serving({"accounts"}) -> Twins(NoAccounts, NoAccountRows)
              [] OTHER -> Twins({}, {})

StoresNext ==
    \/ Serving({"people"}) /\ PeopleNext
    \/ Serving({"inbox"}) /\ InboxNext
    \/ Serving({"pairing"}) /\ PairingNext
    \/ Serving({"casework"}) /\ CaseworkNext
    \/ Serving({"helpdesk"}) /\ HelpdeskNext
    \/ Serving({"rooms"}) /\ RoomsNext
    \/ Serving({"earnings"}) /\ EarningsNext
    \/ Serving({"accounts"}) /\ AccountsNext

Init ==
    /\ CallsInit
    /\ SocialInit /\ ChatInit /\ ThreadInit /\ MatchInit
    /\ AuthInit /\ ModerationInit /\ StreamingInit /\ CodesInit /\ SignInInit
    /\ PremiumInit
    /\ LimitsInit /\ PurchasesInit
    /\ FeedInit /\ LocalInit /\ RiskInit /\ DeskInit /\ BroadcastInit
    /\ TwinsInit

contactVars == <<socialVars, chatVars, threadVars, matchVars>>
standingVars == <<authVars, moderationVars, streamingVars, codeVars, signInVars>>
moneyVars == <<premiumVars, limitsVars, purchaseVars>>
apartVars == <<feedVars, localVars, riskVars, deskVars, broadcastVars, twins>>

ContactNext ==
    /\ \/ /\ Serving({"follow", "block"}) /\ SocialNext
          /\ UNCHANGED <<chatVars, threadVars, matchVars>>
       \/ /\ Serving({"chat"}) /\ ChatNext
          /\ UNCHANGED <<threadVars, matchVars>>
       \/ /\ Serving({"thread"}) /\ ThreadNext
          /\ UNCHANGED <<socialVars, chatVars, matchVars>>
       \/ /\ Serving({"match"}) /\ MatchNext
          /\ UNCHANGED <<chatVars, threadVars>>
    /\ UNCHANGED <<standingVars, moneyVars, apartVars>>

StandingNext ==
    /\ \/ /\ Serving({"auth", "signin"}) /\ AuthNext
          /\ UNCHANGED <<moderationVars, streamingVars, codeVars, signInVars>>
       \/ /\ Serving({"moderation"}) /\ ModerationNext
          /\ UNCHANGED <<streamingVars, codeVars, signInVars>>
       \/ /\ Serving({"streaming"}) /\ StreamingNext
          /\ UNCHANGED <<codeVars, signInVars>>
       \/ /\ Serving({"signin"}) /\ CodesNext
          /\ UNCHANGED <<authVars, moderationVars, streamingVars, signInVars>>
       \/ /\ Serving({"signin"}) /\ SignInNext
          /\ UNCHANGED <<authVars, moderationVars, streamingVars, codeVars>>
    /\ UNCHANGED <<contactVars, moneyVars, apartVars>>

MoneyNext ==
    /\ \/ /\ Serving({"premium", "referral"}) /\ PremiumNext
          /\ UNCHANGED <<limitsVars, purchaseVars>>
       \/ /\ Serving({"caps", "cooling"}) /\ LimitsNext
          /\ UNCHANGED <<premiumVars, purchaseVars>>
       \/ /\ Serving({"orders"}) /\ PurchasesNext
          /\ UNCHANGED premiumVars
    /\ UNCHANGED <<contactVars, standingVars, apartVars>>

ApartNext ==
    /\ \/ /\ Serving({"feed"}) /\ FeedNext
          /\ UNCHANGED <<localVars, riskVars, deskVars, broadcastVars, twins>>
       \/ /\ Serving({"local"}) /\ LocalNext
          /\ UNCHANGED <<feedVars, riskVars, deskVars, broadcastVars, twins>>
       \/ /\ Serving({"risk"}) /\ RiskNext
          /\ UNCHANGED <<feedVars, localVars, deskVars, broadcastVars, twins>>
       \/ /\ Serving({"desk"}) /\ DeskNext
          /\ UNCHANGED <<feedVars, localVars, riskVars, broadcastVars, twins>>
       \/ /\ Serving({"broadcast"}) /\ BroadcastNext
          /\ UNCHANGED <<feedVars, localVars, riskVars, deskVars, twins>>
       \/ /\ StoresNext
          /\ UNCHANGED <<feedVars, localVars, riskVars, deskVars, broadcastVars>>
    /\ UNCHANGED <<contactVars, standingVars, moneyVars>>

CutShort ==
    /\ \E k \in Slots : EndEarly(k) /\ view' = ViewAfter(k)
    /\ UNCHANGED <<contactVars, standingVars, moneyVars, onAir, localVars, riskVars, deskVars,
                   broadcastVars, twins>>

Next == ContactNext \/ StandingNext \/ MoneyNext \/ ApartNext \/ CutShort

Spec == Init /\ [][Next]_vars

-----------------------------------------------------------------------------
(* The variables hold what the columns of the tables may hold. *)
TypeOK ==
    /\ DOMAIN call = Slots
    /\ served \in 0..load.requests /\ failed \in 0..load.failures /\ load \in Loads
    /\ follows \subseteq AccountIds \X AccountIds
    /\ blocks \subseteq AccountIds \X AccountIds
    /\ \A p \in Pairs :
        /\ conv[p] = NoConv \/ conv[p] \in [state : {"active", "request", "declined"}, by : p]
        /\ \A i \in DOMAIN msgs[p] : msgs[p][i] \in
            [id : ClientMsgIds, from : p, seq : Nat, read : BOOLEAN,
             hidden : SUBSET p, gone : BOOLEAN]
    /\ page # NoPage => page \in
            [pair : Pairs, viewer : page.pair, up : BOOLEAN, loaded : BOOLEAN,
             history : Seq(DOMAIN msgs[page.pair]), live : Seq(DOMAIN msgs[page.pair]),
             chan : Seq(DOMAIN msgs[page.pair]), send : Seq(DOMAIN msgs[page.pair]),
             dropped : SUBSET DOMAIN msgs[page.pair]]
    /\ page # NoPage => Len(page.chan) <= PageBuffer /\ Len(page.send) <= PageBuffer
    /\ \A r \in DOMAIN requests : requests[r] \in
            [acct : AccountIds, state : {"searching", "matched", "cancelled"},
             with : AccountIds \cup {Nobody}]
    /\ DOMAIN cand \subseteq (DOMAIN requests) \X AccountIds
    /\ \A x \in DOMAIN cand : cand[x] \in {"", "connect", "skip"}
    /\ exclusions \subseteq AccountIds \X AccountIds /\ said \subseteq AccountIds \X AccountIds
    /\ status \in [AccountIds -> Statuses]
    /\ \A s \in DOMAIN sessions : sessions[s] \in
            [acct : AccountIds, device : Devices,
             revoked : BOOLEAN, revokedOnce : BOOLEAN]
    /\ \A c \in DOMAIN challenges : challenges[c].attempts \in 0..MaxAttempts
    /\ \A n \in DOMAIN holder : holder[n] \in AccountIds \cup {NoAccount}
    /\ hashed \subseteq {holder[e] : e \in Emails}
    /\ \A e \in DOMAIN enforcements : enforcements[e] \in
            [acct : AccountIds, action : AllActions]
    /\ \A i \in DOMAIN appeals : appeals[i] \in
            [enf : DOMAIN enforcements,
             state : {"pending", "upheld", "overturned"}]
    /\ \A s \in DOMAIN streams : streams[s] \in
            [host : AccountIds, state : StreamStates,
             reason : {"", "credential_issue_failed", "host_ended", "moderation"}]
    /\ ingest \subseteq DOMAIN streams
    /\ ledger.seq = Len(ledger.byID)
    /\ room \in [host : AccountIds, price : Prices \cup {0}]
    /\ unlocks \cup claims \subseteq AccountIds
    /\ day \in 1..LastDay
    /\ limits \in [cap : [Caps -> CapValues \cup {Unset}],
                   pending : [Caps -> CapValues \cup {Unset}],
                   due : 0..(LastDay + RaiseDelay), coolingUntil : 0..(LastDay + 1)]
    /\ \A i \in DOMAIN bought : bought[i] \in
            [key : OrderKeys, coins : Packs, day : 1..LastDay,
             failed : BOOLEAN, missed : BOOLEAN]
    /\ onAir \in [RoomIds -> {"none", "live", "ended"}]
    /\ Range(view.items) \subseteq Range(view.ranked) \/ view.tangled
    /\ disputes \in [AccountIds -> Nat]
    /\ \A a \in AccountIds : risk[a].status \in {"none", "watch", "manual_review"}
    /\ \A v \in Audience : roomPage.pc[v] \in {"none", "making", "offered", "answered"}
    /\ \A t \in DOMAIN tickets : tickets[t].status \in {"open", "pending", "resolved"}
    /\ \A id \in DOMAIN repos.accounts : repos.accounts[id] \in AccountIds
    /\ createByKey \in [DOMAIN createByKey -> DOMAIN bought]

(* The pairs that a step puts in touch, or lets say more to each other. *)
NewContacts ==
    {p \in Pairs :
        \/ \E a, b \in p : <<a, b>> \in follows' \ follows
        \/ conv[p] = NoConv /\ conv'[p] # NoConv
        \/ Len(msgs'[p]) > Len(msgs[p])
        \/ \E r \in DOMAIN requests, b \in p :
            requests[r].acct \in p \ {b} /\ <<r, b>> \in (DOMAIN cand') \ (DOMAIN cand)}

(* Two accounts are put in touch - one follows the other, a conversation is opened, a
   message delivered, one offered to the other as a match - only by a request in whose
   time there was a moment without a block between them: a block that was there before
   the request came in, and stayed, is never overlooked by any of the services that
   have to ask about it (main's isBlocked, and the queries of social and match). *)
NoContactUnderABlock ==
    \A p \in NewContacts : \E k \in Slots :
        IsContact(k) /\ call[k].pair = p /\ call[k].open /\ call'[k] # call[k]

(* No frame is answered that leaves a subscribed page without its message, unless it is
   on its way or a full buffer lost it, and no step loses it otherwise
   (AnsweredIsOnItsWay: handlePrivateMessage, forward and ConversationThread). *)
AnsweredAreOnTheirWay == [][AnsweredIsOnItsWay]_vars

(* No step of any service makes a contact that no request was free to make
   (NoContactUnderABlock: feed's isBlocked, and the queries of social and match). *)
ContactsAreOpen == [][NoContactUnderABlock]_vars

(* No step of the host, the ingest node or the classifier tells another ending of a
   broadcast than the first one told (EndingIsKept: streaming's UpdateState). *)
EndingsAreKept == [][EndingIsKept]_vars

(* No step, of a request or of time, raises a cap sooner than its cooling-off period
   allows (RaiseWaits: ApplyCapChange and resolvePendingIfDue). *)
RaisesWait == [][RaiseWaits]_vars

(* No request stores an order beyond the limits (PurchaseWithinLimits: ordersvc's
   checkSpendLimits). *)
PurchasesKeepToLimits == [][PurchaseWithinLimits]_vars

(* Asked the same things in the same order, the in-memory repositories and the Postgres
   ones give the same answers and hold what reads the same (the head comments of each
   pgrepo: "matching its semantics exactly"), but for the differences known by name. *)
StoresAgree ==
    twins.known = {} =>
        /\ twins.alike
        /\ Serving({"people"}) => PeopleReadAlike
        /\ Serving({"inbox"}) => InboxReadsAlike
        /\ Serving({"pairing"}) => PairingReadsAlike
        /\ Serving({"casework"}) => CaseworkReadsAlike
        /\ Serving({"helpdesk"}) => HelpdeskReadsAlike
        /\ Serving({"rooms"}) => RoomsReadAlike
        /\ Serving({"earnings"}) => EarningsReadAlike
        /\ Serving({"accounts"}) => AccountsReadAlike
=============================================================================
