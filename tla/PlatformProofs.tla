---------------------------- MODULE PlatformProofs ----------------------------
(***************************************************************************)
(* Proofs about the services of the API process, for any accounts, number  *)
(* of requests at a time and load.  They share the slots of requests; so   *)
(* the first part says how a step of each service may change a slot, and   *)
(* what is proved of a service rests on that for the steps of the others.  *)
(***************************************************************************)
EXTENDS Platform, FiniteSetTheorems, TLAPS

-----------------------------------------------------------------------------
(* Requests in flight *)

ContactOps == {"follow", "converse", "send", "match"}
StandingOps == {"login", "refresh", "enforce", "appeal", "overturn", "broadcast", "end",
                "start", "register", "password", "verify"}
MoneyOps == {"unlock", "claim", "limits", "order"}
ApartOps == {"feed", "risk", "reply", "resolve"}

(* A request's local variables: what it does, how far it is, and if it would put two
   accounts in touch, which. *)
IsRequest(r) ==
    /\ {"op", "pc"} \subseteq DOMAIN r
    /\ "pair" \in DOMAIN r => r.op \in ContactOps

CallsOK ==
    /\ call = [k \in Slots |-> call[k]]
    /\ \A k \in Slots : IsRequest(call[k])
    /\ failed \in Nat

(* A step changes slots of requests of these kinds only, or ends one early. *)
Moves(ops) ==
    /\ failed' \in {failed, failed + 1}
    /\ \A k \in Slots :
        \/ call'[k] = call[k]
        \/ {call[k].op, call'[k].op} \subseteq ops \cup {"none"}
        \/ call'[k] = Idle /\ failed' # failed

(* An idle slot. *)
LEMMA IdleFields == IsRequest(Idle) /\ Idle.op = "none" /\ Idle.pc = "idle"
BY DEF IsRequest, Idle

(* A step that leaves the requests alone. *)
LEMMA NoMove ==
    ASSUME CallsOK, call' = call, failed' \in {failed, failed + 1}, NEW ops
    PROVE  CallsOK' /\ Moves(ops)
<1>1. failed' \in Nat
    BY DEF CallsOK
<1>2. QED
    BY <1>1 DEF CallsOK, Moves, IsRequest

(* One slot gets other contents. *)
LEMMA OneMoves ==
    ASSUME CallsOK, NEW k \in Slots, NEW rec, IsRequest(rec), NEW ops,
           call' = [call EXCEPT ![k] = rec], failed' \in {failed, failed + 1},
           \/ {call[k].op, rec.op} \subseteq ops \cup {"none"}
           \/ rec = Idle /\ failed' # failed
    PROVE  /\ CallsOK' /\ Moves(ops) /\ call'[k] = rec
           /\ \A j \in Slots \ {k} : call'[j] = call[j]
<1>1. failed' \in Nat
    BY DEF CallsOK
<1>2. /\ call' = [j \in Slots |-> call'[j]]
      /\ call'[k] = rec
      /\ \A j \in Slots \ {k} : call'[j] = call[j]
    BY DEF CallsOK
<1>3. QED
    BY <1>1, <1>2 DEF CallsOK, Moves

(* A request is let in. *)
LEMMA BeginMoves ==
    ASSUME CallsOK, NEW k \in Slots, NEW part, NEW rec, IsRequest(rec), Begin(part, k, rec),
           NEW ops, rec.op \in ops \cup {"none"}
    PROVE  /\ CallsOK' /\ Moves(ops) /\ call[k] = Idle /\ call'[k] = rec /\ failed' = failed
           /\ \A j \in Slots \ {k} : call'[j] = call[j]
<1>1. call[k] = Idle /\ call' = [call EXCEPT ![k] = rec] /\ failed' = failed
    BY DEF Begin, Serve
<1>2. {call[k].op, rec.op} \subseteq ops \cup {"none"}
    BY <1>1, IdleFields
<1>3. QED
    BY <1>1, <1>2, OneMoves

(* A request goes on. *)
LEMMA GoOnMoves ==
    ASSUME CallsOK, NEW k \in Slots, NEW rec, IsRequest(rec), GoOn(k, rec),
           NEW ops, {call[k].op, rec.op} \subseteq ops \cup {"none"}
    PROVE  /\ CallsOK' /\ Moves(ops) /\ call'[k] = rec /\ failed' = failed
           /\ \A j \in Slots \ {k} : call'[j] = call[j]
<1>1. call' = [call EXCEPT ![k] = rec] /\ failed' = failed
    BY DEF GoOn
<1>2. QED
    BY <1>1, OneMoves

(* A request goes on with its local variables as they are, but one. *)
LEMMA FieldSet ==
    ASSUME CallsOK, NEW k \in Slots, NEW rec,
           DOMAIN rec = DOMAIN call[k], rec.op = call[k].op
    PROVE  IsRequest(rec)
BY DEF CallsOK, IsRequest

(* A request goes on with its local variables as they are. *)
LEMMA GotoMoves ==
    ASSUME CallsOK, NEW k \in Slots, NEW pc, Goto(k, pc),
           NEW ops, call[k].op \in ops
    PROVE  /\ CallsOK' /\ Moves(ops) /\ call'[k] = [call[k] EXCEPT !.pc = pc]
           /\ call'[k].op = call[k].op /\ call'[k].pc = pc /\ failed' = failed
           /\ \A j \in Slots \ {k} : call'[j] = call[j]
<1> DEFINE rec == [call[k] EXCEPT !.pc = pc]
<1>1. rec.op = call[k].op /\ rec.pc = pc /\ DOMAIN rec = DOMAIN call[k]
    BY DEF CallsOK, IsRequest
<1>2. IsRequest(rec)
    BY <1>1, FieldSet
<1>3. GoOn(k, rec)
    BY DEF Goto
<1> HIDE DEF rec
<1>4. {call[k].op, rec.op} \subseteq ops \cup {"none"}
    BY <1>1
<1>5. /\ CallsOK' /\ Moves(ops) /\ call'[k] = rec /\ failed' = failed
      /\ \A j \in Slots \ {k} : call'[j] = call[j]
    BY <1>2, <1>3, <1>4, GoOnMoves
<1>6. QED
    BY <1>1, <1>5 DEF rec

(* A request is answered. *)
LEMMA AnswerMoves ==
    ASSUME CallsOK, NEW k \in Slots, Answer(k), NEW ops, call[k].op \in ops
    PROVE  /\ CallsOK' /\ Moves(ops) /\ call'[k] = Idle /\ failed' = failed
           /\ \A j \in Slots \ {k} : call'[j] = call[j]
<1>1. call' = [call EXCEPT ![k] = Idle] /\ failed' = failed
    BY DEF Answer, GoOn
<1>2. IsRequest(Idle) /\ {call[k].op, Idle.op} \subseteq ops \cup {"none"}
    BY IdleFields
<1>3. QED
    BY <1>1, <1>2, OneMoves

-----------------------------------------------------------------------------
(* The requests of each service *)

AuthOps == {"login", "refresh"}
ModerationOps == {"enforce", "appeal", "overturn"}
StreamingOps == {"broadcast", "end"}
CodesOps == {"start", "verify"}
SignInOps == {"register", "password", "verify", "login"}
PremiumOps == {"unlock", "claim"}
LimitOps == {"limits", "order"}
ChatOps == {"converse", "send"}
MatchOps == {"match"}
FeedOps == {"feed"}
RiskOps == {"risk"}
DeskOps == {"reply", "resolve"}

(* Steps of accounts and sessions. *)
LEMMA AuthMoves ==
    ASSUME CallsOK, AuthNext
    PROVE  CallsOK' /\ Moves(AuthOps)
<1>1. ASSUME NEW k \in Slots, NEW a \in AccountIds, NEW d \in Devices, Login(k, a, d)
      PROVE  CallsOK' /\ Moves(AuthOps)
    BY <1>1, BeginMoves DEF Login, IsRequest, AuthOps
<1>2. ASSUME NEW k \in Slots, NEW s \in DOMAIN sessions, RefreshTokens(k, s)
      PROVE  CallsOK' /\ Moves(AuthOps)
    BY <1>2, BeginMoves DEF RefreshTokens, IsRequest, AuthOps
<1>3. ASSUME NEW k \in Slots, CreateSession(k)
      PROVE  CallsOK' /\ Moves(AuthOps)
    BY <1>3, AnswerMoves DEF CreateSession, At, AuthOps
<1>4. ASSUME NEW k \in Slots, RevokeAllDeviceSessions(k)
      PROVE  CallsOK' /\ Moves(AuthOps)
    BY <1>4, AnswerMoves DEF RevokeAllDeviceSessions, At, AuthOps
<1>5. ASSUME NEW k \in Slots, FindAccount(k)
      PROVE  CallsOK' /\ Moves(AuthOps)
    BY <1>5, GotoMoves, AnswerMoves DEF FindAccount, At, AuthOps
<1>6. ASSUME NEW k \in Slots, RotateSession(k)
      PROVE  CallsOK' /\ Moves(AuthOps)
    BY <1>6, AnswerMoves DEF RotateSession, At, AuthOps
<1>7. ASSUME NEW s \in DOMAIN sessions, Logout(s)
      PROVE  CallsOK' /\ Moves(AuthOps)
    BY <1>7, NoMove DEF Logout, Serve, callVars
<1>8. ASSUME NEW a \in AccountIds, RequestDeletion(a)
      PROVE  CallsOK' /\ Moves(AuthOps)
    BY <1>8, NoMove DEF RequestDeletion, Serve, callVars
<1>9. ASSUME NEW a \in AccountIds, CancelDeletion(a)
      PROVE  CallsOK' /\ Moves(AuthOps)
    BY <1>9, NoMove DEF CancelDeletion, Serve, callVars
<1>10. QED
    BY <1>1, <1>2, <1>3, <1>4, <1>5, <1>6, <1>7, <1>8, <1>9 DEF AuthNext

(* Steps of moderation and the console. *)
LEMMA ModerationMoves ==
    ASSUME CallsOK, ModerationNext
    PROVE  CallsOK' /\ Moves(ModerationOps)
<1>1. ASSUME NEW k \in Slots, NEW a \in AccountIds, NEW action \in Actions, CreateEnforcement(k, a, action)
      PROVE  CallsOK' /\ Moves(ModerationOps)
    BY <1>1, BeginMoves DEF CreateEnforcement, IsRequest, ModerationOps
<1>2. ASSUME NEW k \in Slots, NEW e \in DOMAIN enforcements, FileAppeal(k, e)
      PROVE  CallsOK' /\ Moves(ModerationOps)
    BY <1>2, BeginMoves DEF FileAppeal, IsRequest, ModerationOps
<1>3. ASSUME NEW k \in Slots, NEW i \in DOMAIN appeals, NEW u \in BOOLEAN, DecideAppeal(k, i, u)
      PROVE  CallsOK' /\ Moves(ModerationOps)
    BY <1>3, BeginMoves DEF DecideAppeal, IsRequest, ModerationOps, Idle
<1>4. ASSUME NEW k \in Slots, ApplyEnforcement(k)
      PROVE  CallsOK' /\ Moves(ModerationOps)
    BY <1>4, AnswerMoves DEF ApplyEnforcement, At, ModerationOps
<1>5. ASSUME NEW k \in Slots, CreateAppeal(k)
      PROVE  CallsOK' /\ Moves(ModerationOps)
    BY <1>5, AnswerMoves DEF CreateAppeal, At, ModerationOps
<1>6. ASSUME NEW k \in Slots, Reinstate(k)
      PROVE  CallsOK' /\ Moves(ModerationOps)
    BY <1>6, AnswerMoves DEF Reinstate, At, ModerationOps
<1>7. ASSUME NEW a \in AccountIds, NEW s \in {"restricted", "active"}, SetAccountStatus(a, s)
      PROVE  CallsOK' /\ Moves(ModerationOps)
    BY <1>7, NoMove DEF SetAccountStatus, Serve, callVars
<1>8. QED
    BY <1>1, <1>2, <1>3, <1>4, <1>5, <1>6, <1>7 DEF ModerationNext

(* Steps of streaming. *)
LEMMA StreamingMoves ==
    ASSUME CallsOK, StreamingNext
    PROVE  CallsOK' /\ Moves(StreamingOps)
<1>1. ASSUME NEW k \in Slots, NEW a \in AccountIds, StartBroadcast(k, a)
      PROVE  CallsOK' /\ Moves(StreamingOps)
    <2> DEFINE rec == [op |-> "broadcast", pc |-> "credentials", stream |-> Len(streams) + 1]
    <2>1. IsRequest(rec) /\ rec.op = "broadcast"
        BY DEF IsRequest
    <2>2. Begin("streaming", k, rec)
        BY <1>1 DEF StartBroadcast
    <2> HIDE DEF rec
    <2>3. QED
        BY <2>1, <2>2, BeginMoves DEF StreamingOps
<1>2. ASSUME NEW k \in Slots, IssueCredentials(k)
      PROVE  CallsOK' /\ Moves(StreamingOps)
    BY <1>2, GotoMoves, AnswerMoves DEF IssueCredentials, At, StreamingOps
<1>3. ASSUME NEW k \in Slots, EndUnstarted(k)
      PROVE  CallsOK' /\ Moves(StreamingOps)
    BY <1>3, AnswerMoves DEF EndUnstarted, At, StreamingOps
<1>4. ASSUME NEW k \in Slots, End(k)
      PROVE  CallsOK' /\ Moves(StreamingOps)
    BY <1>4, AnswerMoves DEF End, At, StreamingOps
<1>5. ASSUME NEW k \in Slots, NEW s \in DOMAIN streams, EndBroadcast(k, s)
      PROVE  CallsOK' /\ Moves(StreamingOps)
    BY <1>5, BeginMoves DEF EndBroadcast, IsRequest, StreamingOps
<1>6. ASSUME NEW s \in DOMAIN streams, SessionLive(s)
      PROVE  CallsOK' /\ Moves(StreamingOps)
    BY <1>6, NoMove DEF SessionLive, Serve, callVars
<1>7. ASSUME NEW s \in DOMAIN streams, HandleModerationResult(s)
      PROVE  CallsOK' /\ Moves(StreamingOps)
    BY <1>7, NoMove DEF HandleModerationResult, Serve, callVars
<1>8. ASSUME TerminateBroadcast
      PROVE  CallsOK' /\ Moves(StreamingOps)
    BY <1>8, NoMove DEF TerminateBroadcast, Serve, callVars, Fail
<1>9. ASSUME RecordAutoTermination
      PROVE  CallsOK' /\ Moves(StreamingOps)
    BY <1>9, NoMove DEF RecordAutoTermination, Serve, callVars
<1>10. ASSUME ApplyAutoTermination
      PROVE  CallsOK' /\ Moves(StreamingOps)
    BY <1>10, NoMove DEF ApplyAutoTermination, Serve, callVars
<1>11. ASSUME VerdictLost
      PROVE  CallsOK' /\ Moves(StreamingOps)
    BY <1>11, NoMove DEF VerdictLost, Fail
<1>12. QED
    BY <1>1, <1>2, <1>3, <1>4, <1>5, <1>6, <1>7, <1>8, <1>9, <1>10, <1>11 DEF StreamingNext

(* Steps of the codes sent to phones. *)
LEMMA CodesMoves ==
    ASSUME CallsOK, CodesNext
    PROVE  CallsOK' /\ Moves(CodesOps)
<1>1. ASSUME NEW k \in Slots, NEW p \in Phones, PhoneStart(k, p)
      PROVE  CallsOK' /\ Moves(CodesOps)
    BY <1>1, BeginMoves DEF PhoneStart, IsRequest, CodesOps
<1>2. ASSUME NEW k \in Slots, NEW c \in DOMAIN challenges, NEW right \in BOOLEAN,
             NEW number \in Phones, NEW d \in Devices, PhoneVerify(k, c, right, number, d)
      PROVE  CallsOK' /\ Moves(CodesOps)
    BY <1>2, BeginMoves DEF PhoneVerify, IsRequest, CodesOps
<1>3. ASSUME NEW k \in Slots, IncrSendCount(k)
      PROVE  CallsOK' /\ Moves(CodesOps)
    BY <1>3, GotoMoves, AnswerMoves DEF IncrSendCount, At, CodesOps
<1>4. ASSUME NEW k \in Slots, SendCode(k)
      PROVE  CallsOK' /\ Moves(CodesOps)
    BY <1>4, AnswerMoves DEF SendCode, At, CodesOps
<1>5. ASSUME NEW k \in Slots, SetLockout(k)
      PROVE  CallsOK' /\ Moves(CodesOps)
    BY <1>5, GotoMoves, AnswerMoves DEF SetLockout, At, CodesOps
<1>6. ASSUME NEW k \in Slots, DeleteChallenge(k)
      PROVE  CallsOK' /\ Moves(CodesOps)
    BY <1>6, AnswerMoves DEF DeleteChallenge, At, CodesOps
<1>7. ASSUME NEW k \in Slots, CountAttempt(k)
      PROVE  CallsOK' /\ Moves(CodesOps)
    BY <1>7, GotoMoves, AnswerMoves DEF CountAttempt, At, CodesOps
<1>8. ASSUME NEW k \in Slots, AcceptCode(k)
      PROVE  CallsOK' /\ Moves(CodesOps)
    BY <1>8, GotoMoves DEF AcceptCode, At, CodesOps
<1>9. ASSUME TimePasses
      PROVE  CallsOK' /\ Moves(CodesOps)
    BY <1>9, NoMove DEF TimePasses, Serve, callVars
<1>10. QED
    BY <1>1, <1>2, <1>3, <1>4, <1>5, <1>6, <1>7, <1>8, <1>9 DEF CodesNext

(* A session is about to be made for an account. *)
LEMMA IssueMoves ==
    ASSUME CallsOK, NEW k \in Slots, NEW a, IssueTokens(k, a),
           NEW ops, {call[k].op, "login"} \subseteq ops
    PROVE  /\ CallsOK' /\ Moves(ops) /\ failed' = failed
           /\ call'[k] = [op |-> "login", pc |-> "create", acct |-> a, device |-> call[k].device]
           /\ \A j \in Slots \ {k} : call'[j] = call[j]
<1> DEFINE rec == [op |-> "login", pc |-> "create", acct |-> a, device |-> call[k].device]
<1>1. GoOn(k, rec)
    BY DEF IssueTokens
<1>2. IsRequest(rec) /\ rec.op = "login"
    BY DEF IsRequest
<1> HIDE DEF rec
<1>3. {call[k].op, rec.op} \subseteq ops \cup {"none"}
    BY <1>2
<1>4. QED
    BY <1>1, <1>2, <1>3, GoOnMoves DEF rec

(* Steps of signing in and up. *)
LEMMA SignInMoves ==
    ASSUME CallsOK, SignInNext
    PROVE  CallsOK' /\ Moves(SignInOps)
<1>1. ASSUME NEW k \in Slots, NEW e \in Emails, NEW d \in Devices, RegisterEmail(k, e, d)
      PROVE  CallsOK' /\ Moves(SignInOps)
    BY <1>1, BeginMoves DEF RegisterEmail, IsRequest, SignInOps
<1>2. ASSUME NEW k \in Slots, NEW e \in Emails, NEW d \in Devices, LoginEmail(k, e, d)
      PROVE  CallsOK' /\ Moves(SignInOps)
    BY <1>2, BeginMoves DEF LoginEmail, IsRequest, SignInOps
<1>3. ASSUME NEW k \in Slots, FindByPhone(k)
      PROVE  CallsOK' /\ Moves(SignInOps)
    <2>1. CASE Goto(k, "insert")
        BY <1>3, <2>1, GotoMoves DEF FindByPhone, At, SignInOps
    <2>2. CASE Answer(k)
        BY <1>3, <2>2, AnswerMoves DEF FindByPhone, At, SignInOps
    <2>3. CASE IssueTokens(k, holder[call[k].number])
        BY <1>3, <2>3, IssueMoves DEF FindByPhone, At, SignInOps
    <2>4. QED
        BY <1>3, <2>1, <2>2, <2>3 DEF FindByPhone
<1>4. ASSUME NEW k \in Slots, CreateByPhone(k)
      PROVE  CallsOK' /\ Moves(SignInOps)
    BY <1>4, IssueMoves, AnswerMoves DEF CreateByPhone, At, SignInOps
<1>5. ASSUME NEW k \in Slots, CreateByEmail(k)
      PROVE  CallsOK' /\ Moves(SignInOps)
    BY <1>5, GotoMoves, AnswerMoves DEF CreateByEmail, At, SignInOps
<1>6. ASSUME NEW k \in Slots, SetPasswordHash(k)
      PROVE  CallsOK' /\ Moves(SignInOps)
    BY <1>6, IssueMoves DEF SetPasswordHash, At, SignInOps
<1>7. ASSUME NEW k \in Slots, CheckPassword(k)
      PROVE  CallsOK' /\ Moves(SignInOps)
    BY <1>7, IssueMoves, AnswerMoves DEF CheckPassword, At, SignInOps
<1>8. QED
    BY <1>1, <1>2, <1>3, <1>4, <1>5, <1>6, <1>7 DEF SignInNext

(* Steps of premium rooms and referrals. *)
LEMMA PremiumMoves ==
    ASSUME CallsOK, PremiumNext
    PROVE  CallsOK' /\ Moves(PremiumOps)
<1>1. ASSUME NEW p \in Prices \cup {0}, SetRoomPremium(p)
      PROVE  CallsOK' /\ Moves(PremiumOps)
    BY <1>1, NoMove DEF SetRoomPremium, Serve, callVars
<1>2. ASSUME NEW k \in Slots, NEW a \in AccountIds, NEW c \in ClientKeys, UnlockRoom(k, a, c)
      PROVE  CallsOK' /\ Moves(PremiumOps)
    BY <1>2, BeginMoves DEF UnlockRoom, IsRequest, PremiumOps
<1>3. ASSUME NEW k \in Slots, NEW a \in AccountIds, NEW b \in AccountIds, ClaimCode(k, a, b)
      PROVE  CallsOK' /\ Moves(PremiumOps)
    BY <1>3, BeginMoves DEF ClaimCode, IsRequest, PremiumOps
<1>4. ASSUME NEW k \in Slots, HasUnlocked(k)
      PROVE  CallsOK' /\ Moves(PremiumOps)
    BY <1>4, GotoMoves, AnswerMoves DEF HasUnlocked, At, PremiumOps
<1>5. ASSUME NEW k \in Slots, UnlockRoomCoins(k)
      PROVE  CallsOK' /\ Moves(PremiumOps)
    BY <1>5, GotoMoves, AnswerMoves DEF UnlockRoomCoins, At, PremiumOps
<1>6. ASSUME NEW k \in Slots, RecordUnlock(k)
      PROVE  CallsOK' /\ Moves(PremiumOps)
    BY <1>6, AnswerMoves DEF RecordUnlock, At, PremiumOps
<1>7. ASSUME NEW k \in Slots, ReferralCreditCoins(k)
      PROVE  CallsOK' /\ Moves(PremiumOps)
    BY <1>7, GotoMoves DEF ReferralCreditCoins, At, PremiumOps
<1>8. ASSUME NEW k \in Slots, RecordReward(k)
      PROVE  CallsOK' /\ Moves(PremiumOps)
    BY <1>8, AnswerMoves DEF RecordReward, At, PremiumOps
<1>9. QED
    BY <1>1, <1>2, <1>3, <1>4, <1>5, <1>6, <1>7, <1>8 DEF PremiumNext

(* Steps of the risk hooks. *)
LEMMA RiskMoves ==
    ASSUME CallsOK, RiskNext
    PROVE  CallsOK' /\ Moves(RiskOps)
<1>1. ASSUME NEW k \in Slots, NEW a \in AccountIds, NEW d \in DeviceHashes, DeviceLogin(k, a, d)
      PROVE  CallsOK' /\ Moves(RiskOps)
    BY <1>1, BeginMoves DEF DeviceLogin, IsRequest, RiskOps
<1>2. ASSUME NEW k \in Slots, NEW a \in AccountIds, NEW b \in AccountIds, SendGift(k, a, b)
      PROVE  CallsOK' /\ Moves(RiskOps)
    BY <1>2, BeginMoves DEF SendGift, IsRequest, RiskOps
<1>3. ASSUME NEW k \in Slots, NEW a \in AccountIds, RecordDispute(k, a)
      PROVE  CallsOK' /\ Moves(RiskOps)
    BY <1>3, BeginMoves DEF RecordDispute, IsRequest, RiskOps, Idle
<1>4. ASSUME NEW k \in Slots, NEW a \in AccountIds, NEW found \in {{Keyword}, {RapidEscalation, NoReciprocity}}, Observe(k, a, found)
      PROVE  CallsOK' /\ Moves(RiskOps)
    BY <1>4, BeginMoves DEF Observe, IsRequest, RiskOps
<1>5. ASSUME NEW k \in Slots, RecordDevice(k)
      PROVE  CallsOK' /\ Moves(RiskOps)
    BY <1>5, GotoMoves DEF RecordDevice, At, RiskOps
<1>6. ASSUME NEW k \in Slots, AccountsForDevice(k)
      PROVE  CallsOK' /\ Moves(RiskOps)
    BY <1>6, GoOnMoves, AnswerMoves DEF AccountsForDevice, At, IsRequest, RiskOps, Give
<1>7. ASSUME NEW k \in Slots, CheckGiftLoop(k)
      PROVE  CallsOK' /\ Moves(RiskOps)
    BY <1>7, GoOnMoves, AnswerMoves DEF CheckGiftLoop, At, IsRequest, RiskOps, Give
<1>8. ASSUME NEW k \in Slots, GetProfile(k)
      PROVE  CallsOK' /\ Moves(RiskOps)
    BY <1>8, GoOnMoves DEF GetProfile, At, IsRequest, RiskOps
<1>9. ASSUME NEW k \in Slots, UpsertProfile(k)
      PROVE  CallsOK' /\ Moves(RiskOps)
    BY <1>9, GoOnMoves, AnswerMoves DEF UpsertProfile, At, IsRequest, RiskOps, Give
<1>10. QED
    BY <1>1, <1>2, <1>3, <1>4, <1>5, <1>6, <1>7, <1>8, <1>9 DEF RiskNext

(* Steps of the help desk. *)
LEMMA DeskMoves ==
    ASSUME CallsOK, DeskNext
    PROVE  CallsOK' /\ Moves(DeskOps)
<1>1. ASSUME NEW a \in AccountIds, CreateTicket(a)
      PROVE  CallsOK' /\ Moves(DeskOps)
    BY <1>1, NoMove DEF CreateTicket, Serve, callVars
<1>2. ASSUME NEW a \in AccountIds, SetRole(a)
      PROVE  CallsOK' /\ Moves(DeskOps)
    BY <1>2, NoMove DEF SetRole, Serve, callVars
<1>3. ASSUME NEW k \in Slots, NEW a \in AccountIds, NEW t \in DOMAIN tickets, ReplyTicket(k, a, t)
      PROVE  CallsOK' /\ Moves(DeskOps)
    BY <1>3, BeginMoves DEF ReplyTicket, IsRequest, DeskOps
<1>4. ASSUME NEW k \in Slots, NEW a \in AccountIds, NEW t \in DOMAIN tickets, ResolveTicket(k, a, t)
      PROVE  CallsOK' /\ Moves(DeskOps)
    BY <1>4, BeginMoves DEF ResolveTicket, IsRequest, DeskOps
<1>5. ASSUME NEW k \in Slots, AddMessage(k)
      PROVE  CallsOK' /\ Moves(DeskOps)
    BY <1>5, GotoMoves DEF AddMessage, At, DeskOps
<1>6. ASSUME NEW k \in Slots, UpdateStatus(k)
      PROVE  CallsOK' /\ Moves(DeskOps)
    BY <1>6, AnswerMoves DEF UpdateStatus, At, DeskOps
<1>7. ASSUME NEW k \in Slots, AssignResolved(k)
      PROVE  CallsOK' /\ Moves(DeskOps)
    BY <1>7, GotoMoves DEF AssignResolved, At, DeskOps
<1>8. ASSUME NEW k \in Slots, LogAction(k)
      PROVE  CallsOK' /\ Moves(DeskOps)
    BY <1>8, AnswerMoves DEF LogAction, At, DeskOps
<1>9. QED
    BY <1>1, <1>2, <1>3, <1>4, <1>5, <1>6, <1>7, <1>8 DEF DeskNext

(* The local variables of a request that would put two accounts in touch. *)
Carries(rec, op, pc, p, more) ==
    /\ IsRequest(rec)
    /\ rec.op = op /\ rec.pc = pc /\ rec.pair = p /\ rec.open = ~IsBlocked(p)
    /\ DOMAIN rec = {"op", "pc", "pair", "open"} \cup DOMAIN more
    /\ \A f \in DOMAIN more \ {"op", "pc", "pair", "open"} : rec[f] = more[f]

(* A request to put two accounts in touch has their pair, and whether it is open. *)
LEMMA ContactRequest ==
    ASSUME NEW op \in ContactOps, NEW pc, NEW p, NEW more
    PROVE  Carries(Contact(op, pc, p, more), op, pc, p, more)
BY DEF Carries, Contact, Joined, IsRequest

(* An unblock is noticed by the requests to put the two accounts in touch. *)
LEMMA UnblockMoves ==
    ASSUME CallsOK, NEW a \in AccountIds, NEW b \in AccountIds, Unblock(a, b)
    PROVE  /\ CallsOK' /\ Moves(ContactOps) /\ failed' = failed
           /\ \A k \in Slots : call'[k] \in {call[k], [call[k] EXCEPT !.open = TRUE]}
<1>1. failed' = failed
    BY DEF Unblock, Serve
<1>2. /\ call' = [k \in Slots |-> call'[k]]
      /\ \A k \in Slots : call'[k] = IF IsContact(k) /\ call[k].pair = {a, b} /\ ~IsBlocked({a, b})'
                                      THEN [call[k] EXCEPT !.open = TRUE] ELSE call[k]
    BY DEF Unblock
<1>3. ASSUME NEW k \in Slots, call'[k] = [call[k] EXCEPT !.open = TRUE], IsContact(k)
      PROVE  IsRequest(call'[k]) /\ {call[k].op, call'[k].op} \subseteq ContactOps
    BY <1>3 DEF CallsOK, IsRequest, IsContact
<1>4. QED
    BY <1>1, <1>2, <1>3 DEF CallsOK, Moves

(* Steps of the social graph. *)
LEMMA SocialMoves ==
    ASSUME CallsOK, SocialNext
    PROVE  CallsOK' /\ Moves(ContactOps)
<1>1. ASSUME NEW a \in AccountIds, NEW b \in AccountIds, Unfollow(a, b)
      PROVE  CallsOK' /\ Moves(ContactOps)
    BY <1>1, NoMove DEF Unfollow, Serve, callVars
<1>2. ASSUME NEW a \in AccountIds, NEW b \in AccountIds, Block(a, b)
      PROVE  CallsOK' /\ Moves(ContactOps)
    BY <1>2, NoMove DEF Block, Serve, callVars
<1>3. ASSUME NEW a \in AccountIds, NEW b \in AccountIds, Unblock(a, b)
      PROVE  CallsOK' /\ Moves(ContactOps)
    BY <1>3, UnblockMoves
<1>4. ASSUME NEW k \in Slots, NEW a \in AccountIds, NEW b \in AccountIds, Follow(k, a, b)
      PROVE  CallsOK' /\ Moves(ContactOps)
    BY <1>4, BeginMoves DEF Follow, IsRequest, ContactOps
<1>5. ASSUME NEW k \in Slots, InsertFollow(k)
      PROVE  CallsOK' /\ Moves(ContactOps)
    BY <1>5, AnswerMoves DEF InsertFollow, At, ContactOps
<1>6. QED
    BY <1>1, <1>2, <1>3, <1>4, <1>5 DEF SocialNext

(* SendMessage answers, or goes on to publish. *)
LEMMA AnswerWithMoves ==
    ASSUME CallsOK, NEW k \in Slots, NEW n, AnswerWith(k, n), call[k].op = "send"
    PROVE  /\ CallsOK' /\ Moves(ChatOps) /\ failed' = failed
           /\ \/ call'[k] = Idle
              \/ call[k].socket /\ call'[k] = [call[k] EXCEPT !.pc = "publish", !.seq = n]
           /\ \A j \in Slots \ {k} : call'[j] = call[j]
<1> DEFINE rec == [call[k] EXCEPT !.pc = "publish", !.seq = n]
<1>1. rec.op = call[k].op /\ DOMAIN rec = DOMAIN call[k]
    BY DEF CallsOK, IsRequest
<1>2. IsRequest(rec)
    BY <1>1, FieldSet
<1>3. CASE Answer(k)
    BY <1>3, AnswerMoves DEF ChatOps
<1>4. CASE call[k].socket /\ GoOn(k, rec)
    <2> HIDE DEF rec
    <2>1. {call[k].op, rec.op} \subseteq ChatOps \cup {"none"}
        BY <1>1 DEF ChatOps
    <2>2. /\ CallsOK' /\ Moves(ChatOps) /\ failed' = failed /\ call'[k] = rec
          /\ \A j \in Slots \ {k} : call'[j] = call[j]
        BY <1>2, <1>4, <2>1, GoOnMoves
    <2>3. QED
        BY <1>4, <2>2 DEF rec
<1>5. QED
    BY <1>3, <1>4 DEF AnswerWith

(* Steps of chat. *)
LEMMA ChatMoves ==
    ASSUME CallsOK, ChatNext
    PROVE  CallsOK' /\ Moves(ChatOps)
<1>1. ASSUME NEW k \in Slots, NEW a \in AccountIds, NEW p \in Pairs, StartConversation(k, a, p)
      PROVE  CallsOK' /\ Moves(ChatOps)
    <2> DEFINE rec == Contact("converse", "upsert", p,
                        [by |-> a, state |-> IF IsMutual(p) THEN "active" ELSE "request"])
    <2> HIDE DEF rec
    <2>1. Begin("start", k, rec)
        BY <1>1 DEF StartConversation, rec
    <2>2. "converse" \in ContactOps
        BY DEF ContactOps
    <2>3. Carries(rec, "converse", "upsert", p, [by |-> a, state |-> IF IsMutual(p) THEN "active" ELSE "request"])
        BY <2>2, ContactRequest DEF rec
    <2>4. IsRequest(rec) /\ rec.op = "converse"
        BY <2>3 DEF Carries
    <2>5. QED
        BY <2>1, <2>2, <2>4, BeginMoves DEF ChatOps
<1>2. ASSUME NEW k \in Slots, NEW a \in AccountIds, NEW p \in Pairs, NEW id \in ClientMsgIds, SendMessage(k, a, p, id)
      PROVE  CallsOK' /\ Moves(ChatOps)
    <2>1. PICK socket \in Ways :
            Begin("chat", k, Contact("send", "look", p, [by |-> a, id |-> id, seq |-> 0, socket |-> socket]))
        BY <1>2 DEF SendMessage
    <2> DEFINE rec == Contact("send", "look", p, [by |-> a, id |-> id, seq |-> 0, socket |-> socket])
    <2> HIDE DEF rec
    <2>2. Begin("chat", k, rec)
        BY <2>1 DEF rec
    <2>3. "send" \in ContactOps
        BY DEF ContactOps
    <2>4. Carries(rec, "send", "look", p, [by |-> a, id |-> id, seq |-> 0, socket |-> socket])
        BY <2>3, ContactRequest DEF rec
    <2>5. IsRequest(rec) /\ rec.op = "send"
        BY <2>4 DEF Carries
    <2>6. QED
        BY <2>2, <2>3, <2>5, BeginMoves DEF ChatOps
<1>3. ASSUME NEW k \in Slots, GetOrCreateConversation(k)
      PROVE  CallsOK' /\ Moves(ChatOps)
    BY <1>3, AnswerMoves DEF GetOrCreateConversation, At, ChatOps
<1>4. ASSUME NEW k \in Slots, LookForMessage(k)
      PROVE  CallsOK' /\ Moves(ChatOps)
    BY <1>4, AnswerWithMoves, GotoMoves DEF LookForMessage, At, ChatOps
<1>5. ASSUME NEW k \in Slots, InsertMessage(k)
      PROVE  CallsOK' /\ Moves(ChatOps)
    <2> DEFINE Held(pc) == [call[k] EXCEPT !.pc = pc, !.seq = Len(msgs[call[k].pair]) + 1]
    <2>1. call[k].op = "send"
        BY <1>5 DEF InsertMessage, At
    <2>2. ASSUME NEW pc, GoOn(k, Held(pc))
          PROVE  CallsOK' /\ Moves(ChatOps)
        <3> DEFINE rec == Held(pc)
        <3>1. rec.op = "send" /\ DOMAIN rec = DOMAIN call[k]
            BY <2>1 DEF CallsOK, IsRequest
        <3> HIDE DEF rec
        <3>2. IsRequest(rec)
            BY <2>1, <3>1, FieldSet
        <3>3. GoOn(k, rec) /\ {call[k].op, rec.op} \subseteq ChatOps \cup {"none"}
            BY <2>1, <2>2, <3>1 DEF rec, ChatOps
        <3>4. QED
            BY <3>2, <3>3, GoOnMoves
    <2>3. CASE Answer(k)
        BY <2>1, <2>3, AnswerMoves DEF ChatOps
    <2>4. QED
        BY <1>5, <2>2, <2>3 DEF InsertMessage
<1>6. ASSUME NEW k \in Slots, StopWaiting(k)
      PROVE  CallsOK' /\ Moves(ChatOps)
    BY <1>6, GotoMoves, AnswerMoves DEF StopWaiting, At, ChatOps
<1>7. ASSUME NEW k \in Slots, CommitMessage(k)
      PROVE  CallsOK' /\ Moves(ChatOps)
    BY <1>7, AnswerWithMoves DEF CommitMessage, At
<1>8. ASSUME NEW a \in AccountIds, NEW p \in Pairs, NEW i \in DOMAIN msgs[p], MarkRead(a, p, i)
      PROVE  CallsOK' /\ Moves(ChatOps)
    BY <1>8, NoMove DEF MarkRead, Serve, callVars
<1>9. ASSUME NEW a \in AccountIds, NEW p \in Pairs, NEW i \in DOMAIN msgs[p], DeleteForMe(a, p, i)
      PROVE  CallsOK' /\ Moves(ChatOps)
    BY <1>9, NoMove DEF DeleteForMe, Serve, callVars
<1>10. ASSUME NEW a \in AccountIds, NEW p \in Pairs, NEW i \in DOMAIN msgs[p], DeleteForEveryone(a, p, i)
      PROVE  CallsOK' /\ Moves(ChatOps)
    BY <1>10, NoMove DEF DeleteForEveryone, Serve, callVars
<1>11. ASSUME NEW a \in AccountIds, NEW p \in Pairs, NEW state \in {"active", "declined"}, SetConversationState(a, p, state)
      PROVE  CallsOK' /\ Moves(ChatOps)
    BY <1>11, NoMove DEF SetConversationState, Serve, callVars
<1>12. QED
    BY <1>1, <1>2, <1>3, <1>4, <1>5, <1>6, <1>7, <1>8, <1>9, <1>10, <1>11 DEF ChatNext

(* Steps of a page that shows a conversation. *)
LEMMA ThreadMoves ==
    ASSUME CallsOK, ThreadNext
    PROVE  CallsOK' /\ Moves(ChatOps)
<1>1. ASSUME NEW a \in AccountIds, NEW p \in Pairs, OpenThread(a, p)
      PROVE  CallsOK' /\ Moves(ChatOps)
    BY <1>1, NoMove DEF OpenThread, Serve, callVars
<1>2. ASSUME LoadHistory
      PROVE  CallsOK' /\ Moves(ChatOps)
    BY <1>2, NoMove DEF LoadHistory, Serve, callVars
<1>3. ASSUME Subscribe
      PROVE  CallsOK' /\ Moves(ChatOps)
    BY <1>3, NoMove DEF Subscribe, Serve, callVars
<1>4. ASSUME Disconnect
      PROVE  CallsOK' /\ Moves(ChatOps)
    BY <1>4, NoMove DEF Disconnect, Fail
<1>5. ASSUME CloseThread
      PROVE  CallsOK' /\ Moves(ChatOps)
    BY <1>5, NoMove DEF CloseThread, Serve, callVars
<1>6. ASSUME NEW k \in Slots, PublishMessage(k)
      PROVE  CallsOK' /\ Moves(ChatOps)
    BY <1>6, AnswerMoves DEF PublishMessage, At, ChatOps
<1>7. ASSUME Forward \/ Deliver
      PROVE  CallsOK' /\ Moves(ChatOps)
    BY <1>7, NoMove DEF Forward, Deliver, callVars
<1>8. QED
    BY <1>1, <1>2, <1>3, <1>4, <1>5, <1>6, <1>7 DEF ThreadNext

(* Steps of matchmaking. *)
LEMMA MatchMoves ==
    ASSUME CallsOK, MatchNext
    PROVE  CallsOK' /\ Moves(MatchOps)
<1>1. ASSUME NEW k \in Slots, NEW a \in AccountIds, CreateRequest(k, a)
      PROVE  CallsOK' /\ Moves(MatchOps)
    BY <1>1, BeginMoves DEF CreateRequest, IsRequest, ContactOps, MatchOps
<1>2. ASSUME NEW k \in Slots, NEW x \in DOMAIN cand, NEW d \in {"connect", "skip"}, Decide(k, x[1], x[2], d)
      PROVE  CallsOK' /\ Moves(MatchOps)
    <2> DEFINE rec == [op |-> "match", pc |-> "decide", by |-> requests[x[1]].acct,
                       req |-> x[1], about |-> x[2], say |-> d]
    <2>1. IsRequest(rec) /\ rec.op = "match"
        BY DEF IsRequest, ContactOps
    <2>2. Begin("match", k, rec)
        BY <1>2 DEF Decide
    <2> HIDE DEF rec
    <2>3. QED
        BY <2>1, <2>2, BeginMoves DEF MatchOps
<1>3. ASSUME NEW k \in Slots, NEW r \in DOMAIN requests, CancelRequest(k, r)
      PROVE  CallsOK' /\ Moves(MatchOps)
    BY <1>3, BeginMoves DEF CancelRequest, IsRequest, ContactOps, MatchOps
<1>4. ASSUME NEW k \in Slots, StoreRequest(k)
      PROVE  CallsOK' /\ Moves(MatchOps)
    <2> DEFINE rec == [op |-> "match", pc |-> "pick", by |-> call[k].by, req |-> Len(requests) + 1]
    <2>1. IsRequest(rec) /\ rec.op = "match"
        BY DEF IsRequest, ContactOps
    <2>2. GoOn(k, rec) /\ call[k].op = "match"
        BY <1>4 DEF StoreRequest, At
    <2> HIDE DEF rec
    <2>3. QED
        BY <2>1, <2>2, GoOnMoves DEF MatchOps
<1>5. ASSUME NEW k \in Slots, TryMatch(k)
      PROVE  CallsOK' /\ Moves(MatchOps)
    <2>1. call[k].op = "match"
        BY <1>5 DEF TryMatch, At
    <2>2. CASE Answer(k)
        BY <2>1, <2>2, AnswerMoves DEF MatchOps
    <2>3. ASSUME NEW p, NEW rest, GoOn(k, Contact("match", "offer", p, rest))
          PROVE  CallsOK' /\ Moves(MatchOps)
        <3> DEFINE rec == Contact("match", "offer", p, rest)
        <3> HIDE DEF rec
        <3>1. GoOn(k, rec)
            BY <2>3 DEF rec
        <3>2. "match" \in ContactOps
            BY DEF ContactOps
        <3>3. Carries(rec, "match", "offer", p, rest)
            BY <3>2, ContactRequest DEF rec
        <3>4. IsRequest(rec) /\ rec.op = "match"
            BY <3>3 DEF Carries
        <3>5. QED
            BY <2>1, <3>1, <3>4, GoOnMoves DEF MatchOps
    <2>4. QED
        BY <1>5, <2>2, <2>3 DEF TryMatch
<1>6. ASSUME NEW k \in Slots, Offer(k)
      PROVE  CallsOK' /\ Moves(MatchOps)
    BY <1>6, GotoMoves DEF Offer, At, MatchOps
<1>7. ASSUME NEW k \in Slots, OfferBack(k)
      PROVE  CallsOK' /\ Moves(MatchOps)
    BY <1>7, AnswerMoves DEF OfferBack, At, MatchOps
<1>8. ASSUME NEW k \in Slots, SetCandidateDecision(k)
      PROVE  CallsOK' /\ Moves(MatchOps)
    BY <1>8, GotoMoves DEF SetCandidateDecision, At, MatchOps
<1>9. ASSUME NEW k \in Slots, ExcludeSkipped(k)
      PROVE  CallsOK' /\ Moves(MatchOps)
    BY <1>9, GoOnMoves DEF ExcludeSkipped, At, IsRequest, ContactOps, MatchOps
<1>10. ASSUME NEW k \in Slots, FindMirror(k)
      PROVE  CallsOK' /\ Moves(MatchOps)
    <2>1. call[k].op = "match"
        BY <1>10 DEF FindMirror, At
    <2>2. CASE Answer(k)
        BY <2>1, <2>2, AnswerMoves DEF MatchOps
    <2>3. ASSUME NEW o, GoOn(k, Joined([call[k] EXCEPT !.pc = "mine"], [other |-> o]))
          PROVE  CallsOK' /\ Moves(MatchOps)
        <3> DEFINE rec == Joined([call[k] EXCEPT !.pc = "mine"], [other |-> o])
        <3>1. IsRequest(rec) /\ rec.op = "match"
            BY <2>1 DEF CallsOK, IsRequest, ContactOps, Joined
        <3> HIDE DEF rec
        <3>2. GoOn(k, rec)
            BY <2>3 DEF rec
        <3>3. QED
            BY <2>1, <3>1, <3>2, GoOnMoves DEF MatchOps
    <2>4. QED
        BY <1>10, <2>2, <2>3 DEF FindMirror
<1>11. ASSUME NEW k \in Slots, UpdateMine(k)
      PROVE  CallsOK' /\ Moves(MatchOps)
    BY <1>11, GotoMoves DEF UpdateMine, At, MatchOps
<1>12. ASSUME NEW k \in Slots, UpdateTheirs(k)
      PROVE  CallsOK' /\ Moves(MatchOps)
    BY <1>12, AnswerMoves DEF UpdateTheirs, At, MatchOps
<1>13. ASSUME NEW k \in Slots, StoreCancelled(k)
      PROVE  CallsOK' /\ Moves(MatchOps)
    BY <1>13, AnswerMoves DEF StoreCancelled, At, MatchOps
<1>14. QED
    BY <1>1, <1>2, <1>3, <1>4, <1>5, <1>6, <1>7, <1>8, <1>9, <1>10, <1>11, <1>12, <1>13 DEF MatchNext

(* Steps of spend limits. *)
LEMMA LimitsMoves ==
    ASSUME CallsOK, LimitsNext
    PROVE  CallsOK' /\ Moves(LimitOps)
<1>1. ASSUME NEW k \in Slots, NEW want, NEW cooling, UpdateSpendLimits(k, want, cooling)
      PROVE  CallsOK' /\ Moves(LimitOps)
    <2>1. PICK part, row :
            Begin(part, k, [op |-> "limits", pc |-> "set", missed |-> FALSE, want |-> want, row |-> row])
        BY <1>1 DEF UpdateSpendLimits
    <2> DEFINE rec == [op |-> "limits", pc |-> "set", missed |-> FALSE, want |-> want, row |-> row]
    <2>2. IsRequest(rec) /\ rec.op = "limits" /\ Begin(part, k, rec)
        BY <2>1 DEF IsRequest
    <2> HIDE DEF rec
    <2>3. QED
        BY <2>2, BeginMoves DEF LimitOps
<1>2. ASSUME NEW k \in Slots, SetLimits(k)
      PROVE  CallsOK' /\ Moves(LimitOps)
    <2>1. /\ call' = [j \in Slots |-> call'[j]] /\ failed' = failed
          /\ call[k].op = "limits" /\ call'[k] = Idle
          /\ \A j \in Slots \ {k} : call'[j] = IF call[j].op \in {"limits", "order"}
                                                THEN [call[j] EXCEPT !.missed = TRUE] ELSE call[j]
        BY <1>2 DEF SetLimits, At
    <2>2. ASSUME NEW j \in Slots, call'[j] = [call[j] EXCEPT !.missed = TRUE],
                 call[j].op \in {"limits", "order"}
          PROVE  IsRequest(call'[j]) /\ call'[j].op = call[j].op
        BY <2>2 DEF CallsOK, IsRequest
    <2>3. \A j \in Slots : IsRequest(call'[j])
        BY <2>1, <2>2, IdleFields DEF CallsOK
    <2>4. \A j \in Slots : call'[j] = call[j]
                            \/ {call[j].op, call'[j].op} \subseteq LimitOps \cup {"none"}
        BY <2>1, <2>2, IdleFields DEF LimitOps
    <2>5. QED
        BY <2>1, <2>3, <2>4 DEF CallsOK, Moves
<1>3. ASSUME Tick
      PROVE  CallsOK' /\ Moves(LimitOps)
    BY <1>3, NoMove DEF Tick, callVars
<1>4. QED
    BY <1>1, <1>2, <1>3 DEF LimitsNext

(* Steps of orders. *)
LEMMA PurchasesMoves ==
    ASSUME CallsOK, PurchasesNext
    PROVE  CallsOK' /\ Moves(LimitOps)
<1>1. ASSUME NEW k \in Slots, NEW key \in OrderKeys, NEW coins \in Packs, CreateOrder(k, key, coins)
      PROVE  CallsOK' /\ Moves(LimitOps)
    <2>1. PICK row, missed :
            Begin("orders", k, [op |-> "order", pc |-> "sum", key |-> key, coins |-> coins,
                                row |-> row, unchecked |-> Caps, missed |-> missed])
        BY <1>1 DEF CreateOrder
    <2> DEFINE rec == [op |-> "order", pc |-> "sum", key |-> key, coins |-> coins,
                       row |-> row, unchecked |-> Caps, missed |-> missed]
    <2>2. IsRequest(rec) /\ rec.op = "order" /\ Begin("orders", k, rec)
        BY <2>1 DEF IsRequest
    <2> HIDE DEF rec
    <2>3. QED
        BY <2>2, BeginMoves DEF LimitOps
<1>2. ASSUME NEW k \in Slots, NEW c \in Caps, CheckSpendLimit(k, c)
      PROVE  CallsOK' /\ Moves(LimitOps)
    <2> DEFINE rec == [call[k] EXCEPT !.unchecked = @ \ {c}]
    <2>1. call[k].op = "order"
        BY <1>2 DEF CheckSpendLimit, At
    <2>2. rec.op = "order" /\ DOMAIN rec = DOMAIN call[k]
        BY <2>1 DEF CallsOK, IsRequest
    <2>3. IsRequest(rec)
        BY <2>1, <2>2, FieldSet
    <2>4. Answer(k) \/ GoOn(k, rec)
        BY <1>2 DEF CheckSpendLimit
    <2> HIDE DEF rec
    <2>5. QED
        BY <2>1, <2>2, <2>3, <2>4, AnswerMoves, GoOnMoves DEF LimitOps
<1>3. ASSUME NEW k \in Slots, StoreOrder(k)
      PROVE  CallsOK' /\ Moves(LimitOps)
    <2>1. /\ call' = [j \in Slots |-> call'[j]] /\ failed' = failed
          /\ call[k].op = "order"
          /\ call'[k] = [call[k] EXCEPT !.pc = "remember"]
          /\ \A j \in Slots \ {k} : call'[j] = IF call[j].op = "order"
                                                THEN [call[j] EXCEPT !.missed = TRUE] ELSE call[j]
        BY <1>3 DEF StoreOrder, At
    <2>2. ASSUME NEW j \in Slots, NEW r, NEW f \in {"missed", "pc"}, NEW v,
                 r = [call[j] EXCEPT ![f] = v]
          PROVE  (call[j].op = "order" => IsRequest(r) /\ r.op = "order")
        BY <2>2 DEF CallsOK, IsRequest
    <2>3. \A j \in Slots : IsRequest(call'[j]) /\ (call'[j] = call[j] \/ (call[j].op = "order" /\ call'[j].op = "order"))
        BY <2>1, <2>2 DEF CallsOK
    <2>4. QED
        BY <2>1, <2>3 DEF CallsOK, Moves, LimitOps
<1>4. ASSUME NEW k \in Slots, RememberKey(k)
      PROVE  CallsOK' /\ Moves(LimitOps)
    BY <1>4, AnswerMoves DEF RememberKey, At, LimitOps
<1>5. ASSUME NEW i \in DOMAIN bought, OrderFails(i)
      PROVE  CallsOK' /\ Moves(LimitOps)
    BY <1>5, NoMove DEF OrderFails, Serve
<1>6. ASSUME Restart
      PROVE  CallsOK' /\ Moves(LimitOps)
    <2>1. failed' = failed + 1 /\ call' = [k \in Slots |-> Idle]
        BY <1>6 DEF Restart, Fail
    <2>2. QED
        BY <2>1, IdleFields DEF CallsOK, Moves
<1>7. QED
    BY <1>1, <1>2, <1>3, <1>4, <1>5, <1>6 DEF PurchasesNext

(* Steps of the feed. *)
LEMMA FeedMoves ==
    ASSUME CallsOK, FeedNext
    PROVE  CallsOK' /\ Moves(FeedOps)
<1>1. ASSUME NEW r \in RoomIds, CreateRoom(r)
      PROVE  CallsOK' /\ Moves(FeedOps)
    BY <1>1, NoMove DEF CreateRoom, Serve
<1>2. ASSUME NEW r \in RoomIds, EndRoom(r)
      PROVE  CallsOK' /\ Moves(FeedOps)
    BY <1>2, NoMove DEF EndRoom, Serve
<1>3. ASSUME NEW k \in Slots, NEW tab, NEW cursor, FetchFeed(k, tab, cursor)
      PROVE  CallsOK' /\ Moves(FeedOps)
    BY <1>3, BeginMoves DEF FetchFeed, IsRequest, FeedOps
<1>4. ASSUME NEW k \in Slots, NEW tab, ChangeTab(k, tab)
      PROVE  CallsOK' /\ Moves(FeedOps)
    BY <1>3, <1>4, NoMove DEF ChangeTab, callVars
<1>5. ASSUME NEW k \in Slots, Reload(k) \/ LoadMore(k)
      PROVE  CallsOK' /\ Moves(FeedOps)
    BY <1>3, <1>5 DEF Reload, LoadMore
<1>6. ASSUME NEW k \in Slots, NEW ids, NEW offset, NEW restarted, call[k].op = "feed",
             Paging(k, ids, offset, restarted)
      PROVE  CallsOK' /\ Moves(FeedOps)
    <2> DEFINE rec == Joined([call[k] EXCEPT !.pc = "cards"],
                             [ids |-> ids, from |-> offset, next |-> offset + 1, items |-> <<>>,
                              restarted |-> restarted])
    <2>1. IsRequest(rec) /\ rec.op = "feed"
        BY <1>6 DEF CallsOK, IsRequest, Joined, ContactOps
    <2>2. GoOn(k, rec)
        BY <1>6 DEF Paging
    <2> HIDE DEF rec
    <2>3. QED
        BY <1>6, <2>1, <2>2, GoOnMoves DEF FeedOps
<1>7. ASSUME NEW k \in Slots, FollowSnapshot(k) \/ RankAfresh(k)
      PROVE  CallsOK' /\ Moves(FeedOps)
    BY <1>6, <1>7 DEF FollowSnapshot, RankAfresh, At
<1>8. ASSUME NEW k \in Slots, GetRoomCard(k)
      PROVE  CallsOK' /\ Moves(FeedOps)
    <2> DEFINE skipped == [call[k] EXCEPT !.next = @ + 1]
               shown(r) == [skipped EXCEPT !.items = Append(@, r)]
    <2>1. call[k].op = "feed"
        BY <1>8 DEF GetRoomCard, At
    <2>2. skipped.op = "feed" /\ DOMAIN skipped = DOMAIN call[k]
        BY <2>1 DEF CallsOK, IsRequest
    <2>3. IsRequest(skipped)
        BY <2>1, <2>2, FieldSet
    <2>4. ASSUME NEW r
          PROVE  shown(r).op = "feed" /\ IsRequest(shown(r))
        <3>1. shown(r).op = "feed" /\ DOMAIN shown(r) = DOMAIN call[k]
            BY <2>1, <2>2 DEF CallsOK, IsRequest
        <3> DEFINE rec == shown(r)
        <3>2. rec.op = "feed" /\ DOMAIN rec = DOMAIN call[k]
            BY <3>1
        <3> HIDE DEF rec
        <3>3. IsRequest(rec)
            BY <2>1, <3>2, FieldSet
        <3>4. QED
            BY <3>1, <3>3 DEF rec
    <2>5. \/ GoOn(k, skipped)
          \/ \E r : GoOn(k, shown(r))
          \/ failed' = failed + 1 /\ call' = [call EXCEPT ![k] = skipped]
        BY <1>8 DEF GetRoomCard, Fail
    <2> HIDE DEF skipped, shown
    <2>6. CASE GoOn(k, skipped)
        BY <2>1, <2>2, <2>3, <2>6, GoOnMoves DEF FeedOps
    <2>7. ASSUME NEW r, GoOn(k, shown(r))
          PROVE  CallsOK' /\ Moves(FeedOps)
        BY <2>1, <2>4, <2>7, GoOnMoves DEF FeedOps
    <2>8. CASE failed' = failed + 1 /\ call' = [call EXCEPT ![k] = skipped]
        <3>1. {call[k].op, skipped.op} \subseteq FeedOps \cup {"none"}
            BY <2>1, <2>2 DEF FeedOps
        <3>2. QED
            BY <2>3, <2>8, <3>1, OneMoves
    <2>9. QED
        BY <2>5, <2>6, <2>7, <2>8
<1>9. ASSUME NEW k \in Slots, Show(k)
      PROVE  CallsOK' /\ Moves(FeedOps)
    BY <1>9, AnswerMoves DEF Show, At, FeedOps
<1>10. QED
    BY <1>1, <1>2, <1>4, <1>5, <1>7, <1>8, <1>9 DEF FeedNext

(* Steps of the state file, of which none is of a request. *)
LEMMA LocalMoves ==
    ASSUME CallsOK, LocalNext
    PROVE  CallsOK' /\ Moves({})
<1>1. call' = call /\ failed' \in {failed, failed + 1}
    <2>1. ASSUME NEW person, Register(person) PROVE call' = call /\ failed' = failed
        BY <2>1 DEF Register, Serve
    <2>2. ASSUME NEW part, NEW id, StoreRow(part, id) PROVE call' = call /\ failed' = failed
        BY <2>2 DEF StoreRow, Serve
    <2>3. ASSUME NEW s, StartSave(s) PROVE call' = call /\ failed' = failed
        BY <2>3 DEF StartSave, Serve
    <2>4. ASSUME NEW s, SnapshotPart(s) \/ OpenTmp(s) \/ WriteTmp(s) \/ RenameTmp(s)
          PROVE  call' = call /\ failed' = failed
        BY <2>4 DEF SnapshotPart, OpenTmp, WriteTmp, RenameTmp, callVars
    <2>5. ASSUME Exit \/ Killed PROVE call' = call /\ failed' \in {failed, failed + 1}
        BY <2>5 DEF Exit, Killed, StartUp, Fail
    <2>6. QED
        BY <2>1, <2>2, <2>3, <2>4, <2>5 DEF LocalNext
<1>2. QED
    BY <1>1, NoMove

(* Steps of a broadcast's pages, of which none is of a request. *)
LEMMA BroadcastMoves ==
    ASSUME CallsOK, BroadcastNext
    PROVE  CallsOK' /\ Moves({})
<1>1. call' = call /\ failed' = failed
    <2>1. ASSUME StartCamera \/ StopCamera \/ RenderRoom \/ TakeAnswer
          PROVE  call' = call /\ failed' = failed
        BY <2>1 DEF StartCamera, StopCamera, RenderRoom, TakeAnswer, Serve, callVars
    <2>2. ASSUME NEW v, EnterRoom(v) \/ LeaveRoom(v) \/ SendOffer(v) \/ OfferRejected(v) \/ AnswerOffer(v)
          PROVE  call' = call /\ failed' = failed
        BY <2>2 DEF EnterRoom, LeaveRoom, SendOffer, OfferRejected, AnswerOffer, Serve, callVars
    <2>3. ASSUME NEW v, NEW kind, Relay(kind, v)
          PROVE  call' = call /\ failed' = failed
        BY <2>3 DEF Relay, callVars
    <2>4. QED
        BY <2>1, <2>2, <2>3 DEF BroadcastNext
<1>2. QED
    BY <1>1, NoMove

(* The twin stores are asked; no request is in flight for that. *)
LEMMA AskMoves ==
    \A part, m, p, d : AskKnowing(part, m, p, d) => call' = call /\ failed' = failed
BY DEF AskKnowing, Serve

(* Steps of the twin stores. *)
LEMMA StoresMoves ==
    ASSUME CallsOK, StoresNext
    PROVE  CallsOK' /\ Moves({})
<1>1. ASSUME PeopleNext PROVE call' = call /\ failed' = failed
    BY <1>1, AskMoves DEF PeopleNext, AskBlock, AskFollow, AskPrivacy, AskProfile, AskUnblock, AskUnfollow, AskUpdateProfile, Ask
<1>2. ASSUME InboxNext PROVE call' = call /\ failed' = failed
    BY <1>2, AskMoves DEF InboxNext, AskAnswerRequest, AskDeleteMessage, AskMarkRead, AskSendMessage, AskStartConversation, Ask
<1>3. ASSUME CaseworkNext PROVE call' = call /\ failed' = failed
    BY <1>3, AskMoves DEF CaseworkNext, AskAppeal, AskDecideAppeal, AskEnforce, AskGrant, AskReport, AskRiskSignal, AskTriage, Ask
<1>4. ASSUME RoomsNext PROVE call' = call /\ failed' = failed
    BY <1>4, AskMoves DEF RoomsNext, AskPremium, AskStop, AskStream, AskUnlock, StoreViewerCount, Ask
<1>5. ASSUME EarningsNext PROVE call' = call /\ failed' = failed
    BY <1>5, AskMoves DEF EarningsNext, AskApproveKyc, AskKyc, AskPayout, AskPayoutProfile, AskTransition, Ask
<1>6. ASSUME AccountsNext PROVE call' = call /\ failed' = failed
    BY <1>6, AskMoves DEF AccountsNext, AskAge, AskCancelDeletion, AskDeletion, AskLogin, AskLogout, AskRefresh, AskRegister, AskStanding, AskVerify, Ask
<1>7. ASSUME HelpdeskNext PROVE call' = call /\ failed' = failed
    BY <1>7, AskMoves DEF HelpdeskNext, AskDelegate, AskReply, AskResolve, AskRole, AskTicket, Ask
<1>8. ASSUME PairingNext PROVE call' = call /\ failed' = failed
    BY <1>8, AskMoves DEF PairingNext, AskCancel, AskDecide, AskMatch, AskOffer, AskPreferences, Ask
<1>9. call' = call /\ failed' = failed
    BY <1>1, <1>2, <1>3, <1>4, <1>5, <1>6, <1>7, <1>8 DEF StoresNext
<1>10. QED
    BY <1>9, NoMove

(* A request ends early. *)
LEMMA CutShortMoves ==
    ASSUME CallsOK, CutShort
    PROVE  /\ CallsOK' /\ Moves({}) /\ failed' = failed + 1
           /\ \E k \in Slots : /\ call'[k] = Idle
                               /\ \A j \in Slots \ {k} : call'[j] = call[j]
<1>1. PICK k \in Slots : EndEarly(k)
    BY DEF CutShort
<1>2. call' = [call EXCEPT ![k] = Idle] /\ failed' = failed + 1 /\ failed' # failed
    BY <1>1 DEF EndEarly, Fail, CallsOK
<1>3. /\ CallsOK' /\ Moves({}) /\ call'[k] = Idle
      /\ \A j \in Slots \ {k} : call'[j] = call[j]
    BY <1>2, OneMoves, IdleFields
<1>4. QED
    BY <1>2, <1>3

-----------------------------------------------------------------------------
(* The steps of all services together *)

(* A step that moves few kinds of requests moves no more than many. *)
LEMMA MovesMore ==
    ASSUME NEW few, NEW many, few \subseteq many, Moves(few)
    PROVE  Moves(many)
BY DEF Moves

(* Steps of the services that put accounts in touch. *)
LEMMA ContactNextMoves ==
    ASSUME CallsOK, ContactNext
    PROVE  CallsOK' /\ Moves(ContactOps)
<1>1. MatchOps \subseteq ContactOps /\ ChatOps \subseteq ContactOps
    BY DEF MatchOps, ChatOps, ContactOps
<1>2. QED
    BY <1>1, SocialMoves, ChatMoves, ThreadMoves, MatchMoves, MovesMore DEF ContactNext

(* Steps of the services about accounts' standing. *)
LEMMA StandingNextMoves ==
    ASSUME CallsOK, StandingNext
    PROVE  CallsOK' /\ Moves(StandingOps)
<1>1. CASE AuthNext
    BY <1>1, AuthMoves, MovesMore DEF AuthOps, StandingOps
<1>2. CASE ModerationNext
    BY <1>2, ModerationMoves, MovesMore DEF ModerationOps, StandingOps
<1>3. CASE StreamingNext
    <2>1. StreamingOps \subseteq StandingOps
        BY DEF StreamingOps, StandingOps
    <2>2. QED
        BY <1>3, <2>1, StreamingMoves, MovesMore
<1>4. CASE CodesNext
    BY <1>4, CodesMoves, MovesMore DEF CodesOps, StandingOps
<1>5. CASE SignInNext
    BY <1>5, SignInMoves, MovesMore DEF SignInOps, StandingOps
<1>6. QED
    BY <1>1, <1>2, <1>3, <1>4, <1>5 DEF StandingNext

(* Steps of the services that deal with coins. *)
LEMMA MoneyNextMoves ==
    ASSUME CallsOK, MoneyNext
    PROVE  CallsOK' /\ Moves(MoneyOps)
<1>1. CASE PremiumNext
    BY <1>1, PremiumMoves, MovesMore DEF PremiumOps, MoneyOps
<1>2. CASE LimitsNext
    BY <1>2, LimitsMoves, MovesMore DEF LimitOps, MoneyOps
<1>3. CASE PurchasesNext
    BY <1>3, PurchasesMoves, MovesMore DEF LimitOps, MoneyOps
<1>4. QED
    BY <1>1, <1>2, <1>3 DEF MoneyNext

(* Steps of the services that share nothing with others. *)
LEMMA ApartNextMoves ==
    ASSUME CallsOK, ApartNext
    PROVE  CallsOK' /\ Moves(ApartOps)
<1>1. CASE FeedNext
    BY <1>1, FeedMoves, MovesMore DEF FeedOps, ApartOps
<1>2. CASE LocalNext \/ BroadcastNext \/ StoresNext
    BY <1>2, LocalMoves, BroadcastMoves, StoresMoves, MovesMore
<1>3. CASE RiskNext
    BY <1>3, RiskMoves, MovesMore DEF RiskOps, ApartOps
<1>4. CASE DeskNext
    BY <1>4, DeskMoves, MovesMore DEF DeskOps, ApartOps
<1>5. QED
    BY <1>1, <1>2, <1>3, <1>4 DEF ApartNext

(* Every step keeps the requests well formed, and moves those of one group of services. *)
LEMMA StepMoves ==
    ASSUME CallsOK, [Next]_vars
    PROVE  /\ CallsOK'
           /\ \/ ContactNext /\ Moves(ContactOps)
              \/ StandingNext /\ Moves(StandingOps)
              \/ MoneyNext /\ Moves(MoneyOps)
              \/ ApartNext /\ Moves(ApartOps)
              \/ CutShort /\ Moves({})
              \/ UNCHANGED vars /\ Moves({})
<1>1. CASE UNCHANGED vars
    BY <1>1, NoMove DEF vars, callVars
<1>2. QED
    BY <1>1, ContactNextMoves, StandingNextMoves, MoneyNextMoves, ApartNextMoves, CutShortMoves
    DEF Next

(* At first no request is in flight. *)
LEMMA InitCalls == Init => CallsOK
<1>1. Init => /\ call = [k \in Slots |-> Idle] /\ failed = 0
    BY DEF Init, CallsInit
<1>2. QED
    BY <1>1, IdleFields DEF CallsOK

(* A step leaves requests of these kinds alone, or ends one early. *)
Spares(ops) ==
    /\ failed' \in {failed, failed + 1}
    /\ \A k \in Slots : call[k].op \in ops \/ call'[k].op \in ops =>
        call'[k] = call[k] \/ (call'[k] = Idle /\ failed' # failed)

(* Moving some kinds of requests leaves the others alone. *)
LEMMA OthersSpared ==
    ASSUME NEW moved, NEW spared, Moves(moved), moved \cap spared = {}, "none" \notin spared
    PROVE  Spares(spared)
BY DEF Moves, Spares

(* No kind of request is of two groups. *)
LEMMA GroupsApart ==
    /\ ContactOps \cap StandingOps = {} /\ MoneyOps \cap StandingOps = {}
    /\ ApartOps \cap StandingOps = {} /\ MoneyOps \cap ContactOps = {}
    /\ ApartOps \cap ContactOps = {} /\ ApartOps \cap MoneyOps = {}
    /\ "none" \notin ContactOps \cup StandingOps \cup MoneyOps \cup ApartOps
BY DEF ContactOps, StandingOps, MoneyOps, ApartOps

(* The requests of a group are left alone by the steps of the other groups. *)
LEMMA GroupsSpared ==
    /\ Moves(ContactOps) => Spares(StandingOps) /\ Spares(MoneyOps) /\ Spares(ApartOps)
    /\ Moves(StandingOps) => Spares(ContactOps) /\ Spares(MoneyOps) /\ Spares(ApartOps)
    /\ Moves(MoneyOps) => Spares(ContactOps) /\ Spares(StandingOps) /\ Spares(ApartOps)
    /\ Moves(ApartOps) => Spares(ContactOps) /\ Spares(StandingOps) /\ Spares(MoneyOps)
    /\ Moves({}) => /\ Spares(ContactOps) /\ Spares(StandingOps)
                    /\ Spares(MoneyOps) /\ Spares(ApartOps)
<1>1. ASSUME NEW moved, NEW spared, Moves(moved), moved \cap spared = {}, "none" \notin spared
      PROVE  Spares(spared)
    BY <1>1, OthersSpared
<1>2. \A s \in {ContactOps, StandingOps, MoneyOps, ApartOps} : {} \cap s = {} /\ "none" \notin s
    BY GroupsApart
<1>3. QED
    BY <1>1, <1>2, GroupsApart

(* Requests about accounts' standing are left alone by the other groups. *)
LEMMA StandingFrame ==
    ASSUME CallsOK, [Next]_vars
    PROVE  CallsOK' /\ (StandingNext \/ (UNCHANGED standingVars /\ Spares(StandingOps)))
<1>1. CASE UNCHANGED vars /\ Moves({})
    <2>1. UNCHANGED standingVars
        BY <1>1 DEF vars, standingVars
    <2>2. QED
        BY <1>1, <2>1, StepMoves, GroupsSpared
<1>2. QED
    BY <1>1, StepMoves, GroupsSpared DEF ContactNext, MoneyNext, ApartNext, CutShort

-----------------------------------------------------------------------------
(* Accounts, sessions and codes *)

SessionOps == {"login", "refresh", "start", "verify", "register", "password"}

SessionRow == [acct : AccountIds, device : Devices, revoked : BOOLEAN, revokedOnce : BOOLEAN]

Challenge == [phone : Phones, attempts : Nat, stored : BOOLEAN, expired : BOOLEAN,
              wrong : Nat, opened : Nat, crossed : BOOLEAN]

(* A request's local variables, and what the rows they point to are like. *)
SessionCall(r) ==
    /\ r.op = "login" => r \in [op : {"login"}, pc : {"create"}, acct : AccountIds, device : Devices]
    /\ r.op = "refresh" =>
        /\ r \in [op : {"refresh"}, pc : {"family", "account", "rotate"}, sess : Nat, late : BOOLEAN]
        /\ r.sess \in DOMAIN sessions
        /\ r.late => r.pc = "family"
    /\ r.op = "start" => r \in [op : {"start"}, pc : {"count", "send"}, phone : Phones]
    /\ r.op = "verify" =>
        /\ r \in [op : {"verify"}, code : Nat, attempts : Nat, phone : Phones,
                  number : Phones, device : Devices,
                  pc : {"discard", "lock", "setback", "accept", "find", "insert"}]
        /\ r.code \in DOMAIN challenges
    /\ r.op = "register" =>
        /\ r \in [op : {"register"}, pc : {"insert", "hash"}, email : Emails, device : Devices]
        /\ r.pc = "hash" => holder[r.email] \in AccountIds
    /\ r.op = "password" =>
        r \in [op : {"password"}, pc : {"hash"}, email : Emails, device : Devices, shut : BOOLEAN]

SessionRowsOK ==
    /\ sessions \in Seq(SessionRow)
    /\ \A s \in DOMAIN sessions : sessions[s].revokedOnce = sessions[s].revoked
    /\ challenges \in Seq(Challenge)
    /\ sends \in [Phones -> Nat]
    /\ holder \in [Phones \cup Emails -> AccountIds \cup {NoAccount}]

HashedOK == hashed \subseteq AccountIds

SessionsOK ==
    /\ SessionRowsOK
    /\ \A k \in Slots : SessionCall(call[k])

(* Rows stay, and so do the accounts that hold an address. *)
RowsStay ==
    /\ DOMAIN sessions \subseteq DOMAIN sessions'
    /\ DOMAIN challenges \subseteq DOMAIN challenges'
    /\ \A n \in Phones \cup Emails : holder[n] \in AccountIds => holder'[n] \in AccountIds

(* An idle slot makes no session. *)
LEMMA IdleSession == SessionCall(Idle)
BY DEF SessionCall, Idle

(* What a request knows of sessions stays true as long as they are there. *)
LEMMA SessionCallStays ==
    ASSUME NEW r, SessionCall(r), RowsStay PROVE SessionCall(r)'
BY DEF SessionCall, RowsStay

(* One slot changes, and no row goes. *)
LEMMA SessionsStay ==
    ASSUME SessionsOK, SessionRowsOK', RowsStay, NEW k \in Slots, SessionCall(call[k])',
           \A j \in Slots \ {k} : call'[j] = call[j]
    PROVE  SessionsOK'
<1>1. ASSUME NEW j \in Slots \ {k}
      PROVE  SessionCall(call[j])'
    <2>1. SessionCall(call[j])
        BY DEF SessionsOK
    <2>2. call'[j] = call[j]
        OBVIOUS
    <2>3. QED
        BY <2>1, <2>2 DEF SessionCall, RowsStay
<1>2. QED
    BY <1>1 DEF SessionsOK

(* No row changes. *)
LEMMA SessionRowsSame ==
    ASSUME SessionRowsOK, UNCHANGED <<sessions, challenges, sends, holder>>
    PROVE  SessionRowsOK' /\ RowsStay
BY DEF SessionRowsOK, RowsStay

(* A request ends, and no row goes. *)
LEMMA SessionAnswered ==
    ASSUME SessionsOK, CallsOK, SessionRowsOK', RowsStay, NEW k \in Slots, Answer(k)
    PROVE  SessionsOK'
<1>1. call' = [call EXCEPT ![k] = Idle] /\ call = [j \in Slots |-> call[j]]
    BY DEF Answer, GoOn, CallsOK
<1>2. SessionCall(call[k])'
    BY <1>1 DEF SessionCall, Idle
<1>3. QED
    BY <1>1, <1>2, SessionsStay

(* Requests that a service of others moves. *)
LEMMA SessionsSpared ==
    ASSUME SessionsOK, UNCHANGED <<sessions, codeVars, signInVars>>, Spares(SessionOps)
    PROVE  SessionsOK'
<1>1. UNCHANGED <<sessions, challenges, sends, holder>>
    BY DEF codeVars, signInVars
<1>2. SessionRowsOK'
    BY <1>1, SessionRowsSame DEF SessionsOK
<1>3. ASSUME NEW k \in Slots
      PROVE  SessionCall(call[k])'
    <2>1. CASE call'[k] = call[k]
        BY <1>1, <2>1 DEF SessionsOK, SessionCall
    <2>2. CASE call'[k] # call[k] /\ call'[k].op \notin SessionOps
        BY <2>2 DEF SessionCall, SessionOps
    <2>3. CASE call'[k] # call[k] /\ call'[k] = Idle
        BY <2>3 DEF SessionCall, Idle
    <2>4. QED
        BY <2>1, <2>2, <2>3 DEF Spares
<1>4. QED
    BY <1>2, <1>3 DEF SessionsOK

(* One row of a sequence is written. *)
LEMMA RowWritten ==
    ASSUME NEW S, NEW rows \in Seq(S), NEW others,
           others = [i \in DOMAIN rows |-> others[i]], \A i \in DOMAIN rows : others[i] \in S
    PROVE  others \in Seq(S) /\ DOMAIN others = DOMAIN rows /\ Len(others) = Len(rows)
OBVIOUS

(* Accounts and sessions keep the rows and their requests well formed. *)
LEMMA AuthKeeps ==
    ASSUME CallsOK, SessionsOK, AuthNext, UNCHANGED <<codeVars, signInVars>>
    PROVE  SessionsOK'
<1>1. UNCHANGED <<challenges, sends, holder>> /\ SessionRowsOK
    BY DEF codeVars, signInVars, SessionsOK
<1>2. ASSUME NEW k \in Slots, NEW a \in AccountIds, NEW d \in Devices, Login(k, a, d)
      PROVE  SessionsOK'
    <2> DEFINE rec == [op |-> "login", pc |-> "create", acct |-> a, device |-> d]
    <2>1. Begin("auth", k, rec) /\ IsRequest(rec) /\ rec.op = "login" /\ sessions' = sessions
        BY <1>2 DEF Login, IsRequest, authVars
    <2> HIDE DEF rec
    <2>2. call'[k] = rec /\ \A j \in Slots \ {k} : call'[j] = call[j]
        BY <2>1, BeginMoves DEF AuthOps
    <2>3. SessionCall(call[k])'
        BY <2>2 DEF SessionCall, rec
    <2>4. QED
        BY <1>1, <2>1, <2>2, <2>3, SessionRowsSame, SessionsStay
<1>3. ASSUME NEW k \in Slots, NEW s \in DOMAIN sessions, RefreshTokens(k, s)
      PROVE  SessionsOK'
    <2> DEFINE rec == [op |-> "refresh", sess |-> s, late |-> sessions[s].revokedOnce,
                       pc |-> IF sessions[s].revoked THEN "family" ELSE "account"]
    <2>1. Begin("auth", k, rec) /\ IsRequest(rec) /\ rec.op = "refresh" /\ sessions' = sessions
        BY <1>3 DEF RefreshTokens, IsRequest, authVars
    <2> HIDE DEF rec
    <2>2. call'[k] = rec /\ \A j \in Slots \ {k} : call'[j] = call[j]
        BY <2>1, BeginMoves DEF AuthOps
    <2>3. s \in Nat /\ sessions[s] \in SessionRow /\ sessions[s].revokedOnce = sessions[s].revoked
        BY <1>1 DEF SessionRowsOK
    <2>4. SessionCall(call[k])'
        BY <2>1, <2>2, <2>3 DEF SessionCall, rec, SessionRow
    <2>5. QED
        BY <1>1, <2>1, <2>2, <2>4, SessionRowsSame, SessionsStay
<1>4. ASSUME NEW k \in Slots, CreateSession(k)
      PROVE  SessionsOK'
    <2> DEFINE row == [acct |-> call[k].acct, device |-> call[k].device,
                       revoked |-> FALSE, revokedOnce |-> FALSE]
    <2>1. sessions' = Append(sessions, row) /\ Answer(k) /\ call[k].op = "login"
        BY <1>4 DEF CreateSession, At
    <2>2. row \in SessionRow /\ row.revokedOnce = row.revoked
        BY <2>1 DEF SessionsOK, SessionCall, SessionRow
    <2> HIDE DEF row
    <2>3. SessionRowsOK' /\ RowsStay
        BY <1>1, <2>1, <2>2 DEF SessionRowsOK, RowsStay
    <2>4. QED
        BY <2>1, <2>3, SessionAnswered
<1>5. ASSUME NEW k \in Slots, RevokeAllDeviceSessions(k)
      PROVE  SessionsOK'
    <2>1. Answer(k) /\ sessions' = [i \in DOMAIN sessions |-> sessions'[i]]
        BY <1>5 DEF RevokeAllDeviceSessions
    <2>2. ASSUME NEW i \in DOMAIN sessions
          PROVE  /\ sessions'[i] \in SessionRow
                 /\ sessions'[i].revokedOnce = sessions'[i].revoked
        <3>1. sessions[i] \in SessionRow /\ sessions[i].revokedOnce = sessions[i].revoked
            BY <1>1 DEF SessionRowsOK
        <3>2. sessions'[i] \in {Revoked(sessions[i]), sessions[i]}
            BY <1>5 DEF RevokeAllDeviceSessions
        <3>3. QED
            BY <3>1, <3>2 DEF Revoked, SessionRow
    <2>3. sessions' \in Seq(SessionRow) /\ DOMAIN sessions' = DOMAIN sessions
        BY <1>1, <2>1, <2>2, RowWritten DEF SessionRowsOK
    <2>4. SessionRowsOK' /\ RowsStay
        BY <1>1, <2>2, <2>3 DEF SessionRowsOK, RowsStay
    <2>5. QED
        BY <2>1, <2>4, SessionAnswered
<1>6. ASSUME NEW k \in Slots, FindAccount(k)
      PROVE  SessionsOK'
    <2>1. sessions' = sessions /\ At(k, "refresh", "account")
        BY <1>6 DEF FindAccount, authVars
    <2>2. CASE Answer(k)
        BY <1>1, <2>1, <2>2, SessionRowsSame, SessionAnswered
    <2>3. CASE Goto(k, "rotate")
        <3>1. /\ call'[k] = [call[k] EXCEPT !.pc = "rotate"]
              /\ \A j \in Slots \ {k} : call'[j] = call[j]
            BY <2>1, <2>3, GotoMoves DEF At, AuthOps
        <3>2. SessionCall(call[k])'
            BY <2>1, <3>1 DEF SessionsOK, SessionCall, At
        <3>3. QED
            BY <1>1, <2>1, <3>1, <3>2, SessionRowsSame, SessionsStay
    <2>4. QED
        BY <1>6, <2>2, <2>3 DEF FindAccount
<1>7. ASSUME NEW k \in Slots, RotateSession(k)
      PROVE  SessionsOK'
    <2>1. sessions' = sessions /\ Answer(k)
        BY <1>7 DEF RotateSession, authVars
    <2>2. QED
        BY <1>1, <2>1, SessionRowsSame, SessionAnswered
<1>8. ASSUME NEW s \in DOMAIN sessions, Logout(s)
      PROVE  SessionsOK'
    <2>1. call' = call /\ sessions' = [sessions EXCEPT ![s] = Revoked(sessions[s])]
        BY <1>8 DEF Logout
    <2>2. Revoked(sessions[s]) \in SessionRow
          /\ Revoked(sessions[s]).revokedOnce = Revoked(sessions[s]).revoked
        <3>1. sessions[s] \in SessionRow
            BY <1>1 DEF SessionRowsOK
        <3>2. QED
            BY <3>1 DEF SessionRow, Revoked
    <2>3. SessionRowsOK' /\ RowsStay
        BY <1>1, <2>1, <2>2 DEF SessionRowsOK, RowsStay
    <2>4. QED
        BY <2>1, <2>3 DEF SessionsOK, SessionCall, RowsStay
<1>9. ASSUME NEW a \in AccountIds, RequestDeletion(a) \/ CancelDeletion(a)
      PROVE  SessionsOK'
    <2>1. call' = call /\ sessions' = sessions
        BY <1>9 DEF RequestDeletion, CancelDeletion
    <2>2. SessionRowsOK' /\ RowsStay
        BY <1>1, <2>1, SessionRowsSame
    <2>3. QED
        BY <2>1, <2>2 DEF SessionsOK, SessionCall, RowsStay
<1>10. QED
    BY <1>2, <1>3, <1>4, <1>5, <1>6, <1>7, <1>8, <1>9 DEF AuthNext

(* The check of a code goes on. *)
LEMMA VerifyGoesOn ==
    ASSUME CallsOK, SessionsOK, SessionRowsOK', RowsStay, NEW k \in Slots,
           call[k].op = "verify", NEW pc \in {"discard", "lock", "find", "insert"}, Goto(k, pc)
    PROVE  SessionsOK'
<1>1. /\ call'[k] = [call[k] EXCEPT !.pc = pc]
      /\ \A j \in Slots \ {k} : call'[j] = call[j]
    BY GotoMoves DEF CodesOps
<1>2. SessionCall(call[k])'
    BY <1>1 DEF SessionsOK, SessionCall, RowsStay
<1>3. QED
    BY <1>1, <1>2, SessionsStay

(* What a check of a code writes is a row still, and it writes no other. *)
LEMMA CodeWritten ==
    ASSUME SessionsOK, NEW k \in Slots, DeleteChallenge(k) \/ CountAttempt(k) \/ AcceptCode(k)
    PROVE  /\ call[k].code \in DOMAIN challenges
           /\ challenges' \in Seq(Challenge) /\ DOMAIN challenges' = DOMAIN challenges
           /\ \A c \in DOMAIN challenges \ {call[k].code} : challenges'[c] = challenges[c]
<1>1. call[k].op = "verify" /\ challenges \in Seq(Challenge)
    BY DEF DeleteChallenge, CountAttempt, AcceptCode, At, SessionsOK, SessionRowsOK
<1>2. call[k].code \in DOMAIN challenges /\ call[k].attempts \in Nat
    BY <1>1 DEF SessionsOK, SessionCall
<1>3. PICK ch \in Challenge : ch = challenges[call[k].code]
    BY <1>1, <1>2
<1>4. /\ challenges' = [c \in DOMAIN challenges |-> challenges'[c]]
      /\ \A c \in DOMAIN challenges \ {call[k].code} : challenges'[c] = challenges[c]
    BY <1>1, <1>2 DEF DeleteChallenge, CountAttempt, AcceptCode
<1>5. challenges'[call[k].code] \in Challenge
    <2>1. CASE DeleteChallenge(k)
        <3>1. challenges'[call[k].code] = [ch EXCEPT !.stored = FALSE]
            BY <1>2, <1>3, <2>1 DEF DeleteChallenge
        <3>2. QED
            BY <3>1 DEF Challenge
    <2>2. CASE CountAttempt(k)
        <3>1. challenges'[call[k].code] = [ch EXCEPT !.attempts = call[k].attempts + 1,
                                                     !.stored = TRUE, !.wrong = ch.wrong + 1]
            BY <1>2, <1>3, <2>2 DEF CountAttempt, Challenge
        <3>2. /\ call[k].attempts + 1 \in Nat /\ ch.wrong + 1 \in Nat
              /\ ch = [f \in DOMAIN ch |-> ch[f]]
            BY <1>2, <1>3 DEF Challenge
        <3>3. QED
            BY <3>1, <3>2 DEF Challenge
    <2>3. CASE AcceptCode(k)
        <3>1. challenges'[call[k].code] = [ch EXCEPT !.stored = FALSE, !.opened = ch.opened + 1]
            BY <1>2, <1>3, <2>3 DEF AcceptCode, Challenge
        <3>2. ch.opened + 1 \in Nat
            BY <1>3 DEF Challenge
        <3>3. QED
            BY <3>1, <3>2 DEF Challenge
    <2>4. QED
        BY <2>1, <2>2, <2>3
<1>6. challenges' \in Seq(Challenge) /\ DOMAIN challenges' = DOMAIN challenges
    BY <1>1, <1>4, <1>5, RowWritten
<1>7. QED
    BY <1>2, <1>4, <1>6

(* So do the codes. *)
LEMMA CodesKeep ==
    ASSUME CallsOK, SessionsOK, CodesNext, UNCHANGED <<authVars, signInVars>>
    PROVE  SessionsOK'
<1>1. UNCHANGED <<sessions, holder>> /\ SessionRowsOK
    BY DEF authVars, signInVars, SessionsOK
<1>2. ASSUME NEW k \in Slots, NEW p \in Phones, PhoneStart(k, p)
      PROVE  SessionsOK'
    <2> DEFINE rec == [op |-> "start", pc |-> "count", phone |-> p]
    <2>1. Begin("signin", k, rec) /\ IsRequest(rec) /\ rec.op = "start"
          /\ UNCHANGED <<challenges, sends>>
        BY <1>2 DEF PhoneStart, IsRequest, codeVars
    <2> HIDE DEF rec
    <2>2. call'[k] = rec /\ \A j \in Slots \ {k} : call'[j] = call[j]
        BY <2>1, BeginMoves DEF CodesOps
    <2>3. SessionCall(call[k])'
        BY <2>2 DEF SessionCall, rec
    <2>4. QED
        BY <1>1, <2>1, <2>2, <2>3, SessionRowsSame, SessionsStay
<1>3. ASSUME NEW k \in Slots, NEW c \in DOMAIN challenges, NEW right \in BOOLEAN,
             NEW number \in Phones, NEW d \in Devices, PhoneVerify(k, c, right, number, d)
      PROVE  SessionsOK'
    <2> DEFINE ch == challenges[c]
               now == Verdict(ch, right)
               rec == [op |-> "verify", pc |-> now, code |-> c, attempts |-> ch.attempts,
                       phone |-> ch.phone, number |-> number, device |-> d]
               met == ch.crossed \/ \E j \in Slots : call[j].op = "verify" /\ call[j].code = c
    <2>1. Begin("signin", k, rec) /\ IsRequest(rec) /\ rec.op = "verify"
          /\ challenges' = [challenges EXCEPT ![c] = [ch EXCEPT !.crossed = met]]
          /\ sends' = sends
        BY <1>3 DEF PhoneVerify, IsRequest, codeVars
    <2>2. ch \in Challenge /\ c \in Nat
        BY <1>1 DEF SessionRowsOK
    <2>12. met \in BOOLEAN
        OBVIOUS
    <2>3. now \in {"discard", "lock", "setback", "accept"}
        BY DEF Verdict
    <2> HIDE DEF rec, ch, now, met
    <2>4. call'[k] = rec /\ \A j \in Slots \ {k} : call'[j] = call[j]
        BY <2>1, BeginMoves DEF CodesOps
    <2>5. [ch EXCEPT !.crossed = met] \in Challenge
        BY <2>2, <2>12 DEF Challenge
    <2>6. SessionRowsOK' /\ RowsStay
        BY <1>1, <2>1, <2>5 DEF SessionRowsOK, RowsStay
    <2>7. rec \in [op : {"verify"}, code : Nat, attempts : Nat, phone : Phones,
                   number : Phones, device : Devices,
                   pc : {"discard", "lock", "setback", "accept", "find", "insert"}]
        BY <2>2, <2>3 DEF rec, Challenge
    <2>8. rec.code \in DOMAIN challenges'
        BY <2>6 DEF rec, RowsStay
    <2>9. SessionCall(call[k])'
        BY <2>1, <2>4, <2>7, <2>8 DEF SessionCall
    <2>10. QED
        BY <2>4, <2>6, <2>9, SessionsStay
<1>4. ASSUME NEW k \in Slots, IncrSendCount(k)
      PROVE  SessionsOK'
    <2>1. At(k, "start", "count") /\ challenges' = challenges
          /\ sends' = [sends EXCEPT ![call[k].phone] = sends[call[k].phone] + 1]
        BY <1>4 DEF IncrSendCount
    <2>6. sends' \in [Phones -> Nat]
        <3>1. call[k].phone \in Phones /\ sends \in [Phones -> Nat]
            BY <1>1, <2>1 DEF SessionsOK, SessionCall, At, SessionRowsOK
        <3>2. QED
            BY <2>1, <3>1
    <2>2. SessionRowsOK' /\ RowsStay
        BY <1>1, <2>1, <2>6 DEF SessionRowsOK, RowsStay
    <2>3. CASE Answer(k)
        BY <2>2, <2>3, SessionAnswered
    <2>4. CASE Goto(k, "send")
        <3>1. /\ call'[k] = [call[k] EXCEPT !.pc = "send"]
              /\ \A j \in Slots \ {k} : call'[j] = call[j]
            BY <2>1, <2>4, GotoMoves DEF At, CodesOps
        <3>2. SessionCall(call[k])'
            BY <2>1, <3>1 DEF SessionsOK, SessionCall, At
        <3>3. QED
            BY <2>2, <3>1, <3>2, SessionsStay
    <2>5. QED
        BY <1>4, <2>3, <2>4 DEF IncrSendCount
<1>5. ASSUME NEW k \in Slots, SendCode(k)
      PROVE  SessionsOK'
    <2> DEFINE row == [phone |-> call[k].phone, attempts |-> 0, stored |-> TRUE,
                       expired |-> FALSE, wrong |-> 0, opened |-> 0, crossed |-> FALSE]
    <2>1. challenges' = Append(challenges, row) /\ sends' = sends /\ Answer(k)
          /\ call[k].op = "start"
        BY <1>5 DEF SendCode, At
    <2>2. row \in Challenge
        BY <2>1 DEF SessionsOK, SessionCall, Challenge
    <2> HIDE DEF row
    <2>3. SessionRowsOK' /\ RowsStay
        BY <1>1, <2>1, <2>2 DEF SessionRowsOK, RowsStay
    <2>4. QED
        BY <2>1, <2>3, SessionAnswered
<1>6. ASSUME NEW k \in Slots, SetLockout(k)
      PROVE  SessionsOK'
    <2>1. At(k, "verify", "lock") /\ UNCHANGED <<challenges, sends>>
        BY <1>6 DEF SetLockout
    <2>2. SessionRowsOK' /\ RowsStay
        BY <1>1, <2>1, SessionRowsSame
    <2>3. CASE Answer(k)
        BY <2>2, <2>3, SessionAnswered
    <2>4. CASE Goto(k, "discard")
        BY <2>1, <2>2, <2>4, VerifyGoesOn DEF At
    <2>5. QED
        BY <1>6, <2>3, <2>4 DEF SetLockout
<1>7. ASSUME NEW k \in Slots, DeleteChallenge(k) \/ CountAttempt(k) \/ AcceptCode(k)
      PROVE  SessionsOK'
    <2>1. call[k].op = "verify" /\ sends' = sends
        BY <1>7 DEF DeleteChallenge, CountAttempt, AcceptCode, At
    <2>2. challenges' \in Seq(Challenge) /\ DOMAIN challenges' = DOMAIN challenges
        BY <1>7, CodeWritten
    <2>5. SessionRowsOK' /\ RowsStay
        BY <1>1, <2>1, <2>2 DEF SessionRowsOK, RowsStay
    <2>6. Answer(k) \/ Goto(k, "lock") \/ Goto(k, "find")
        BY <1>7 DEF DeleteChallenge, CountAttempt, AcceptCode
    <2>7. QED
        BY <2>1, <2>5, <2>6, SessionAnswered, VerifyGoesOn
<1>8. ASSUME TimePasses
      PROVE  SessionsOK'
    <2>1. call' = call
        BY <1>8 DEF TimePasses, callVars
    <2>2. CASE \E p \in Phones : WindowPasses(p) \/ LockoutEnds(p)
        <3>1. challenges' = challenges /\ sends' \in [Phones -> Nat]
            BY <1>1, <2>2 DEF WindowPasses, LockoutEnds, SessionRowsOK
        <3>2. QED
            BY <1>1, <2>1, <3>1 DEF SessionsOK, SessionRowsOK, SessionCall
    <2>3. ASSUME NEW c \in DOMAIN challenges, Expire(c)
          PROVE  SessionsOK'
        <3>1. PICK ch \in Challenge : ch = challenges[c]
            BY <1>1 DEF SessionRowsOK
        <3>2. [ch EXCEPT !.expired = TRUE] \in Challenge
            BY DEF Challenge
        <3>3. challenges' = [challenges EXCEPT ![c] = [ch EXCEPT !.expired = TRUE]] /\ sends' = sends
            BY <2>3, <3>1 DEF Expire
        <3>4. SessionRowsOK' /\ RowsStay
            BY <1>1, <3>2, <3>3 DEF SessionRowsOK, RowsStay
        <3>5. QED
            BY <2>1, <3>4 DEF SessionsOK, SessionCall, RowsStay
    <2>4. QED
        BY <1>8, <2>2, <2>3 DEF TimePasses
<1>9. QED
    BY <1>2, <1>3, <1>4, <1>5, <1>6, <1>7, <1>8 DEF CodesNext

(* A session is about to be made for an account. *)
LEMMA IssueKeeps ==
    ASSUME CallsOK, SessionsOK, SessionRowsOK', RowsStay, NEW k \in Slots,
           NEW a \in AccountIds, IssueTokens(k, a), call[k].op \in SessionOps,
           call[k].device \in Devices
    PROVE  SessionsOK'
<1>1. /\ call'[k] = [op |-> "login", pc |-> "create", acct |-> a, device |-> call[k].device]
      /\ \A j \in Slots \ {k} : call'[j] = call[j]
    BY IssueMoves DEF SessionOps
<1>2. SessionCall(call[k])'
    BY <1>1 DEF SessionCall
<1>3. QED
    BY <1>1, <1>2, SessionsStay

(* An address that nobody holds gets a holder. *)
LEMMA HolderSet ==
    ASSUME SessionsOK, UNCHANGED <<sessions, challenges, sends>>,
           NEW n \in Phones \cup Emails, holder[n] = NoAccount, NEW a \in AccountIds,
           holder' = [holder EXCEPT ![n] = a]
    PROVE  SessionRowsOK' /\ RowsStay /\ holder'[n] = a
<1>1. holder \in [Phones \cup Emails -> AccountIds \cup {NoAccount}]
    BY DEF SessionsOK, SessionRowsOK
<1>2. /\ holder' \in [Phones \cup Emails -> AccountIds \cup {NoAccount}]
      /\ \A m \in Phones \cup Emails : holder[m] \in AccountIds => holder'[m] \in AccountIds
      /\ holder'[n] = a
    BY <1>1
<1>3. QED
    BY <1>2 DEF SessionsOK, SessionRowsOK, RowsStay

(* So does signing in and up. *)
LEMMA SignInKeeps ==
    ASSUME CallsOK, SessionsOK, HashedOK, SignInNext, UNCHANGED <<authVars, codeVars>>
    PROVE  SessionsOK'
<1>1. UNCHANGED <<sessions, challenges, sends>> /\ SessionRowsOK
    BY DEF authVars, codeVars, SessionsOK
<1>2. holder' = holder => SessionRowsOK' /\ RowsStay
    BY <1>1, SessionRowsSame
<1>3. ASSUME NEW k \in Slots, NEW e \in Emails, NEW d \in Devices, RegisterEmail(k, e, d)
      PROVE  SessionsOK'
    <2> DEFINE rec == [op |-> "register", pc |-> "insert", email |-> e, device |-> d]
    <2>1. Begin("signin", k, rec) /\ IsRequest(rec) /\ rec.op = "register" /\ holder' = holder
        BY <1>3 DEF RegisterEmail, IsRequest, signInVars
    <2> HIDE DEF rec
    <2>2. call'[k] = rec /\ \A j \in Slots \ {k} : call'[j] = call[j]
        BY <2>1, BeginMoves DEF SignInOps
    <2>3. SessionCall(call[k])'
        BY <2>2 DEF SessionCall, rec
    <2>4. QED
        BY <1>2, <2>1, <2>2, <2>3, SessionsStay
<1>4. ASSUME NEW k \in Slots, NEW e \in Emails, NEW d \in Devices, LoginEmail(k, e, d)
      PROVE  SessionsOK'
    <2> DEFINE rec == [op |-> "password", pc |-> "hash", email |-> e, device |-> d,
                       shut |-> Unavailable(holder[e])]
    <2>1. Begin("signin", k, rec) /\ IsRequest(rec) /\ rec.op = "password" /\ holder' = holder
        BY <1>4 DEF LoginEmail, IsRequest, signInVars
    <2>2. Unavailable(holder[e]) \in BOOLEAN
        BY DEF Unavailable
    <2> HIDE DEF rec
    <2>3. call'[k] = rec /\ \A j \in Slots \ {k} : call'[j] = call[j]
        BY <2>1, BeginMoves DEF SignInOps
    <2>4. SessionCall(call[k])'
        BY <2>2, <2>3 DEF SessionCall, rec
    <2>5. QED
        BY <1>2, <2>1, <2>3, <2>4, SessionsStay
<1>5. ASSUME NEW k \in Slots, FindByPhone(k)
      PROVE  SessionsOK'
    <2>1. call[k].op = "verify" /\ holder' = holder
        BY <1>5 DEF FindByPhone, At, signInVars
    <2>2. call[k].number \in Phones /\ call[k].device \in Devices
        BY <2>1 DEF SessionsOK, SessionCall
    <2>3. holder[call[k].number] \in AccountIds \cup {NoAccount}
        BY <1>1, <2>2 DEF SessionRowsOK
    <2>4. CASE Goto(k, "insert")
        BY <1>2, <2>1, <2>4, VerifyGoesOn
    <2>5. CASE Answer(k)
        BY <1>2, <2>1, <2>5, SessionAnswered
    <2>6. CASE holder[call[k].number] # NoAccount /\ IssueTokens(k, holder[call[k].number])
        BY <1>2, <2>1, <2>2, <2>3, <2>6, IssueKeeps DEF SessionOps
    <2>7. QED
        BY <1>5, <2>4, <2>5, <2>6 DEF FindByPhone
<1>6. ASSUME NEW k \in Slots, CreateByPhone(k)
      PROVE  SessionsOK'
    <2>1. call[k].op = "verify"
        BY <1>6 DEF CreateByPhone, At
    <2>2. call[k].number \in Phones /\ call[k].device \in Devices
        BY <2>1 DEF SessionsOK, SessionCall
    <2>3. CASE holder' = holder /\ Answer(k)
        BY <1>2, <2>3, SessionAnswered
    <2>4. ASSUME NEW a \in AccountIds, holder[call[k].number] = NoAccount,
                 holder' = [holder EXCEPT ![call[k].number] = a], IssueTokens(k, a)
          PROVE  SessionsOK'
        <3>1. SessionRowsOK' /\ RowsStay
            BY <1>1, <2>2, <2>4, HolderSet
        <3>2. QED
            BY <2>1, <2>2, <2>4, <3>1, IssueKeeps DEF SessionOps
    <2>5. QED
        BY <1>6, <2>3, <2>4 DEF CreateByPhone, Unregistered
<1>7. ASSUME NEW k \in Slots, CreateByEmail(k)
      PROVE  SessionsOK'
    <2>1. call[k].op = "register"
        BY <1>7 DEF CreateByEmail, At
    <2>2. call[k] \in [op : {"register"}, pc : {"insert", "hash"}, email : Emails, device : Devices]
        BY <2>1 DEF SessionsOK, SessionCall
    <2>3. CASE holder' = holder /\ Answer(k)
        BY <1>2, <2>3, SessionAnswered
    <2>4. ASSUME NEW a \in AccountIds, holder[call[k].email] = NoAccount,
                 holder' = [holder EXCEPT ![call[k].email] = a], Goto(k, "hash")
          PROVE  SessionsOK'
        <3>1. SessionRowsOK' /\ RowsStay /\ holder'[call[k].email] \in AccountIds
            BY <1>1, <2>2, <2>4, HolderSet
        <3>2. /\ call'[k] = [call[k] EXCEPT !.pc = "hash"]
              /\ \A j \in Slots \ {k} : call'[j] = call[j]
            BY <2>1, <2>4, GotoMoves DEF SignInOps
        <3>3. SessionCall(call[k])'
            BY <2>2, <3>1, <3>2 DEF SessionCall
        <3>4. QED
            BY <3>1, <3>2, <3>3, SessionsStay
    <2>5. QED
        BY <1>7, <2>3, <2>4 DEF CreateByEmail, Unregistered
<1>8. ASSUME NEW k \in Slots, SetPasswordHash(k)
      PROVE  SessionsOK'
    <2>1. call[k].op = "register" /\ holder[call[k].email] \in AccountIds
          /\ call[k].device \in Devices
        BY <1>8 DEF SetPasswordHash, At, SessionsOK, SessionCall
    <2>2. holder' = holder /\ IssueTokens(k, holder[call[k].email])
        BY <1>8 DEF SetPasswordHash
    <2>3. QED
        BY <1>2, <2>1, <2>2, IssueKeeps DEF SessionOps
<1>9. ASSUME NEW k \in Slots, CheckPassword(k)
      PROVE  SessionsOK'
    <2>1. call[k].op = "password" /\ holder' = holder
        BY <1>9 DEF CheckPassword, At, signInVars
    <2>2. call[k].device \in Devices
        BY <2>1 DEF SessionsOK, SessionCall
    <2>3. CASE Answer(k)
        BY <1>2, <2>1, <2>3, SessionAnswered
    <2>4. CASE holder[call[k].email] \in hashed /\ IssueTokens(k, holder[call[k].email])
        BY <1>2, <2>1, <2>2, <2>4, IssueKeeps DEF SessionOps, HashedOK
    <2>5. QED
        BY <1>9, <2>3, <2>4 DEF CheckPassword
<1>10. QED
    BY <1>3, <1>4, <1>5, <1>6, <1>7, <1>8, <1>9 DEF SignInNext

(* A password is that of an account. *)
LEMMA HashedKeeps ==
    ASSUME SessionsOK, HashedOK, SignInNext
    PROVE  HashedOK'
<1>1. ASSUME NEW k \in Slots, SetPasswordHash(k)
      PROVE  HashedOK'
    <2>1. holder[call[k].email] \in AccountIds
        BY <1>1 DEF SetPasswordHash, At, SessionsOK, SessionCall
    <2>2. QED
        BY <1>1, <2>1 DEF SetPasswordHash, HashedOK
<1>2. ASSUME NEW k, NEW e, NEW d,
             RegisterEmail(k, e, d) \/ LoginEmail(k, e, d) \/ FindByPhone(k)
             \/ CreateByPhone(k) \/ CreateByEmail(k) \/ CheckPassword(k)
      PROVE  HashedOK'
    BY <1>2 DEF RegisterEmail, LoginEmail, FindByPhone, CreateByPhone, CreateByEmail,
            CheckPassword, signInVars, HashedOK
<1>3. QED
    BY <1>1, <1>2 DEF SignInNext

(* Moderation and streaming have nothing to do with them. *)
LEMMA SessionsApart ==
    ASSUME SessionsOK, Moves(ModerationOps) \/ Moves(StreamingOps),
           UNCHANGED <<sessions, codeVars, signInVars>>
    PROVE  SessionsOK'
<1>1. ModerationOps \cap SessionOps = {} /\ StreamingOps \cap SessionOps = {}
      /\ "none" \notin SessionOps
    BY DEF ModerationOps, StreamingOps, SessionOps
<1>2. Spares(SessionOps)
    BY <1>1, OthersSpared
<1>3. QED
    BY <1>2, SessionsSpared

(* No step of moderation or streaming writes a session. *)
LEMMA SessionsLeftAlone ==
    ASSUME ModerationNext \/ StreamingNext
    PROVE  sessions' = sessions
<1>1. ASSUME NEW k, NEW x, NEW y, NEW z,
             CreateEnforcement(k, x, y) \/ FileAppeal(k, x) \/ DecideAppeal(k, x, z)
             \/ ApplyEnforcement(k) \/ CreateAppeal(k) \/ Reinstate(k) \/ SetAccountStatus(x, y)
      PROVE  sessions' = sessions
    BY <1>1 DEF CreateEnforcement, FileAppeal, DecideAppeal, ApplyEnforcement, CreateAppeal,
            Reinstate, SetAccountStatus, authVars
<1>2. ASSUME NEW k, NEW x, StartBroadcast(k, x) \/ IssueCredentials(k) \/ EndUnstarted(k)
             \/ End(k) \/ EndBroadcast(k, x) \/ SessionLive(x) \/ HandleModerationResult(x)
             \/ TerminateBroadcast \/ RecordAutoTermination \/ ApplyAutoTermination \/ VerdictLost
      PROVE  sessions' = sessions
    BY <1>2 DEF StartBroadcast, IssueCredentials, EndUnstarted, End, EndBroadcast, SessionLive,
            HandleModerationResult, TerminateBroadcast, RecordAutoTermination,
            ApplyAutoTermination, VerdictLost, authVars
<1>3. CASE ModerationNext
    BY <1>1, <1>3 DEF ModerationNext
<1>4. CASE StreamingNext
    BY <1>2, <1>4 DEF StreamingNext
<1>5. QED
    BY <1>3, <1>4

(* Every step keeps them. *)
LEMMA SessionsStep ==
    ASSUME CallsOK, SessionsOK, HashedOK, [Next]_vars
    PROVE  SessionsOK' /\ HashedOK'
<1>1. CASE UNCHANGED standingVars /\ Spares(StandingOps)
    <2>1. UNCHANGED <<sessions, codeVars, signInVars>> /\ Spares(SessionOps)
        BY <1>1 DEF standingVars, authVars, Spares, SessionOps, StandingOps
    <2>2. QED
        BY <2>1, SessionsSpared DEF signInVars, HashedOK
<1>2. CASE StandingNext
    <2>1. CASE AuthNext /\ UNCHANGED <<codeVars, signInVars>>
        BY <2>1, AuthKeeps DEF signInVars, HashedOK
    <2>2. CASE (ModerationNext \/ StreamingNext) /\ UNCHANGED <<codeVars, signInVars>>
        BY <2>2, ModerationMoves, StreamingMoves, SessionsLeftAlone, SessionsApart
        DEF signInVars, HashedOK
    <2>3. CASE CodesNext /\ UNCHANGED <<authVars, signInVars>>
        BY <2>3, CodesKeep DEF signInVars, HashedOK
    <2>4. CASE SignInNext /\ UNCHANGED <<authVars, codeVars>>
        BY <2>4, SignInKeeps, HashedKeeps
    <2>5. QED
        BY <1>2, <2>1, <2>2, <2>3, <2>4 DEF StandingNext
<1>3. QED
    BY <1>1, <1>2, StandingFrame

(* They are so at the start. *)
LEMMA SessionsInit == Init => SessionsOK /\ HashedOK
<1>1. SUFFICES ASSUME Init PROVE SessionsOK /\ HashedOK
    OBVIOUS
<1>2. /\ sessions = <<>> /\ challenges = <<>> /\ sends = [p \in Phones |-> 0]
      /\ holder = [n \in Phones \cup Emails |-> NoAccount] /\ hashed = {}
      /\ call = [k \in Slots |-> Idle]
    BY <1>1 DEF Init, AuthInit, CodesInit, SignInInit, CallsInit
<1>3. SessionRowsOK
    BY <1>2 DEF SessionRowsOK
<1>4. QED
    BY <1>2, <1>3, IdleSession DEF SessionsOK, HashedOK

(* A session that was revoked gets no tokens, whatever requests are under way
   (RevokedStaysOut: authsvc RefreshTokens). *)
THEOREM RevokedSessionsStayOut == Spec => []RevokedStaysOut
<1>1. Init => CallsOK /\ SessionsOK /\ HashedOK
    BY InitCalls, SessionsInit
<1>2. CallsOK /\ SessionsOK /\ HashedOK /\ [Next]_vars => (CallsOK /\ SessionsOK /\ HashedOK)'
    BY StandingFrame, SessionsStep
<1>3. CallsOK /\ SessionsOK => RevokedStaysOut
    BY DEF SessionsOK, SessionCall, RevokedStaysOut
<1>4. QED
    BY <1>1, <1>2, <1>3, PTL DEF Spec

-----------------------------------------------------------------------------
(* Codes *)

Checks(k, c) == call[k].op = "verify" /\ call[k].code = c

(* A code whose checks never overlapped: it is checked by one request at most, which
   has its row as it is. *)
FairCode(c) ==
    LET ch == challenges[c] IN
    ~ch.crossed =>
        /\ ch.wrong = ch.attempts /\ ch.attempts <= MaxAttempts
        /\ ch.opened <= 1
        /\ ch.stored => ch.opened = 0
        /\ ch.opened = 1 => ch.wrong < MaxAttempts
        /\ \A j, k \in Slots : Checks(j, c) /\ Checks(k, c) => j = k
        /\ \A k \in Slots : Checks(k, c) /\ call[k].pc \in {"setback", "accept"} =>
            ch.stored /\ call[k].attempts = ch.attempts /\ ch.attempts < MaxAttempts

CodesOK == \A c \in DOMAIN challenges : FairCode(c)

(* No check begins, or gets to what counts. *)
ChecksFade ==
    \A k \in Slots :
        \/ call'[k] = call[k]
        \/ call'[k].op # "verify"
        \/ /\ call[k].op = "verify" /\ call'[k].code = call[k].code
           /\ call'[k].pc \notin {"setback", "accept"}

(* Then a code of which nothing is written stays fair. *)
LEMMA FairStays ==
    ASSUME NEW c, FairCode(c), ChecksFade, challenges'[c] = challenges[c]
    PROVE  FairCode(c)'
<1>1. ASSUME NEW k \in Slots, Checks(k, c)'
      PROVE  /\ Checks(k, c)
             /\ call'[k].pc \in {"setback", "accept"} => call'[k] = call[k]
    BY <1>1 DEF Checks, ChecksFade
<1>2. QED
    BY <1>1 DEF FairCode, Checks

(* So do all, if none is written. *)
LEMMA CodesStay ==
    ASSUME CodesOK, ChecksFade, challenges' = challenges
    PROVE  CodesOK'
BY FairStays DEF CodesOK

(* A request that goes on to no check. *)
LEMMA OneFades ==
    ASSUME NEW k \in Slots, \A j \in Slots \ {k} : call'[j] = call[j],
           \/ call'[k].op # "verify"
           \/ /\ call[k].op = "verify" /\ call'[k].code = call[k].code
              /\ call'[k].pc \notin {"setback", "accept"}
    PROVE  ChecksFade
BY DEF ChecksFade

(* A check that goes on. *)
LEMMA CheckGoesOn ==
    ASSUME CallsOK, SessionsOK, NEW k \in Slots, call[k].op = "verify",
           NEW pc \in {"discard", "lock", "find", "insert"}, Answer(k) \/ Goto(k, pc)
    PROVE  ChecksFade
<1>1. CASE Answer(k)
    <2>1. call'[k] = Idle /\ \A j \in Slots \ {k} : call'[j] = call[j]
        BY <1>1, AnswerMoves DEF CodesOps
    <2>2. QED
        BY <2>1, IdleFields, OneFades
<1>2. CASE Goto(k, pc)
    <2>1. /\ call'[k] = [call[k] EXCEPT !.pc = pc]
          /\ \A j \in Slots \ {k} : call'[j] = call[j]
        BY <1>2, GotoMoves DEF CodesOps
    <2>2. call'[k].code = call[k].code /\ call'[k].pc = pc
        BY <2>1 DEF SessionsOK, SessionCall
    <2>3. QED
        BY <2>1, <2>2, OneFades
<1>3. QED
    BY <1>1, <1>2

(* The steps of the codes keep them fair. *)
LEMMA CodesStep ==
    ASSUME CallsOK, SessionsOK, CodesOK, CodesNext
    PROVE  CodesOK'
<1>1. challenges \in Seq(Challenge)
    BY DEF SessionsOK, SessionRowsOK
<1>2. ASSUME NEW k \in Slots, NEW p \in Phones, PhoneStart(k, p)
      PROVE  CodesOK'
    <2> DEFINE rec == [op |-> "start", pc |-> "count", phone |-> p]
    <2>1. Begin("signin", k, rec) /\ IsRequest(rec) /\ rec.op = "start"
          /\ challenges' = challenges
        BY <1>2 DEF PhoneStart, IsRequest, codeVars
    <2> HIDE DEF rec
    <2>2. ChecksFade
        BY <2>1, BeginMoves, OneFades DEF CodesOps
    <2>3. QED
        BY <2>1, <2>2, CodesStay
<1>3. ASSUME NEW k \in Slots, NEW c \in DOMAIN challenges, NEW right \in BOOLEAN,
             NEW number \in Phones, NEW d \in Devices, PhoneVerify(k, c, right, number, d)
      PROVE  CodesOK'
    <2> DEFINE ch == challenges[c]
               now == Verdict(ch, right)
               rec == [op |-> "verify", pc |-> now, code |-> c, attempts |-> ch.attempts,
                       phone |-> ch.phone, number |-> number, device |-> d]
               met == ch.crossed \/ \E j \in Slots : Checks(j, c)
    <2>1. Begin("signin", k, rec) /\ IsRequest(rec) /\ rec.op = "verify" /\ ch.stored
          /\ challenges' = [challenges EXCEPT ![c] = [ch EXCEPT !.crossed = met]]
        BY <1>3 DEF PhoneVerify, IsRequest, Checks
    <2>2. ch \in Challenge
        BY <1>1
    <2>3. now \in {"setback", "accept"} => ~(ch.attempts >= MaxAttempts)
        BY DEF Verdict
    <2>4. rec.code = c /\ rec.pc = now /\ rec.attempts = ch.attempts
        OBVIOUS
    <2>5. challenges'[c] = [ch EXCEPT !.crossed = met] /\ DOMAIN challenges' = DOMAIN challenges
          /\ \A o \in DOMAIN challenges \ {c} : challenges'[o] = challenges[o]
        BY <1>1, <2>1
    <2> HIDE DEF rec, now, met
    <2>6. call[k] = Idle /\ call'[k] = rec /\ \A j \in Slots \ {k} : call'[j] = call[j]
        BY <2>1, BeginMoves DEF CodesOps
    <2>7. ASSUME NEW o \in DOMAIN challenges \ {c}
          PROVE  FairCode(o)'
        <3>1. \A j \in Slots : Checks(j, o)' => Checks(j, o) /\ call'[j] = call[j]
            BY <2>4, <2>6 DEF Checks
        <3>2. FairCode(o) /\ challenges'[o] = challenges[o]
            BY <2>5 DEF CodesOK
        <3>3. QED
            BY <3>1, <3>2 DEF FairCode, Checks
    <2>8. FairCode(c)'
        <3>1. SUFFICES ASSUME ~met PROVE FairCode(c)'
            BY <2>2, <2>5 DEF FairCode, Challenge
        <3>2. \A j \in Slots : Checks(j, c)' => j = k
            BY <2>6, <3>1 DEF Checks, met
        <3>3. FairCode(c) /\ ~ch.crossed
            BY <3>1 DEF CodesOK, met
        <3>4. challenges'[c].attempts = ch.attempts /\ challenges'[c].wrong = ch.wrong
              /\ challenges'[c].opened = ch.opened /\ challenges'[c].stored = ch.stored
            BY <2>2, <2>5 DEF Challenge
        <3>5. ch.attempts \in Nat /\ MaxAttempts \in Nat
            BY <2>2, CodesAssumption DEF Challenge
        <3>6. Checks(k, c)' /\ call'[k].pc \in {"setback", "accept"} =>
                call'[k].attempts = ch.attempts /\ ch.attempts < MaxAttempts
            BY <2>3, <2>4, <2>6, <3>5
        <3>7. QED
            BY <2>1, <3>2, <3>3, <3>4, <3>6 DEF FairCode, Checks
    <2>9. QED
        BY <2>5, <2>7, <2>8 DEF CodesOK
<1>4. ASSUME NEW k \in Slots, IncrSendCount(k)
      PROVE  CodesOK'
    <2>1. call[k].op = "start" /\ challenges' = challenges /\ (Goto(k, "send") \/ Answer(k))
        BY <1>4 DEF IncrSendCount, At
    <2>2. call'[k].op # "verify" /\ \A j \in Slots \ {k} : call'[j] = call[j]
        <3>2. CASE Answer(k)
            BY <2>1, <3>2, AnswerMoves, IdleFields DEF CodesOps
        <3>3. CASE Goto(k, "send")
            BY <2>1, <3>3, GotoMoves DEF CodesOps
        <3>4. QED
            BY <2>1, <3>2, <3>3
    <2>3. QED
        BY <2>1, <2>2, OneFades, CodesStay
<1>5. ASSUME NEW k \in Slots, SendCode(k)
      PROVE  CodesOK'
    <2> DEFINE row == [phone |-> call[k].phone, attempts |-> 0, stored |-> TRUE,
                       expired |-> FALSE, wrong |-> 0, opened |-> 0, crossed |-> FALSE]
    <2>10. PICK c : c = Len(challenges) + 1
        OBVIOUS
    <2>1. challenges' = Append(challenges, row) /\ Answer(k) /\ call[k].op = "start"
        BY <1>5 DEF SendCode, At
    <2>2. call'[k] = Idle /\ \A j \in Slots \ {k} : call'[j] = call[j]
        BY <2>1, AnswerMoves DEF CodesOps
    <2>3. ChecksFade
        BY <2>2, OneFades DEF Idle
    <2>4. \A j \in Slots : ~Checks(j, c)'
        <3>1. \A j \in Slots : ~Checks(j, c)
            BY <1>1, <2>10 DEF Checks, SessionsOK, SessionCall
        <3>2. QED
            BY <2>3, <3>1 DEF Checks, ChecksFade
    <2>5. row.attempts = 0 /\ row.wrong = 0 /\ row.opened = 0
        OBVIOUS
    <2> HIDE DEF row
    <2>6. DOMAIN challenges' = DOMAIN challenges \cup {c} /\ challenges'[c] = row
          /\ \A o \in DOMAIN challenges : challenges'[o] = challenges[o]
        BY <1>1, <2>1, <2>10
    <2>7. FairCode(c)'
        BY <2>4, <2>5, <2>6, CodesAssumption DEF FairCode
    <2>8. \A o \in DOMAIN challenges : FairCode(o)'
        BY <2>3, <2>6, FairStays DEF CodesOK
    <2>9. QED
        BY <2>6, <2>7, <2>8 DEF CodesOK
<1>6. ASSUME NEW k \in Slots, SetLockout(k)
      PROVE  CodesOK'
    <2>1. call[k].op = "verify" /\ challenges' = challenges /\ (Goto(k, "discard") \/ Answer(k))
        BY <1>6 DEF SetLockout, At
    <2>2. QED
        BY <2>1, CheckGoesOn, CodesStay
<1>7. ASSUME NEW k \in Slots, DeleteChallenge(k) \/ CountAttempt(k) \/ AcceptCode(k)
      PROVE  CodesOK'
    <2>11. PICK c : c = call[k].code
        OBVIOUS
    <2>1. /\ c \in DOMAIN challenges
          /\ challenges' \in Seq(Challenge) /\ DOMAIN challenges' = DOMAIN challenges
          /\ \A o \in DOMAIN challenges \ {c} : challenges'[o] = challenges[o]
        BY <1>7, <2>11, CodeWritten
    <2>2. call[k].op = "verify" /\ (Answer(k) \/ Goto(k, "lock") \/ Goto(k, "find"))
        BY <1>7 DEF DeleteChallenge, CountAttempt, AcceptCode, At
    <2>3. ChecksFade
        BY <2>2, CheckGoesOn
    <2>4. \A o \in DOMAIN challenges \ {c} : FairCode(o)'
        BY <2>1, <2>3, FairStays DEF CodesOK
    <2>5. call'[k].pc \notin {"setback", "accept"} /\ \A j \in Slots \ {k} : call'[j] = call[j]
        <3>5. call[k].op \in CodesOps
            BY <2>2 DEF CodesOps
        <3>1. CASE Answer(k)
            <4>1. call'[k] = Idle /\ \A j \in Slots \ {k} : call'[j] = call[j]
                BY <3>5, <3>1, AnswerMoves
            <4>2. QED
                BY <4>1, IdleFields
        <3>2. ASSUME NEW pc \in {"lock", "find"}, Goto(k, pc)
              PROVE  call'[k].pc \notin {"setback", "accept"}
                     /\ \A j \in Slots \ {k} : call'[j] = call[j]
            <4>1. call'[k].pc = pc /\ \A j \in Slots \ {k} : call'[j] = call[j]
                BY <3>5, <3>2, GotoMoves
            <4>2. QED
                BY <4>1
        <3>3. QED
            BY <2>2, <3>1, <3>2
    <2>6. PICK ch \in Challenge : ch = challenges[c]
        BY <1>1, <2>1
    <2>7. FairCode(c) /\ Checks(k, c)
        BY <2>1, <2>2, <2>11 DEF CodesOK, Checks
    <2>8. ch.attempts \in Nat /\ ch.wrong \in Nat /\ ch.opened \in Nat /\ MaxAttempts \in Nat
        BY <2>6, CodesAssumption DEF Challenge
    <2>9. FairCode(c)'
        <3>1. CASE ch.crossed
            <4>1. challenges'[c].crossed = ch.crossed
                <5>1. CASE DeleteChallenge(k)
                    BY <2>1, <2>6, <2>11, <5>1 DEF DeleteChallenge, Challenge
                <5>2. CASE CountAttempt(k)
                    BY <2>1, <2>6, <2>11, <5>2 DEF CountAttempt, Challenge
                <5>3. CASE AcceptCode(k)
                    BY <2>1, <2>6, <2>11, <5>3 DEF AcceptCode, Challenge
                <5>4. QED
                    BY <1>7, <5>1, <5>2, <5>3
            <4>2. QED
                BY <3>1, <4>1 DEF FairCode
        <3>2. CASE ~ch.crossed
            <4>1. \A j \in Slots : Checks(j, c) => j = k
                BY <2>6, <2>7, <3>2 DEF FairCode
            <4>2. \A j \in Slots : Checks(j, c)' => j = k
                BY <2>3, <4>1 DEF ChecksFade, Checks
            <4>3. /\ ch.wrong = ch.attempts /\ ch.attempts <= MaxAttempts /\ ch.opened <= 1
                  /\ ch.stored => ch.opened = 0
                  /\ ch.opened = 1 => ch.wrong < MaxAttempts
                  /\ call[k].pc \in {"setback", "accept"} =>
                        ch.stored /\ call[k].attempts = ch.attempts /\ ch.attempts < MaxAttempts
                BY <2>6, <2>7, <3>2 DEF FairCode
            <4>4. LET now == challenges'[c] IN
                  /\ now.wrong = now.attempts /\ now.attempts <= MaxAttempts /\ now.opened <= 1
                  /\ now.stored => now.opened = 0
                  /\ now.opened = 1 => now.wrong < MaxAttempts
                <5>1. CASE DeleteChallenge(k)
                    <6>1. challenges'[c] = [ch EXCEPT !.stored = FALSE]
                        BY <2>1, <2>6, <2>11, <5>1 DEF DeleteChallenge
                    <6>2. QED
                        BY <2>6, <4>3, <6>1 DEF Challenge
                <5>2. CASE CountAttempt(k)
                    <6>1. LET now == challenges'[c] IN
                          /\ now.attempts = call[k].attempts + 1 /\ now.wrong = ch.wrong + 1
                          /\ now.opened = ch.opened
                        BY <2>1, <2>6, <2>11, <5>2 DEF CountAttempt, Challenge
                    <6>2. call[k].attempts = ch.attempts /\ ch.stored /\ ch.attempts < MaxAttempts
                        BY <4>3, <5>2 DEF CountAttempt, At
                    <6>3. QED
                        BY <2>8, <4>3, <6>1, <6>2
                <5>3. CASE AcceptCode(k)
                    <6>1. LET now == challenges'[c] IN
                          /\ now.attempts = ch.attempts /\ now.wrong = ch.wrong
                          /\ now.opened = ch.opened + 1 /\ now.stored = FALSE
                        BY <2>1, <2>6, <2>11, <5>3 DEF AcceptCode, Challenge
                    <6>2. ch.stored /\ ch.attempts < MaxAttempts
                        BY <4>3, <5>3 DEF AcceptCode, At
                    <6>3. QED
                        BY <2>8, <4>3, <6>1, <6>2
                <5>4. QED
                    BY <1>7, <5>1, <5>2, <5>3
            <4>5. QED
                BY <2>5, <4>2, <4>4 DEF FairCode
        <3>3. QED
            BY <2>6, <3>1, <3>2 DEF Challenge
    <2>10. QED
        BY <2>1, <2>4, <2>9 DEF CodesOK
<1>8. ASSUME TimePasses
      PROVE  CodesOK'
    <2>1. ChecksFade
        BY <1>8 DEF TimePasses, callVars, ChecksFade
    <2>2. CASE challenges' = challenges
        BY <2>1, <2>2, CodesStay
    <2>3. ASSUME NEW c \in DOMAIN challenges, Expire(c)
          PROVE  CodesOK'
        <3>1. PICK ch \in Challenge : ch = challenges[c]
            BY <1>1
        <3>2. challenges'[c] = [ch EXCEPT !.expired = TRUE] /\ DOMAIN challenges' = DOMAIN challenges
              /\ \A o \in DOMAIN challenges \ {c} : challenges'[o] = challenges[o]
            BY <1>1, <2>3, <3>1 DEF Expire
        <3>3. LET now == challenges'[c] IN
              /\ now.crossed = ch.crossed /\ now.wrong = ch.wrong /\ now.attempts = ch.attempts
              /\ now.opened = ch.opened /\ now.stored = ch.stored
            BY <3>1, <3>2 DEF Challenge
        <3>4. call' = call /\ FairCode(c)
            BY <1>8 DEF TimePasses, callVars, CodesOK
        <3>5. FairCode(c)'
            BY <3>1, <3>3, <3>4 DEF FairCode, Checks
        <3>6. \A o \in DOMAIN challenges \ {c} : FairCode(o)'
            BY <2>1, <3>2, FairStays DEF CodesOK
        <3>7. QED
            BY <3>2, <3>5, <3>6 DEF CodesOK
    <2>4. QED
        BY <1>8, <2>2, <2>3 DEF TimePasses, WindowPasses, LockoutEnds
<1>9. QED
    BY <1>2, <1>3, <1>4, <1>5, <1>6, <1>7, <1>8 DEF CodesNext

(* Steps that have to do with no code. *)
LEMMA NoChecks ==
    ASSUME NEW ops, Moves(ops), "verify" \notin ops
    PROVE  ChecksFade
BY IdleFields DEF Moves, ChecksFade

(* Signing in goes on from codes that are settled. *)
LEMMA SignInChecks ==
    ASSUME CallsOK, SessionsOK, SignInNext
    PROVE  ChecksFade
<1>1. ASSUME NEW k \in Slots, NEW e \in Emails, NEW d \in Devices, RegisterEmail(k, e, d)
      PROVE  ChecksFade
    <2> DEFINE rec == [op |-> "register", pc |-> "insert", email |-> e, device |-> d]
    <2>1. Begin("signin", k, rec) /\ IsRequest(rec) /\ rec.op = "register"
        BY <1>1 DEF RegisterEmail, IsRequest
    <2> HIDE DEF rec
    <2>2. QED
        BY <2>1, BeginMoves, OneFades DEF SignInOps
<1>2. ASSUME NEW k \in Slots, NEW e \in Emails, NEW d \in Devices, LoginEmail(k, e, d)
      PROVE  ChecksFade
    <2> DEFINE rec == [op |-> "password", pc |-> "hash", email |-> e, device |-> d,
                       shut |-> Unavailable(holder[e])]
    <2>1. Begin("signin", k, rec) /\ IsRequest(rec) /\ rec.op = "password"
        BY <1>2 DEF LoginEmail, IsRequest
    <2> HIDE DEF rec
    <2>2. QED
        BY <2>1, BeginMoves, OneFades DEF SignInOps
<1>3. ASSUME NEW k \in Slots, NEW a, IssueTokens(k, a), call[k].op \in SessionOps
      PROVE  ChecksFade
    <2>1. {call[k].op, "login"} \subseteq SessionOps
        BY <1>3 DEF SessionOps
    <2>2. /\ call'[k] = [op |-> "login", pc |-> "create", acct |-> a, device |-> call[k].device]
          /\ \A j \in Slots \ {k} : call'[j] = call[j]
        BY <1>3, <2>1, IssueMoves
    <2>3. call'[k].op = "login"
        BY <2>2
    <2>4. QED
        BY <2>2, <2>3, OneFades
<1>4. ASSUME NEW k \in Slots, FindByPhone(k) \/ CreateByPhone(k)
      PROVE  ChecksFade
    <2>1. call[k].op = "verify" /\ call[k].op \in SessionOps
          /\ (Answer(k) \/ Goto(k, "insert") \/ \E a : IssueTokens(k, a))
        BY <1>4 DEF FindByPhone, CreateByPhone, At, SessionOps
    <2>2. QED
        BY <1>3, <2>1, CheckGoesOn
<1>5. ASSUME NEW k \in Slots, CreateByEmail(k) \/ SetPasswordHash(k) \/ CheckPassword(k)
      PROVE  ChecksFade
    <2>1. call[k].op \in SignInOps /\ call[k].op \in SessionOps /\ call[k].op # "verify"
          /\ (Answer(k) \/ Goto(k, "hash") \/ \E a : IssueTokens(k, a))
        BY <1>5 DEF CreateByEmail, SetPasswordHash, CheckPassword, At, SessionOps, SignInOps
    <2>2. CASE Answer(k)
        <3>1. call'[k] = Idle /\ \A j \in Slots \ {k} : call'[j] = call[j]
            BY <2>1, <2>2, AnswerMoves
        <3>2. QED
            BY <3>1, IdleFields, OneFades
    <2>3. CASE Goto(k, "hash")
        BY <2>1, <2>3, GotoMoves, OneFades
    <2>4. QED
        BY <1>3, <2>1, <2>2, <2>3
<1>6. QED
    BY <1>1, <1>2, <1>4, <1>5 DEF SignInNext

(* Every step keeps the codes fair. *)
LEMMA CodesKeepFair ==
    ASSUME CallsOK, SessionsOK, CodesOK, [Next]_vars
    PROVE  CodesOK'
<1>1. CASE UNCHANGED standingVars /\ Spares(StandingOps)
    <2>1. challenges' = challenges /\ "verify" \in StandingOps
        BY <1>1 DEF standingVars, codeVars, StandingOps
    <2>2. ChecksFade
        BY <1>1, <2>1, IdleFields DEF Spares, ChecksFade
    <2>3. QED
        BY <2>1, <2>2, CodesStay
<1>2. CASE StandingNext
    <2>1. CASE CodesNext
        BY <2>1, CodesStep
    <2>2. CASE SignInNext /\ UNCHANGED codeVars
        BY <2>2, SignInChecks, CodesStay DEF codeVars
    <2>3. CASE AuthNext \/ ModerationNext \/ StreamingNext
        <3>1. "verify" \notin AuthOps \cup ModerationOps \cup StreamingOps
            BY DEF AuthOps, ModerationOps, StreamingOps
        <3>2. ChecksFade
            BY <2>3, <3>1, AuthMoves, ModerationMoves, StreamingMoves, NoChecks
        <3>3. QED
            BY <1>2, <2>1, <2>2, <3>2, CodesStay DEF StandingNext, codeVars
    <2>4. QED
        BY <1>2, <2>1, <2>2, <2>3 DEF StandingNext
<1>3. QED
    BY <1>1, <1>2, StandingFrame

(* A code signs in once, and not after too many wrong tries, for any number of codes,
   numbers and requests (CodesWorkOnce: otp.Verify). *)
THEOREM CodesSignInOnce == Spec => []CodesWorkOnce
<1>1. Init => CallsOK /\ SessionsOK /\ HashedOK /\ CodesOK
    <2>1. Init => challenges = <<>>
        BY DEF Init, CodesInit
    <2>2. challenges = <<>> => CodesOK
        BY DEF CodesOK
    <2>3. QED
        BY <2>1, <2>2, InitCalls, SessionsInit
<1>2. CallsOK /\ SessionsOK /\ HashedOK /\ CodesOK /\ [Next]_vars
            => (CallsOK /\ SessionsOK /\ HashedOK /\ CodesOK)'
    BY StandingFrame, SessionsStep, CodesKeepFair
<1>3. SessionsOK /\ CodesOK => CodesWorkOnce
    BY DEF CodesOK, FairCode, CodesWorkOnce, SessionsOK, SessionRowsOK, Challenge
<1>4. QED
    BY <1>1, <1>2, <1>3, PTL DEF Spec

-----------------------------------------------------------------------------
(* Appeals and broadcasts *)

CaseOps == {"appeal", "overturn", "broadcast", "end"}

Enforcement == [acct : AccountIds, action : AllActions]
Appeal == [enf : Nat, state : {"pending", "upheld", "overturned"}]
Over == {"ended", "terminated"}
Reasons == {"", "credential_issue_failed", "host_ended", "moderation"}
StreamRow == [host : AccountIds, state : StreamStates, reason : Reasons]

(* What the rows are like that a request has taken up. *)
CaseCall(r) ==
    /\ r.op = "appeal" => r.enf \in Nat
    /\ r.op = "overturn" => r.appeal \in DOMAIN appeals /\ appeals[r.appeal].state = "overturned"
    /\ r.op \in {"broadcast", "end"} => r.stream \in DOMAIN streams

(* An enforcement has one appeal in the queue. *)
OnePending ==
    \A i, j \in DOMAIN appeals :
        /\ appeals[i].enf = appeals[j].enf
        /\ appeals[i].state = "pending" /\ appeals[j].state = "pending"
        => i = j

(* A broadcast that is over has a reason. *)
EndsHaveReasons == \A s \in DOMAIN streams : streams[s].state \in Over => streams[s].reason # ""

AppealsOK ==
    /\ enforcements \in Seq(Enforcement)
    /\ appeals \in Seq(Appeal)
    /\ OnePending

StreamsOK ==
    /\ streams \in Seq(StreamRow)
    /\ EndsHaveReasons
    /\ verdict = NoVerdict \/ verdict.stream \in DOMAIN streams

CasesOK == AppealsOK /\ StreamsOK /\ \A k \in Slots : CaseCall(call[k])

(* Rows stay, and what is overturned stays so. *)
CasesStay ==
    /\ DOMAIN streams \subseteq DOMAIN streams'
    /\ \A i \in DOMAIN appeals : /\ i \in DOMAIN appeals'
                                 /\ appeals[i].state = "overturned" => appeals'[i] = appeals[i]

(* The reasons that were given stay. *)
ReasonsStay ==
    /\ DOMAIN streams \subseteq DOMAIN streams'
    /\ \A s \in DOMAIN streams : streams[s].reason # "" => streams'[s].reason = streams[s].reason

(* Nothing of them changes. *)
LEMMA CasesSame ==
    ASSUME CasesOK, UNCHANGED <<enforcements, appeals, streams, verdict>>
    PROVE  AppealsOK' /\ StreamsOK' /\ CasesStay /\ ReasonsStay
BY DEF CasesOK, AppealsOK, StreamsOK, OnePending, EndsHaveReasons, CasesStay, ReasonsStay

(* Appeals that are left alone stay settled. *)
LEMMA AppealsSame ==
    ASSUME CasesOK, UNCHANGED <<enforcements, appeals>>
    PROVE  AppealsOK'
BY DEF CasesOK, AppealsOK, OnePending

(* Broadcasts that are left alone keep their endings. *)
LEMMA StreamsSame ==
    ASSUME CasesOK, UNCHANGED <<streams, verdict>>
    PROVE  StreamsOK' /\ ReasonsStay
BY DEF CasesOK, StreamsOK, EndsHaveReasons, ReasonsStay

(* The requests' rows are still what they were, if only one request changes. *)
LEMMA CaseCallsStay ==
    ASSUME CasesOK, CasesStay, NEW k \in Slots, CaseCall(call[k])',
           \A j \in Slots \ {k} : call'[j] = call[j]
    PROVE  \A j \in Slots : CaseCall(call[j])'
<1>1. ASSUME NEW j \in Slots \ {k}
      PROVE  CaseCall(call[j])'
    <2>1. CaseCall(call[j]) /\ call'[j] = call[j]
        BY DEF CasesOK
    <2>2. QED
        BY <2>1 DEF CaseCall, CasesStay
<1>2. QED
    BY <1>1

(* Nor if requests of others do. *)
LEMMA CaseCallsSpared ==
    ASSUME CasesOK, CasesStay, Spares(CaseOps)
    PROVE  \A k \in Slots : CaseCall(call[k])'
<1>1. ASSUME NEW k \in Slots
      PROVE  CaseCall(call[k])'
    <2>1. CASE call'[k] = call[k]
        <3>1. CaseCall(call[k])
            BY DEF CasesOK
        <3>2. QED
            BY <2>1, <3>1 DEF CaseCall, CasesStay
    <2>2. CASE call'[k].op \notin CaseOps
        BY <2>2 DEF CaseCall, CaseOps
    <2>3. CASE call'[k] = Idle
        BY <2>3, IdleFields DEF CaseCall
    <2>4. QED
        BY <2>1, <2>2, <2>3 DEF Spares
<1>2. QED
    BY <1>1

(* A request ends. *)
LEMMA CaseAnswered ==
    ASSUME CallsOK, CasesOK, CasesStay, NEW k \in Slots, Answer(k)
    PROVE  \A j \in Slots : CaseCall(call[j])'
<1>1. call' = [call EXCEPT ![k] = Idle] /\ call = [j \in Slots |-> call[j]]
    BY DEF Answer, GoOn, CallsOK
<1>2. CaseCall(call[k])'
    BY <1>1, IdleFields DEF CaseCall
<1>3. QED
    BY <1>1, <1>2, CaseCallsStay

(* The rows of a table. *)
LEMMA RowsTyped ==
    ASSUME NEW S, NEW rows \in Seq(S)
    PROVE  \A i \in DOMAIN rows : rows[i] \in S
OBVIOUS

(* UpdateState keeps the reason given first, and gives one when a broadcast ends. *)
LEMMA StateUpdated ==
    ASSUME CasesOK, NEW s \in DOMAIN streams, NEW state \in StreamStates,
           NEW reason \in Reasons, state \in Over => reason # "",
           streams' = UpdateState(s, state, reason)
    PROVE  /\ streams' \in Seq(StreamRow) /\ DOMAIN streams' = DOMAIN streams
           /\ EndsHaveReasons' /\ ReasonsStay
<1>1. streams \in Seq(StreamRow) /\ EndsHaveReasons
    BY DEF CasesOK, StreamsOK
<1>10. \A i \in DOMAIN streams : streams[i] \in StreamRow
    BY <1>1, RowsTyped
<1>2. PICK row \in StreamRow : row = streams[s]
    BY <1>10
<1>3. /\ streams' = [i \in DOMAIN streams |-> streams'[i]]
      /\ \A i \in DOMAIN streams \ {s} : streams'[i] = streams[i]
    BY <1>1 DEF UpdateState
<1>4. streams'[s] = [row EXCEPT !.state = state,
                        !.reason = IF state \in Over /\ row.reason = "" THEN reason ELSE row.reason]
    BY <1>1, <1>2 DEF UpdateState, StreamRow, Over
<1>5. streams'[s] \in StreamRow /\ streams'[s].state = state
      /\ streams'[s].reason = IF state \in Over /\ row.reason = "" THEN reason ELSE row.reason
    BY <1>2, <1>4 DEF StreamRow
<1>6. streams' \in Seq(StreamRow) /\ DOMAIN streams' = DOMAIN streams
    <2>1. \A i \in DOMAIN streams : streams'[i] \in StreamRow
        BY <1>3, <1>5, <1>10
    <2>2. PICK others : others = streams'
        OBVIOUS
    <2>3. others \in Seq(StreamRow) /\ DOMAIN others = DOMAIN streams
        BY <1>1, <1>3, <2>1, <2>2, RowWritten
    <2>4. QED
        BY <2>2, <2>3
<1>7. EndsHaveReasons'
    BY <1>1, <1>3, <1>5, <1>6 DEF EndsHaveReasons
<1>8. ReasonsStay
    BY <1>2, <1>3, <1>5, <1>6 DEF ReasonsStay
<1>9. QED
    BY <1>6, <1>7, <1>8

(* Steps of moderation. *)
LEMMA ModerationKeeps ==
    ASSUME CallsOK, CasesOK, ModerationNext, UNCHANGED streamingVars
    PROVE  AppealsOK' /\ \A k \in Slots : CaseCall(call[k])'
<1>1. UNCHANGED <<streams, verdict>> /\ AppealsOK
    BY DEF streamingVars, CasesOK
<1>2. UNCHANGED <<enforcements, appeals>> => AppealsOK' /\ CasesStay
    BY <1>1, CasesSame
<1>3. appeals \in Seq(Appeal) /\ enforcements \in Seq(Enforcement)
    BY <1>1 DEF AppealsOK
<1>4. ASSUME NEW k \in Slots, NEW a \in AccountIds, NEW action \in Actions,
             CreateEnforcement(k, a, action)
      PROVE  AppealsOK' /\ \A j \in Slots : CaseCall(call[j])'
    <2> DEFINE rec == [op |-> "enforce", pc |-> "apply", acct |-> a, action |-> action]
               row == [acct |-> a, action |-> action]
    <2>1. Begin("moderation", k, rec) /\ IsRequest(rec) /\ rec.op = "enforce"
          /\ enforcements' = Append(enforcements, row) /\ appeals' = appeals
        BY <1>4 DEF CreateEnforcement, IsRequest
    <2>2. row \in Enforcement
        BY ActionsAssumption DEF Enforcement
    <2> HIDE DEF rec, row
    <2>3. enforcements' \in Seq(Enforcement)
        BY <1>3, <2>1, <2>2
    <2>4. AppealsOK' /\ CasesStay
        BY <1>1, <2>1, <2>3 DEF AppealsOK, OnePending, CasesStay
    <2>5. call'[k] = rec /\ \A j \in Slots \ {k} : call'[j] = call[j]
        BY <2>1, BeginMoves DEF ModerationOps
    <2>6. CaseCall(call[k])'
        BY <2>1, <2>5 DEF CaseCall
    <2>7. QED
        BY <2>4, <2>5, <2>6, CaseCallsStay
<1>5. ASSUME NEW k \in Slots, NEW e \in DOMAIN enforcements, FileAppeal(k, e)
      PROVE  AppealsOK' /\ \A j \in Slots : CaseCall(call[j])'
    <2> DEFINE rec == [op |-> "appeal", pc |-> "create", enf |-> e]
    <2>1. Begin("moderation", k, rec) /\ IsRequest(rec) /\ rec.op = "appeal" /\ rec.enf = e
          /\ UNCHANGED <<enforcements, appeals>>
        BY <1>5 DEF FileAppeal, IsRequest, moderationVars
    <2>2. e \in Nat
        BY <1>3
    <2> HIDE DEF rec
    <2>3. call'[k] = rec /\ \A j \in Slots \ {k} : call'[j] = call[j]
        BY <2>1, BeginMoves DEF ModerationOps
    <2>4. CaseCall(call[k])'
        BY <2>1, <2>2, <2>3 DEF CaseCall
    <2>5. QED
        BY <1>2, <2>1, <2>3, <2>4, CaseCallsStay
<1>6. ASSUME NEW k \in Slots, NEW i \in DOMAIN appeals, NEW uphold \in BOOLEAN,
             DecideAppeal(k, i, uphold)
      PROVE  AppealsOK' /\ \A j \in Slots : CaseCall(call[j])'
    <2> DEFINE rec == IF uphold THEN Idle
                      ELSE [op |-> "overturn", pc |-> "reinstate", appeal |-> i]
               decided == IF uphold THEN "upheld" ELSE "overturned"
    <2>1. Begin("moderation", k, rec) /\ enforcements' = enforcements
          /\ appeals[i].state = "pending"
          /\ appeals' = [appeals EXCEPT ![i].state = decided]
        BY <1>6 DEF DecideAppeal
    <2>2. IsRequest(rec) /\ rec.op \in ModerationOps \cup {"none"}
        BY IdleFields DEF IsRequest, ModerationOps
    <2>3. ~uphold => rec.op = "overturn" /\ rec.appeal = i /\ decided = "overturned"
        OBVIOUS
    <2>4. uphold => rec = Idle
        OBVIOUS
    <2>5. decided \in {"upheld", "overturned"}
        OBVIOUS
    <2> HIDE DEF rec, decided
    <2>6. /\ appeals' = [j \in DOMAIN appeals |-> appeals'[j]]
          /\ \A j \in DOMAIN appeals \ {i} : appeals'[j] = appeals[j]
          /\ appeals'[i] \in Appeal /\ appeals'[i].state = decided
        <3>1. appeals[i] \in Appeal
            BY <1>3
        <3>2. /\ appeals' = [j \in DOMAIN appeals |-> appeals'[j]]
              /\ \A j \in DOMAIN appeals \ {i} : appeals'[j] = appeals[j]
              /\ appeals'[i] = [appeals[i] EXCEPT !.state = decided]
            BY <1>3, <2>1
        <3>3. QED
            BY <2>5, <3>1, <3>2 DEF Appeal
    <2>7. appeals' \in Seq(Appeal) /\ DOMAIN appeals' = DOMAIN appeals
        <3>1. \A j \in DOMAIN appeals : appeals'[j] \in Appeal
            BY <1>3, <2>6
        <3>2. QED
            BY <1>3, <2>6, <3>1, RowWritten
    <2>8. AppealsOK'
        BY <1>1, <2>1, <2>5, <2>6, <2>7 DEF AppealsOK, OnePending
    <2>9. CasesStay
        BY <1>1, <2>1, <2>6, <2>7 DEF CasesStay
    <2>10. call'[k] = rec /\ \A j \in Slots \ {k} : call'[j] = call[j]
        BY <2>1, <2>2, BeginMoves
    <2>11. CaseCall(call[k])'
        BY <2>3, <2>4, <2>6, <2>7, <2>10, IdleFields DEF CaseCall
    <2>12. QED
        BY <2>8, <2>9, <2>10, <2>11, CaseCallsStay
<1>7. ASSUME NEW k \in Slots, CreateAppeal(k)
      PROVE  AppealsOK' /\ \A j \in Slots : CaseCall(call[j])'
    <2> DEFINE row == [enf |-> call[k].enf, state |-> "pending"]
    <2>1. Answer(k) /\ enforcements' = enforcements /\ call[k].op = "appeal"
          /\ \/ appeals' = appeals
             \/ ~HasPending(call[k].enf) /\ appeals' = Append(appeals, row)
        BY <1>7 DEF CreateAppeal, At
    <2>2. CASE appeals' = appeals
        BY <1>2, <2>1, <2>2, CaseAnswered
    <2>3. CASE ~HasPending(call[k].enf) /\ appeals' = Append(appeals, row)
        <3>1. row \in Appeal
            BY <2>1 DEF CasesOK, CaseCall, Appeal
        <3>2. row.enf = call[k].enf
            OBVIOUS
        <3> HIDE DEF row
        <3>3. appeals' \in Seq(Appeal) /\ DOMAIN appeals' = DOMAIN appeals \cup {Len(appeals) + 1}
              /\ appeals'[Len(appeals) + 1] = row
              /\ \A i \in DOMAIN appeals : appeals'[i] = appeals[i]
            BY <1>3, <2>3, <3>1
        <3>4. AppealsOK'
            BY <1>1, <2>1, <2>3, <3>2, <3>3 DEF AppealsOK, OnePending, HasPending
        <3>5. CasesStay
            BY <1>1, <3>3 DEF CasesStay
        <3>6. QED
            BY <2>1, <3>4, <3>5, CaseAnswered
    <2>4. QED
        BY <2>1, <2>2, <2>3
<1>8. ASSUME NEW k \in Slots, ApplyEnforcement(k) \/ Reinstate(k)
      PROVE  AppealsOK' /\ \A j \in Slots : CaseCall(call[j])'
    <2>1. Answer(k) /\ UNCHANGED <<enforcements, appeals>>
        BY <1>8 DEF ApplyEnforcement, Reinstate, moderationVars
    <2>2. QED
        BY <1>2, <2>1, CaseAnswered
<1>9. ASSUME NEW a, NEW s, SetAccountStatus(a, s)
      PROVE  AppealsOK' /\ \A j \in Slots : CaseCall(call[j])'
    <2>1. call' = call /\ UNCHANGED <<enforcements, appeals>>
        BY <1>9 DEF SetAccountStatus, moderationVars
    <2>2. QED
        BY <1>1, <1>2, <2>1 DEF CasesOK, CaseCall
<1>10. QED
    BY <1>4, <1>5, <1>6, <1>7, <1>8, <1>9 DEF ModerationNext

(* Steps of streaming. *)
LEMMA StreamingKeeps ==
    ASSUME CallsOK, CasesOK, StreamingNext
    PROVE  CasesOK' /\ ReasonsStay
<1>1. /\ streams \in Seq(StreamRow) /\ EndsHaveReasons /\ enforcements \in Seq(Enforcement)
      /\ verdict = NoVerdict \/ verdict.stream \in DOMAIN streams
      /\ OnePending /\ appeals \in Seq(Appeal)
    BY DEF CasesOK, StreamsOK, AppealsOK
<1>2. ASSUME DOMAIN streams \subseteq DOMAIN streams', appeals' = appeals
      PROVE  CasesStay
    BY <1>2 DEF CasesStay
<1>3. ASSUME AppealsOK', StreamsOK', ReasonsStay, DOMAIN streams' = DOMAIN streams,
             appeals' = appeals, call' = call \/ \E k \in Slots : Answer(k)
      PROVE  CasesOK' /\ ReasonsStay
    <2>1. CasesStay
        BY <1>2, <1>3
    <2>2. CASE call' = call
        BY <1>3, <2>1, <2>2 DEF CasesOK, CaseCall, CasesStay
    <2>3. QED
        BY <1>3, <2>1, <2>2, CaseAnswered DEF CasesOK
<1>4. ASSUME NEW k \in Slots, NEW a \in AccountIds, StartBroadcast(k, a)
      PROVE  CasesOK' /\ ReasonsStay
    <2> DEFINE rec == [op |-> "broadcast", pc |-> "credentials", stream |-> Len(streams) + 1]
               row == [host |-> a, state |-> "connecting", reason |-> ""]
    <2>1. Begin("streaming", k, rec) /\ IsRequest(rec) /\ rec.op = "broadcast"
          /\ rec.stream = Len(streams) + 1 /\ streams' = Append(streams, row)
          /\ UNCHANGED <<enforcements, appeals, verdict>>
        BY <1>4 DEF StartBroadcast, IsRequest, moderationVars
    <2>2. row \in StreamRow /\ row.state \notin Over
        BY DEF StreamRow, StreamStates, Reasons, Over
    <2> HIDE DEF rec, row
    <2>3. streams' \in Seq(StreamRow) /\ DOMAIN streams' = DOMAIN streams \cup {Len(streams) + 1}
          /\ streams'[Len(streams) + 1] = row
          /\ \A s \in DOMAIN streams : streams'[s] = streams[s]
        BY <1>1, <2>1, <2>2
    <2>4. EndsHaveReasons' /\ ReasonsStay
        BY <1>1, <2>2, <2>3 DEF EndsHaveReasons, ReasonsStay
    <2>5. StreamsOK' /\ AppealsOK' /\ CasesStay
        BY <1>1, <1>2, <2>1, <2>3, <2>4, AppealsSame DEF StreamsOK
    <2>6. call'[k] = rec /\ \A j \in Slots \ {k} : call'[j] = call[j]
        BY <2>1, BeginMoves DEF StreamingOps
    <2>7. CaseCall(call[k])'
        BY <2>1, <2>3, <2>6 DEF CaseCall
    <2>8. QED
        BY <2>4, <2>5, <2>6, <2>7, CaseCallsStay DEF CasesOK
<1>5. ASSUME NEW k \in Slots, IssueCredentials(k)
      PROVE  CasesOK' /\ ReasonsStay
    <2>1. call[k].op = "broadcast" /\ UNCHANGED <<enforcements, appeals, streams, verdict>>
        BY <1>5 DEF IssueCredentials, At, moderationVars
    <2>2. AppealsOK' /\ StreamsOK' /\ CasesStay /\ ReasonsStay
        BY <2>1, CasesSame
    <2>3. CASE Answer(k)
        BY <1>3, <2>1, <2>2, <2>3
    <2>4. CASE Goto(k, "fail")
        <3>1. /\ call'[k] = [call[k] EXCEPT !.pc = "fail"] /\ call'[k].op = call[k].op
              /\ \A j \in Slots \ {k} : call'[j] = call[j]
            BY <2>1, <2>4, GotoMoves DEF StreamingOps
        <3>2. call'[k].stream = call[k].stream
            BY <3>1
        <3>3. CaseCall(call[k])'
            BY <2>1, <3>1, <3>2 DEF CasesOK, CaseCall
        <3>4. QED
            BY <2>2, <3>1, <3>3, CaseCallsStay DEF CasesOK
    <2>5. QED
        BY <1>5, <2>3, <2>4 DEF IssueCredentials
<1>6. ASSUME NEW k \in Slots, EndUnstarted(k) \/ End(k)
      PROVE  CasesOK' /\ ReasonsStay
    <2>1. call[k].op \in {"broadcast", "end"} /\ Answer(k)
          /\ UNCHANGED <<enforcements, appeals, verdict>>
        BY <1>6 DEF EndUnstarted, End, At, moderationVars
    <2>2. PICK s \in DOMAIN streams : s = call[k].stream
        BY <2>1 DEF CasesOK, CaseCall
    <2>3. PICK reason \in Reasons \ {""} : streams' = UpdateState(s, "ended", reason)
        BY <1>6, <2>2 DEF EndUnstarted, End, Reasons
    <2>4. /\ streams' \in Seq(StreamRow) /\ DOMAIN streams' = DOMAIN streams
          /\ EndsHaveReasons' /\ ReasonsStay
        BY <2>3, StateUpdated DEF StreamStates
    <2>5. QED
        BY <1>1, <1>3, <2>1, <2>4, AppealsSame DEF StreamsOK
<1>7. ASSUME NEW k \in Slots, NEW s \in DOMAIN streams, EndBroadcast(k, s)
      PROVE  CasesOK' /\ ReasonsStay
    <2> DEFINE rec == [op |-> "end", pc |-> "end", stream |-> s]
    <2>1. Begin("streaming", k, rec) /\ IsRequest(rec) /\ rec.op = "end" /\ rec.stream = s
          /\ UNCHANGED <<enforcements, appeals, streams, verdict>>
        BY <1>7 DEF EndBroadcast, IsRequest, moderationVars
    <2> HIDE DEF rec
    <2>2. AppealsOK' /\ StreamsOK' /\ CasesStay /\ ReasonsStay
        BY <2>1, CasesSame
    <2>3. call'[k] = rec /\ \A j \in Slots \ {k} : call'[j] = call[j]
        BY <2>1, BeginMoves DEF StreamingOps
    <2>4. CaseCall(call[k])'
        BY <2>1, <2>3 DEF CaseCall
    <2>5. QED
        BY <2>2, <2>3, <2>4, CaseCallsStay DEF CasesOK
<1>8. ASSUME NEW s \in DOMAIN streams, SessionLive(s)
      PROVE  CasesOK' /\ ReasonsStay
    <2>1. call' = call /\ UNCHANGED <<enforcements, appeals, verdict>>
          /\ streams' = UpdateState(s, "live", "")
        BY <1>8 DEF SessionLive, moderationVars
    <2>2. /\ streams' \in Seq(StreamRow) /\ DOMAIN streams' = DOMAIN streams
          /\ EndsHaveReasons' /\ ReasonsStay
        BY <2>1, StateUpdated DEF StreamStates, Reasons, Over
    <2>3. QED
        BY <1>1, <1>3, <2>1, <2>2, AppealsSame DEF StreamsOK
<1>9. ASSUME NEW s \in DOMAIN streams, HandleModerationResult(s)
      PROVE  CasesOK' /\ ReasonsStay
    <2>1. call' = call /\ UNCHANGED <<enforcements, appeals, streams>> /\ verdict'.stream = s
        BY <1>9 DEF HandleModerationResult, moderationVars
    <2>2. StreamsOK' /\ ReasonsStay
        BY <1>1, <2>1 DEF StreamsOK, EndsHaveReasons, ReasonsStay
    <2>3. QED
        BY <1>3, <2>1, <2>2, AppealsSame
<1>10. ASSUME TerminateBroadcast
      PROVE  CasesOK' /\ ReasonsStay
    <2>1. call' = call /\ UNCHANGED <<enforcements, appeals>> /\ verdict.pc = "terminate"
          /\ verdict' = [verdict EXCEPT !.pc = "record"]
        BY <1>10 DEF TerminateBroadcast, moderationVars
    <2>2. verdict.stream \in DOMAIN streams
        BY <1>1, <2>1 DEF NoVerdict
    <2>3. verdict'.stream = verdict.stream
        BY <2>1
    <2>4. CASE streams' = streams
        BY <1>1, <1>3, <2>1, <2>2, <2>3, <2>4, AppealsSame DEF StreamsOK, EndsHaveReasons, ReasonsStay
    <2>5. CASE streams' = UpdateState(verdict.stream, "terminated", "moderation")
        <3>1. /\ streams' \in Seq(StreamRow) /\ DOMAIN streams' = DOMAIN streams
              /\ EndsHaveReasons' /\ ReasonsStay
            BY <2>2, <2>5, StateUpdated DEF StreamStates, Reasons
        <3>2. QED
            BY <1>3, <2>1, <2>2, <2>3, <3>1, AppealsSame DEF StreamsOK
    <2>6. QED
        BY <1>10, <2>4, <2>5 DEF TerminateBroadcast
<1>11. ASSUME RecordAutoTermination
      PROVE  CasesOK' /\ ReasonsStay
    <2> DEFINE row == [acct |-> streams[verdict.stream].host, action |-> "restrict_broadcast"]
    <2>1. call' = call /\ UNCHANGED <<appeals, streams>> /\ verdict.pc = "record"
          /\ verdict' = [verdict EXCEPT !.pc = "apply"] /\ enforcements' = Append(enforcements, row)
        BY <1>11 DEF RecordAutoTermination, callVars
    <2>2. verdict.stream \in DOMAIN streams
        BY <1>1, <2>1 DEF NoVerdict
    <2>3. verdict'.stream = verdict.stream
        BY <2>1
    <2>4. row \in Enforcement
        <3>1. streams[verdict.stream] \in StreamRow
            BY <1>1, <2>2, RowsTyped
        <3>2. QED
            BY <3>1 DEF Enforcement, AllActions, StreamRow
    <2> HIDE DEF row
    <2>5. enforcements' \in Seq(Enforcement)
        BY <1>1, <2>1, <2>4
    <2>6. AppealsOK'
        BY <1>1, <2>1, <2>5 DEF AppealsOK, OnePending
    <2>7. StreamsOK' /\ ReasonsStay
        BY <1>1, <2>1, <2>2, <2>3 DEF StreamsOK, EndsHaveReasons, ReasonsStay
    <2>8. QED
        BY <1>3, <2>1, <2>6, <2>7
<1>12. ASSUME ApplyAutoTermination \/ VerdictLost
      PROVE  CasesOK' /\ ReasonsStay
    <2>1. call' = call /\ UNCHANGED <<enforcements, appeals, streams>> /\ verdict' = NoVerdict
        BY <1>12 DEF ApplyAutoTermination, VerdictLost, callVars, moderationVars
    <2>2. StreamsOK' /\ ReasonsStay
        BY <1>1, <2>1 DEF StreamsOK, EndsHaveReasons, ReasonsStay
    <2>3. QED
        BY <1>3, <2>1, <2>2, AppealsSame
<1>13. QED
    BY <1>4, <1>5, <1>6, <1>7, <1>8, <1>9, <1>10, <1>11, <1>12 DEF StreamingNext

(* The services of standing that have no part in it. *)
LEMMA CasesApart ==
    ASSUME AuthNext \/ CodesNext \/ SignInNext, CallsOK
    PROVE  Spares(CaseOps)
<1>1. /\ AuthOps \cap CaseOps = {} /\ CodesOps \cap CaseOps = {} /\ SignInOps \cap CaseOps = {}
      /\ "none" \notin CaseOps
    BY DEF AuthOps, CodesOps, SignInOps, CaseOps
<1>2. Moves(AuthOps) \/ Moves(CodesOps) \/ Moves(SignInOps)
    BY AuthMoves, CodesMoves, SignInMoves
<1>3. QED
    BY <1>1, <1>2, OthersSpared

(* Every step keeps appeals and broadcasts as they should be. *)
LEMMA CasesStep ==
    ASSUME CallsOK, CasesOK, [Next]_vars
    PROVE  CasesOK' /\ ReasonsStay
<1>1. ASSUME UNCHANGED <<moderationVars, streamingVars>>, Spares(CaseOps)
      PROVE  CasesOK' /\ ReasonsStay
    <2>1. AppealsOK' /\ StreamsOK' /\ CasesStay /\ ReasonsStay
        BY <1>1, CasesSame DEF moderationVars, streamingVars
    <2>2. QED
        BY <1>1, <2>1, CaseCallsSpared DEF CasesOK
<1>2. CASE UNCHANGED standingVars /\ Spares(StandingOps)
    <2>1. UNCHANGED <<moderationVars, streamingVars>> /\ Spares(CaseOps)
        BY <1>2 DEF standingVars, Spares, CaseOps, StandingOps
    <2>2. QED
        BY <1>1, <2>1
<1>3. CASE StandingNext
    <2>1. CASE ModerationNext /\ UNCHANGED streamingVars
        <3>1. AppealsOK' /\ \A k \in Slots : CaseCall(call[k])'
            BY <2>1, ModerationKeeps
        <3>2. QED
            BY <2>1, <3>1, StreamsSame DEF streamingVars, CasesOK
    <2>2. CASE StreamingNext
        BY <2>2, StreamingKeeps
    <2>3. CASE (AuthNext \/ CodesNext \/ SignInNext) /\ UNCHANGED <<moderationVars, streamingVars>>
        BY <1>1, <2>3, CasesApart
    <2>4. QED
        BY <1>3, <2>1, <2>2, <2>3 DEF StandingNext
<1>4. QED
    BY <1>2, <1>3, StandingFrame

(* They are so at the start. *)
LEMMA CasesInit == Init => CasesOK
<1>1. SUFFICES ASSUME Init PROVE CasesOK
    OBVIOUS
<1>2. /\ enforcements = <<>> /\ appeals = <<>> /\ streams = <<>> /\ verdict = NoVerdict
      /\ call = [k \in Slots |-> Idle]
    BY <1>1 DEF Init, ModerationInit, StreamingInit, CallsInit
<1>3. AppealsOK /\ StreamsOK
    BY <1>2 DEF AppealsOK, StreamsOK, OnePending, EndsHaveReasons
<1>4. QED
    BY <1>2, <1>3, IdleFields DEF CasesOK, CaseCall

(* No account is about to be reinstated by an appeal that was upheld, and no enforcement
   has two appeals in the queue (UpheldIsNotReinstated: modsvc FileAppeal, DecideAppeal). *)
THEOREM AppealsAreSettledOnce == Spec => []UpheldIsNotReinstated
<1>1. Init => CallsOK /\ CasesOK
    BY InitCalls, CasesInit
<1>2. CallsOK /\ CasesOK /\ [Next]_vars => (CallsOK /\ CasesOK)'
    BY StandingFrame, CasesStep
<1>3. CasesOK => UpheldIsNotReinstated
    BY DEF CasesOK, AppealsOK, OnePending, CaseCall, UpheldIsNotReinstated
<1>4. QED
    BY <1>1, <1>2, <1>3, PTL DEF Spec

(* The reason recorded with the first end of a broadcast stays, and one that is over has
   a reason, whoever ends it again (EndingIsKept: streaming's UpdateState). *)
THEOREM ReasonsAreKept == Spec => EndingsAreKept
<1>1. Init => CallsOK /\ CasesOK
    BY InitCalls, CasesInit
<1>2. CallsOK /\ CasesOK /\ [Next]_vars => (CallsOK /\ CasesOK)' /\ [EndingIsKept]_vars
    <2>1. CasesOK' /\ ReasonsStay => EndingIsKept
        BY DEF CasesOK, StreamsOK, EndsHaveReasons, Over, ReasonsStay, EndingIsKept
    <2>2. QED
        BY <2>1, StandingFrame, CasesStep
<1>3. QED
    BY <1>1, <1>2, PTL DEF Spec, EndingsAreKept

-----------------------------------------------------------------------------
(* Messages *)

(* Requests to put accounts in touch are left alone by the other groups. *)
LEMMA ContactFrame ==
    ASSUME CallsOK, [Next]_vars
    PROVE  CallsOK' /\ (ContactNext \/ (UNCHANGED contactVars /\ Spares(ContactOps)))
<1>1. CASE UNCHANGED vars /\ Moves({})
    <2>1. UNCHANGED contactVars
        BY <1>1 DEF vars, contactVars
    <2>2. QED
        BY <1>1, <2>1, StepMoves, GroupsSpared
<1>2. QED
    BY <1>1, StepMoves, GroupsSpared DEF StandingNext, MoneyNext, ApartNext, CutShort

MessageRow == [id : ClientMsgIds, from : AccountIds, seq : Nat, read : BOOLEAN,
               hidden : SUBSET AccountIds, gone : BOOLEAN]

(* The local variables of a request to send. *)
SendFields(r) ==
    /\ {"op", "pc", "pair", "by", "id", "seq", "socket"} \subseteq DOMAIN r
    /\ r.pair \in Pairs /\ r.by \in AccountIds /\ r.id \in ClientMsgIds /\ r.seq \in Nat

(* The number it got is the next one, once it is let to commit: nobody else has taken
   it, or the client's id, in between; until then it may have been taken. *)
SendCall(r) ==
    r.op = "send" =>
        /\ SendFields(r)
        /\ r.pc = "wait" => r.seq \in 1..(Len(msgs[r.pair]) + 1)
        /\ r.pc = "commit" =>
            /\ r.seq = Len(msgs[r.pair]) + 1
            /\ \A i \in DOMAIN msgs[r.pair] : msgs[r.pair][i].id # r.id

Commits(k) == call[k].op = "send" /\ call[k].pc = "commit"

SendsOK ==
    /\ msgs \in [Pairs -> Seq(MessageRow)]
    /\ DeliveredOnceInOrder
    /\ \A k \in Slots : SendCall(call[k])
    /\ \A j, k \in Slots : Commits(j) /\ Commits(k) /\ call[j].pair = call[k].pair => j = k

(* The messages there are keep their ids and numbers. *)
MessagesSame ==
    \A p \in Pairs :
        /\ DOMAIN msgs'[p] = DOMAIN msgs[p] /\ Len(msgs'[p]) = Len(msgs[p])
        /\ \A i \in DOMAIN msgs[p] : msgs'[p][i].id = msgs[p][i].id /\ msgs'[p][i].seq = msgs[p][i].seq

(* A request is as it was, but for when it was free of blocks. *)
SameButOpen(r, s) == DOMAIN r = DOMAIN s /\ \A f \in DOMAIN r \ {"open"} : r[f] = s[f]

(* No request gets a number. *)
SendsFade ==
    \A k \in Slots :
        \/ SameButOpen(call'[k], call[k])
        \/ call'[k].op # "send"
        \/ SendFields(call'[k]) /\ call'[k].pc \notin {"wait", "commit"}

(* Then all stays as it should be. *)
LEMMA SendsStay ==
    ASSUME SendsOK, msgs' \in [Pairs -> Seq(MessageRow)], MessagesSame, SendsFade, CallsOK
    PROVE  SendsOK'
<1>1. DeliveredOnceInOrder'
    BY DEF SendsOK, DeliveredOnceInOrder, MessagesSame
<1>2. ASSUME NEW k \in Slots
      PROVE  SendCall(call[k])' /\ (Commits(k)' => Commits(k) /\ call'[k].pair = call[k].pair)
    <2>1. CASE SameButOpen(call'[k], call[k])
        <3>1. {"op", "pc"} \subseteq DOMAIN call[k] /\ SendCall(call[k])
            BY DEF SendsOK, CallsOK, IsRequest
        <3>2. call'[k].op = call[k].op /\ call'[k].pc = call[k].pc
            BY <2>1, <3>1 DEF SameButOpen
        <3>3. CASE call[k].op # "send"
            BY <3>2, <3>3 DEF SendCall, Commits
        <3>4. CASE call[k].op = "send"
            <4>1. SendFields(call[k])
                BY <3>1, <3>4 DEF SendCall
            <4>2. /\ call'[k].pair = call[k].pair /\ call'[k].by = call[k].by
                  /\ call'[k].id = call[k].id /\ call'[k].seq = call[k].seq
                  /\ SendFields(call'[k])
                BY <2>1, <4>1 DEF SameButOpen, SendFields
            <4>3. call[k].pair \in Pairs
                BY <4>1 DEF SendFields
            <4>4. QED
                BY <3>1, <3>2, <3>4, <4>2, <4>3 DEF SendCall, Commits, MessagesSame
        <3>5. QED
            BY <3>3, <3>4
    <2>2. CASE call'[k].op # "send"
        BY <2>2 DEF SendCall, Commits
    <2>3. CASE SendFields(call'[k]) /\ call'[k].pc \notin {"wait", "commit"}
        BY <2>3 DEF SendCall, SendFields, Commits
    <2>4. QED
        BY <2>1, <2>2, <2>3 DEF SendsFade
<1>3. QED
    BY <1>1, <1>2 DEF SendsOK

(* Requests of others fade. *)
LEMMA OneSendFades ==
    ASSUME NEW k \in Slots, \A j \in Slots \ {k} : call'[j] = call[j],
           call'[k].op # "send" \/ (SendFields(call'[k]) /\ call'[k].pc \notin {"wait", "commit"})
    PROVE  SendsFade
BY DEF SendsFade, SameButOpen

(* Requests to send that are left alone lose nothing. *)
LEMMA SparedFade ==
    ASSUME Spares(ContactOps)
    PROVE  SendsFade
<1>1. "send" \in ContactOps
    BY DEF ContactOps
<1>2. QED
    BY <1>1, IdleFields DEF Spares, SendsFade, SameButOpen

(* Messages left alone. *)
LEMMA MessagesUnchanged ==
    ASSUME SendsOK, msgs' = msgs
    PROVE  msgs' \in [Pairs -> Seq(MessageRow)] /\ MessagesSame
BY DEF SendsOK, MessagesSame

(* A send is answered, or goes on to be published. *)
LEMMA AnsweredFades ==
    ASSUME CallsOK, SendsOK, NEW k \in Slots, NEW n \in Nat, call[k].op = "send",
           AnswerWith(k, n) \/ Answer(k)
    PROVE  SendsFade
<1>1. SendFields(call[k])
    BY DEF SendsOK, SendCall
<1>2. /\ call'[k] = Idle \/ call'[k] = [call[k] EXCEPT !.pc = "publish", !.seq = n]
      /\ \A j \in Slots \ {k} : call'[j] = call[j]
    <2>1. call[k].op \in ContactOps
        BY DEF ContactOps
    <2>2. QED
        BY <2>1, AnswerWithMoves, AnswerMoves
<1>3. CASE call'[k] = Idle
    BY <1>2, <1>3, IdleFields, OneSendFades
<1>4. CASE call'[k] = [call[k] EXCEPT !.pc = "publish", !.seq = n]
    <2>1. SendFields(call'[k]) /\ call'[k].pc = "publish"
        BY <1>1, <1>4 DEF SendFields
    <2>2. QED
        BY <1>2, <2>1, OneSendFades
<1>5. QED
    BY <1>2, <1>3, <1>4

(* Two steps of one account on a message write what is not told apart here. *)
LEMMA MessageWritten ==
    ASSUME SendsOK, NEW p \in Pairs, NEW other \in Seq(MessageRow),
           msgs' = [msgs EXCEPT ![p] = other], DOMAIN other = DOMAIN msgs[p],
           \A i \in DOMAIN msgs[p] : other[i].id = msgs[p][i].id /\ other[i].seq = msgs[p][i].seq
    PROVE  msgs' \in [Pairs -> Seq(MessageRow)] /\ MessagesSame
<1>1. msgs \in [Pairs -> Seq(MessageRow)]
    BY DEF SendsOK
<1>2. msgs[p] \in Seq(MessageRow) /\ Len(other) = Len(msgs[p])
    BY <1>1
<1>3. /\ msgs' \in [Pairs -> Seq(MessageRow)]
      /\ msgs'[p] = other /\ \A q \in Pairs \ {p} : msgs'[q] = msgs[q]
    BY <1>1
<1>4. QED
    BY <1>2, <1>3 DEF MessagesSame

(* The steps of what people do with a conversation they have. *)
LEMMA MarksKeep ==
    ASSUME CallsOK, SendsOK, NEW a \in AccountIds, NEW p \in Pairs,
           \/ \E i \in DOMAIN msgs[p] : \/ MarkRead(a, p, i) \/ DeleteForMe(a, p, i)
                                        \/ DeleteForEveryone(a, p, i)
           \/ SetConversationState(a, p, "active") \/ SetConversationState(a, p, "declined")
    PROVE  SendsOK' /\ MessagesSame
<1>1. msgs \in [Pairs -> Seq(MessageRow)] /\ msgs[p] \in Seq(MessageRow)
    BY DEF SendsOK
<1>2. call' = call
    BY DEF MarkRead, DeleteForMe, DeleteForEveryone, SetConversationState
<1>3. SendsFade
    BY <1>2 DEF SendsFade, SameButOpen
<1>4. CASE msgs' = msgs
    BY <1>3, <1>4, MessagesUnchanged, SendsStay
<1>5. \A j \in DOMAIN msgs[p] : msgs[p][j] \in MessageRow
    BY <1>1, RowsTyped
<1>6. ASSUME NEW i \in DOMAIN msgs[p], MarkRead(a, p, i)
      PROVE  SendsOK' /\ MessagesSame
    <2> DEFINE other == [j \in DOMAIN msgs[p] |->
                            IF msgs[p][j].from # a /\ msgs[p][j].seq <= i
                            THEN [msgs[p][j] EXCEPT !.read = TRUE] ELSE msgs[p][j]]
    <2>1. msgs' = [msgs EXCEPT ![p] = other]
        BY <1>1, <1>6 DEF MarkRead
    <2>2. ASSUME NEW j \in DOMAIN msgs[p]
          PROVE  /\ other[j] \in MessageRow
                 /\ other[j].id = msgs[p][j].id /\ other[j].seq = msgs[p][j].seq
        <3>1. PICK row \in MessageRow : row = msgs[p][j]
            BY <1>5
        <3>2. other[j] = row \/ other[j] = [row EXCEPT !.read = TRUE]
            BY <3>1
        <3> HIDE DEF other
        <3>3. QED
            BY <3>1, <3>2 DEF MessageRow
    <2>3. other = [j \in DOMAIN msgs[p] |-> other[j]] /\ DOMAIN other = DOMAIN msgs[p]
        OBVIOUS
    <2> HIDE DEF other
    <2>4. other \in Seq(MessageRow)
        BY <1>1, <2>2, <2>3, RowWritten
    <2>5. QED
        BY <1>3, <2>1, <2>2, <2>3, <2>4, MessageWritten, SendsStay
<1>7. ASSUME NEW i \in DOMAIN msgs[p], DeleteForMe(a, p, i) \/ DeleteForEveryone(a, p, i)
      PROVE  SendsOK' /\ MessagesSame
    <2>1. PICK row \in MessageRow : row = msgs[p][i]
        BY <1>5
    <2>2. PICK new \in {[row EXCEPT !.hidden = row.hidden \cup {a}], [row EXCEPT !.gone = TRUE]} :
            msgs' = [msgs EXCEPT ![p] = [msgs[p] EXCEPT ![i] = new]]
        BY <1>1, <1>7, <2>1 DEF DeleteForMe, DeleteForEveryone
    <2>3. new \in MessageRow /\ new.id = row.id /\ new.seq = row.seq
        <3>1. row.hidden \cup {a} \in SUBSET AccountIds
            BY DEF MessageRow
        <3>2. QED
            BY <2>2, <3>1 DEF MessageRow
    <2>4. [msgs[p] EXCEPT ![i] = new] \in Seq(MessageRow)
        BY <1>1, <2>3
    <2>5. QED
        BY <1>1, <1>3, <2>1, <2>2, <2>3, <2>4, MessageWritten, SendsStay
<1>8. QED
    BY <1>4, <1>6, <1>7 DEF SetConversationState

(* A request whose number is its own, while the messages stay. *)
LEMMA OneSendKeeps ==
    ASSUME SendsOK, msgs' = msgs, NEW k \in Slots, \A j \in Slots \ {k} : call'[j] = call[j],
           SendCall(call[k])',
           Commits(k)' => \A j \in Slots \ {k} : ~(Commits(j) /\ call[j].pair = call'[k].pair)
    PROVE  SendsOK'
<1>1. (msgs \in [Pairs -> Seq(MessageRow)])' /\ DeliveredOnceInOrder'
    BY DEF SendsOK, DeliveredOnceInOrder
<1>2. ASSUME NEW j \in Slots \ {k}
      PROVE  SendCall(call[j])' /\ (Commits(j)' <=> Commits(j)) /\ call'[j].pair = call[j].pair
    <2>1. SendCall(call[j]) /\ call'[j] = call[j]
        BY DEF SendsOK
    <2>2. SendCall(call[j])'
        BY <2>1 DEF SendCall
    <2>3. QED
        BY <2>1, <2>2 DEF Commits
<1>3. \A j \in Slots : SendCall(call[j])'
    BY <1>2
<1>4. ASSUME NEW i \in Slots, NEW j \in Slots, Commits(i)', Commits(j)', call'[i].pair = call'[j].pair
      PROVE  i = j
    BY <1>2, <1>4 DEF SendsOK
<1>5. QED
    BY <1>1, <1>3, <1>4 DEF SendsOK

(* A message that is committed is the last, and those whose number was to be the same
   are taken by surprise. *)
LEMMA CommitKeeps ==
    ASSUME CallsOK, SendsOK, NEW k \in Slots, CommitMessage(k)
    PROVE  SendsOK'
<1>1. msgs \in [Pairs -> Seq(MessageRow)] /\ DeliveredOnceInOrder
    BY DEF SendsOK
<1>2. call[k].op = "send" /\ call[k].pc = "commit" /\ Commits(k)
    BY DEF CommitMessage, At, Commits
<1>3. SendFields(call[k]) /\ SendCall(call[k])
    BY <1>2 DEF SendsOK, SendCall
<1>4. PICK p \in Pairs : p = call[k].pair
    BY <1>3 DEF SendFields
<1>5. PICK n \in Nat : n = call[k].seq
    BY <1>3 DEF SendFields
<1>6. PICK m \in MessageRow : m = Message(call[k].id, call[k].by, call[k].seq)
    BY <1>3 DEF SendFields, Message, MessageRow
<1>7. m.id = call[k].id /\ m.seq = n
    BY <1>5, <1>6 DEF Message
<1>8. n = Len(msgs[p]) + 1 /\ \A i \in DOMAIN msgs[p] : msgs[p][i].id # m.id
    BY <1>2, <1>3, <1>4, <1>5, <1>7 DEF SendCall
<1>9. msgs' = [msgs EXCEPT ![p] = Append(msgs[p], m)]
    BY <1>1, <1>4, <1>6 DEF CommitMessage
<1>10. /\ msgs' \in [Pairs -> Seq(MessageRow)]
       /\ msgs'[p] = Append(msgs[p], m) /\ \A q \in Pairs \ {p} : msgs'[q] = msgs[q]
    BY <1>1, <1>9
<1>11. /\ Len(msgs[p]) \in Nat /\ DOMAIN msgs[p] = 1..Len(msgs[p])
       /\ Len(msgs'[p]) = n /\ DOMAIN msgs'[p] = 1..n /\ msgs'[p][n] = m
       /\ \A i \in 1..Len(msgs[p]) : msgs'[p][i] = msgs[p][i]
    BY <1>1, <1>8, <1>10
<1>12. DeliveredOnceInOrder'
    <2>1. \A q \in Pairs \ {p} :
            /\ \A i \in DOMAIN msgs'[q] : msgs'[q][i].seq = i
            /\ \A i, j \in DOMAIN msgs'[q] : msgs'[q][i].id = msgs'[q][j].id => i = j
        BY <1>1, <1>10 DEF DeliveredOnceInOrder
    <2>2. \A i \in 1..n : i = n \/ i \in 1..Len(msgs[p])
        BY <1>8, <1>11
    <2>3. \A i \in 1..n : msgs'[p][i].seq = i
        BY <1>1, <1>7, <1>11, <2>2 DEF DeliveredOnceInOrder
    <2>4. ASSUME NEW i \in 1..n, NEW j \in 1..n, msgs'[p][i].id = msgs'[p][j].id
          PROVE  i = j
        <3>1. \A x \in 1..Len(msgs[p]) : msgs'[p][x].id = msgs[p][x].id /\ msgs'[p][x].id # m.id
            BY <1>8, <1>11
        <3>2. \A x, y \in 1..Len(msgs[p]) : msgs[p][x].id = msgs[p][y].id => x = y
            BY <1>1, <1>11 DEF DeliveredOnceInOrder
        <3>3. CASE i \in 1..Len(msgs[p]) /\ j \in 1..Len(msgs[p])
            BY <2>4, <3>1, <3>2, <3>3
        <3>4. CASE i = n \/ j = n
            BY <1>11, <2>2, <2>4, <3>1, <3>4
        <3>5. QED
            BY <2>2, <3>3, <3>4
    <2>5. QED
        BY <1>11, <2>1, <2>3, <2>4 DEF DeliveredOnceInOrder
<1>14. AnswerWith(k, n)
    BY <1>5 DEF CommitMessage
<1>15. /\ call'[k] = Idle \/ call'[k] = [call[k] EXCEPT !.pc = "publish", !.seq = n]
       /\ \A j \in Slots \ {k} : call'[j] = call[j]
    BY <1>2, <1>14, AnswerWithMoves
<1>16. call'[k].op # "send" \/ (SendFields(call'[k]) /\ call'[k].pc = "publish")
    <2>1. CASE call'[k] = Idle
        BY <2>1, IdleFields
    <2>2. CASE call'[k] = [call[k] EXCEPT !.pc = "publish", !.seq = n]
        BY <1>3, <2>2 DEF SendFields
    <2>3. QED
        BY <1>15, <2>1, <2>2
<1>17. SendCall(call[k])' /\ ~Commits(k)'
    BY <1>16 DEF SendCall, Commits
<1>18. ASSUME NEW j \in Slots \ {k}
       PROVE  SendCall(call[j])'
    <2>1. SendCall(call[j]) /\ ~(Commits(j) /\ call[j].pair = p)
        BY <1>2, <1>4 DEF SendsOK
    <2>2. CASE call[j].op = "send"
        <3>1. SendFields(call[j]) /\ call[j].pair \in Pairs
            BY <2>1, <2>2 DEF SendCall, SendFields
        <3>2. CASE call[j].pair = p
            <4>1. call[j].pc # "commit" /\ call'[j] = call[j]
                BY <1>15, <2>1, <2>2, <3>2 DEF Commits
            <4>2. call[j].pc = "wait" => call[j].seq \in 1..(Len(msgs[p]) + 1)
                BY <2>1, <2>2, <3>2 DEF SendCall
            <4>3. 1..(Len(msgs[p]) + 1) \subseteq 1..(Len(msgs'[p]) + 1)
                BY <1>8, <1>11
            <4>4. QED
                BY <3>1, <3>2, <4>1, <4>2, <4>3 DEF SendCall
        <3>3. CASE call[j].pair # p
            <4>1. msgs'[call[j].pair] = msgs[call[j].pair] /\ call'[j] = call[j]
                BY <1>10, <1>15, <3>1, <3>3
            <4>2. QED
                BY <2>1, <2>2, <4>1 DEF SendCall
        <3>4. QED
            BY <3>2, <3>3
    <2>3. QED
        BY <1>15, <2>2 DEF SendCall
<1>19. \A i, j \in Slots : Commits(i)' /\ Commits(j)' /\ call'[i].pair = call'[j].pair => i = j
    BY <1>15, <1>17 DEF SendsOK, Commits
<1>20. QED
    BY <1>10, <1>12, <1>17, <1>18, <1>19 DEF SendsOK

(* The steps of chat. *)
LEMMA ChatKeeps ==
    ASSUME CallsOK, SendsOK, ChatNext
    PROVE  SendsOK'
<1>1. msgs \in [Pairs -> Seq(MessageRow)] /\ DeliveredOnceInOrder
    BY DEF SendsOK
<1>2. ASSUME msgs' = msgs, SendsFade PROVE SendsOK'
    BY <1>2, MessagesUnchanged, SendsStay
<1>3. ASSUME NEW k \in Slots, NEW a \in AccountIds, NEW p \in Pairs, StartConversation(k, a, p)
      PROVE  SendsOK'
    <2> DEFINE more == [by |-> a, state |-> IF IsMutual(p) THEN "active" ELSE "request"]
               rec == Contact("converse", "upsert", p, more)
    <2> HIDE DEF rec, more
    <2>1. Begin("start", k, rec) /\ msgs' = msgs
        BY <1>3 DEF StartConversation, rec, more, chatVars
    <2>2. "converse" \in ContactOps
        BY DEF ContactOps
    <2>3. Carries(rec, "converse", "upsert", p, more)
        BY <2>2, ContactRequest DEF rec
    <2>6. IsRequest(rec) /\ rec.op = "converse"
        BY <2>3 DEF Carries
    <2>4. call'[k] = rec /\ \A j \in Slots \ {k} : call'[j] = call[j]
        BY <2>1, <2>2, <2>6, BeginMoves
    <2>5. QED
        BY <1>2, <2>1, <2>4, <2>6, OneSendFades
<1>4. ASSUME NEW k \in Slots, NEW a \in AccountIds, NEW p \in Pairs, NEW id \in ClientMsgIds,
             SendMessage(k, a, p, id)
      PROVE  SendsOK'
    <2>1. PICK socket \in Ways :
            Begin("chat", k, Contact("send", "look", p, [by |-> a, id |-> id, seq |-> 0, socket |-> socket]))
        BY <1>4 DEF SendMessage
    <2> DEFINE more == [by |-> a, id |-> id, seq |-> 0, socket |-> socket]
               rec == Contact("send", "look", p, more)
    <2>2. DOMAIN more = {"by", "id", "seq", "socket"} /\ more.by = a /\ more.id = id /\ more.seq = 0
        OBVIOUS
    <2> HIDE DEF rec, more
    <2>3. Begin("chat", k, rec) /\ msgs' = msgs
        BY <1>4, <2>1 DEF SendMessage, rec, more, chatVars
    <2>4. "send" \in ContactOps
        BY DEF ContactOps
    <2>5. Carries(rec, "send", "look", p, more)
        BY <2>4, ContactRequest DEF rec
    <2>6. IsRequest(rec) /\ rec.op = "send" /\ rec.pc = "look" /\ SendFields(rec)
        BY <2>2, <2>5 DEF Carries, SendFields
    <2>7. call'[k] = rec /\ \A j \in Slots \ {k} : call'[j] = call[j]
        BY <2>3, <2>4, <2>6, BeginMoves
    <2>8. QED
        BY <1>2, <2>3, <2>6, <2>7, OneSendFades
<1>5. ASSUME NEW k \in Slots, GetOrCreateConversation(k)
      PROVE  SendsOK'
    <2>1. msgs' = msgs /\ Answer(k) /\ call[k].op \in ContactOps
        BY <1>5 DEF GetOrCreateConversation, At, ContactOps
    <2>2. call'[k] = Idle /\ \A j \in Slots \ {k} : call'[j] = call[j]
        BY <2>1, AnswerMoves
    <2>3. QED
        BY <1>2, <2>1, <2>2, IdleFields, OneSendFades
<1>6. ASSUME NEW k \in Slots, LookForMessage(k)
      PROVE  SendsOK'
    <2>1. msgs' = msgs /\ call[k].op = "send" /\ call[k].op \in ContactOps
        BY <1>6 DEF LookForMessage, At, chatVars, ContactOps
    <2>2. SendFields(call[k])
        BY <2>1 DEF SendsOK, SendCall
    <2>3. CASE \E i \in StoredAs(call[k].pair, call[k].id) : AnswerWith(k, i)
        <3>1. PICK i \in StoredAs(call[k].pair, call[k].id) : AnswerWith(k, i)
            BY <2>3
        <3>2. i \in Nat
            BY <1>1, <2>2 DEF StoredAs, SendFields
        <3>3. QED
            BY <1>2, <2>1, <3>1, <3>2, AnsweredFades
    <2>4. CASE Goto(k, "insert")
        <3>1. /\ call'[k] = [call[k] EXCEPT !.pc = "insert"]
              /\ \A j \in Slots \ {k} : call'[j] = call[j]
            BY <2>1, <2>4, GotoMoves
        <3>2. SendFields(call'[k]) /\ call'[k].pc = "insert"
            BY <2>2, <3>1 DEF SendFields
        <3>3. QED
            BY <1>2, <2>1, <3>1, <3>2, OneSendFades
    <2>5. QED
        BY <1>6, <2>3, <2>4 DEF LookForMessage
<1>7. ASSUME NEW k \in Slots, InsertMessage(k)
      PROVE  SendsOK'
    <2>1. msgs' = msgs /\ call[k].op = "send" /\ call[k].op \in ContactOps
        BY <1>7 DEF InsertMessage, At, chatVars, ContactOps
    <2>2. SendFields(call[k])
        BY <2>1 DEF SendsOK, SendCall
    <2>3. CASE Answer(k)
        BY <1>2, <2>1, <2>3, AnsweredFades
    <2>4. CASE ~Answer(k)
        <3>1. PICK p \in Pairs : p = call[k].pair
            BY <2>2 DEF SendFields
        <3>2. PICK n \in Nat : n = Len(msgs[p]) + 1
            BY <1>1
        <3>3. PICK pc \in {"wait", "commit"} : pc = IF Contended(k) THEN "wait" ELSE "commit"
            OBVIOUS
        <3> DEFINE rec == [call[k] EXCEPT !.pc = pc, !.seq = n]
        <3>4. GoOn(k, rec) /\ ~Taken(p, call[k].id, n)
            BY <1>7, <2>4, <3>1, <3>2, <3>3 DEF InsertMessage
        <3>5. /\ SendFields(rec) /\ rec.op = "send" /\ rec.pc = pc /\ rec.seq = n
              /\ rec.pair = p /\ rec.id = call[k].id
            BY <2>1, <2>2, <3>1 DEF SendFields
        <3> HIDE DEF rec
        <3>6. {call[k].op, rec.op} \subseteq ContactOps
            BY <2>1, <3>5
        <3>7. IsRequest(rec)
            BY <3>5, <3>6 DEF IsRequest, SendFields
        <3>8. call'[k] = rec /\ \A j \in Slots \ {k} : call'[j] = call[j]
            BY <3>4, <3>6, <3>7, GoOnMoves
        <3>9. \A i \in DOMAIN msgs[p] : msgs[p][i].id # call[k].id
            BY <3>4 DEF Taken
        <3>10. SendCall(rec)
            BY <3>2, <3>5, <3>9 DEF SendCall
        <3>11. SendCall(call[k])'
            BY <2>1, <3>8, <3>10 DEF SendCall
        <3>12. Commits(k)' => ~Contended(k)
            BY <3>3, <3>5, <3>8 DEF Commits
        <3>13. Commits(k)' => \A j \in Slots \ {k} : ~(Commits(j) /\ call[j].pair = call'[k].pair)
            BY <3>1, <3>5, <3>8, <3>12 DEF Contended, Commits, At
        <3>14. QED
            BY <2>1, <3>8, <3>11, <3>13, OneSendKeeps
    <2>5. QED
        BY <2>3, <2>4
<1>8. ASSUME NEW k \in Slots, StopWaiting(k)
      PROVE  SendsOK'
    <2>1. msgs' = msgs /\ call[k].op = "send" /\ call[k].pc = "wait" /\ call[k].op \in ContactOps
        BY <1>8 DEF StopWaiting, At, chatVars, ContactOps
    <2>2. SendFields(call[k]) /\ call[k].seq \in 1..(Len(msgs[call[k].pair]) + 1)
        BY <2>1 DEF SendsOK, SendCall
    <2>3. CASE Answer(k)
        BY <1>2, <2>1, <2>3, AnsweredFades
    <2>4. CASE ~Answer(k)
        <3>1. PICK p \in Pairs : p = call[k].pair
            BY <2>2 DEF SendFields
        <3>2. Goto(k, "commit") /\ ~Taken(p, call[k].id, call[k].seq) /\ ~Contended(k)
            BY <1>8, <2>4, <3>1 DEF StopWaiting
        <3>3. call'[k] = [call[k] EXCEPT !.pc = "commit"] /\ \A j \in Slots \ {k} : call'[j] = call[j]
            BY <2>1, <3>2, GotoMoves
        <3>4. /\ SendFields(call'[k]) /\ call'[k].pair = p /\ call'[k].id = call[k].id
              /\ call'[k].seq = call[k].seq /\ call'[k].pc = "commit"
            BY <2>2, <3>1, <3>3 DEF SendFields
        <3>5. \A i \in DOMAIN msgs[p] : msgs[p][i].id # call[k].id /\ msgs[p][i].seq # call[k].seq
            BY <3>2 DEF Taken
        <3>6. call[k].seq = Len(msgs[p]) + 1
            <4>1. msgs[p] \in Seq(MessageRow) /\ DOMAIN msgs[p] = 1..Len(msgs[p]) /\ Len(msgs[p]) \in Nat
                BY <1>1
            <4>2. \A i \in 1..Len(msgs[p]) : i # call[k].seq
                BY <1>1, <3>5, <4>1 DEF DeliveredOnceInOrder
            <4>3. QED
                BY <2>2, <3>1, <4>1, <4>2
        <3>7. SendCall(call[k])'
            BY <2>1, <3>4, <3>5, <3>6 DEF SendCall
        <3>8. \A j \in Slots \ {k} : ~(Commits(j) /\ call[j].pair = call'[k].pair)
            BY <3>1, <3>2, <3>4 DEF Contended, Commits, At
        <3>9. QED
            BY <2>1, <3>3, <3>7, <3>8, OneSendKeeps
    <2>5. QED
        BY <2>3, <2>4
<1>9. ASSUME NEW k \in Slots, CommitMessage(k)
      PROVE  SendsOK'
    BY <1>9, CommitKeeps
<1>10. QED
    BY <1>3, <1>4, <1>5, <1>6, <1>7, <1>8, <1>9, MarksKeep DEF ChatNext

(* A request for a page of a conversation, or of other services, gets no number. *)
LEMMA ThreadFades ==
    ASSUME CallsOK, SendsOK, ThreadNext
    PROVE  SendsFade
<1>1. CASE call' = call
    BY <1>1 DEF SendsFade, SameButOpen
<1>2. ASSUME NEW k \in Slots, PublishMessage(k)
      PROVE  SendsFade
    <2>1. call[k].op = "send" /\ Answer(k)
        BY <1>2 DEF PublishMessage, At
    <2>2. QED
        BY <2>1, AnsweredFades
<1>3. CASE \E k \in Slots : PublishMessage(k)
    BY <1>2, <1>3
<1>4. CASE ~\E k \in Slots : PublishMessage(k)
    BY <1>1, <1>4 DEF ThreadNext, OpenThread, LoadHistory, Subscribe, Forward, Deliver,
                     Disconnect, CloseThread, callVars
<1>5. QED
    BY <1>3, <1>4

(* The steps of the social graph. *)
LEMMA SocialFades ==
    ASSUME CallsOK, SocialNext
    PROVE  SendsFade
<1>1. CASE call' = call
    BY <1>1 DEF SendsFade, SameButOpen
<1>2. ASSUME NEW a \in AccountIds, NEW b \in AccountIds, Unblock(a, b)
      PROVE  SendsFade
    <2>1. \A k \in Slots : call'[k] \in {call[k], [call[k] EXCEPT !.open = TRUE]}
        BY <1>2, UnblockMoves
    <2>2. QED
        BY <2>1 DEF SendsFade, SameButOpen
<1>3. ASSUME NEW k \in Slots, NEW a \in AccountIds, NEW b \in AccountIds, Follow(k, a, b)
      PROVE  SendsFade
    <2> DEFINE rec == [op |-> "follow", pc |-> "insert", pair |-> {a, b}, open |-> TRUE, by |-> a]
    <2>1. Begin("follow", k, rec) /\ rec.op = "follow" /\ "follow" \in ContactOps
        BY <1>3 DEF Follow, ContactOps
    <2>2. IsRequest(rec)
        BY <2>1 DEF IsRequest
    <2> HIDE DEF rec
    <2>3. call'[k] = rec /\ \A j \in Slots \ {k} : call'[j] = call[j]
        BY <2>1, <2>2, BeginMoves
    <2>4. QED
        BY <2>1, <2>3, OneSendFades
<1>4. ASSUME NEW k \in Slots, InsertFollow(k)
      PROVE  SendsFade
    <2>1. Answer(k) /\ call[k].op \in ContactOps
        BY <1>4 DEF InsertFollow, At, ContactOps
    <2>2. call'[k] = Idle /\ \A j \in Slots \ {k} : call'[j] = call[j]
        BY <2>1, AnswerMoves
    <2>3. QED
        BY <2>2, IdleFields, OneSendFades
<1>5. QED
    BY <1>1, <1>2, <1>3, <1>4 DEF SocialNext, Unfollow, Block

(* No part of the platform but chat writes messages, or gives numbers. *)
LEMMA SendsStep ==
    ASSUME CallsOK, SendsOK, [Next]_vars
    PROVE  SendsOK'
<1>1. ASSUME msgs' = msgs, SendsFade PROVE SendsOK'
    BY <1>1, MessagesUnchanged, SendsStay
<1>2. CASE UNCHANGED contactVars /\ Spares(ContactOps)
    BY <1>1, <1>2, SparedFade DEF contactVars, chatVars
<1>3. CASE ContactNext
    <2>1. CASE ChatNext
        BY <2>1, ChatKeeps
    <2>2. CASE SocialNext /\ UNCHANGED chatVars
        BY <1>1, <2>2, SocialFades DEF chatVars
    <2>3. CASE ThreadNext /\ UNCHANGED chatVars
        BY <1>1, <2>3, ThreadFades DEF chatVars
    <2>4. CASE MatchNext /\ UNCHANGED chatVars
        <3>1. Moves({"match"})
            BY <2>4, MatchMoves DEF MatchOps
        <3>2. SendsFade
            BY <3>1, IdleFields DEF Moves, SendsFade, SameButOpen
        <3>3. QED
            BY <1>1, <2>4, <3>2 DEF chatVars
    <2>5. QED
        BY <1>3, <2>1, <2>2, <2>3, <2>4 DEF ContactNext
<1>4. QED
    BY <1>2, <1>3, ContactFrame

(* At first no message has been sent. *)
LEMMA SendsInit ==
    ASSUME Init
    PROVE  SendsOK
<1>1. call = [k \in Slots |-> Idle] /\ msgs = [p \in Pairs |-> <<>>]
    BY DEF Init, CallsInit, ChatInit
<1>2. msgs \in [Pairs -> Seq(MessageRow)]
    BY <1>1
<1>3. DeliveredOnceInOrder
    BY <1>1 DEF DeliveredOnceInOrder
<1>4. \A k \in Slots : SendCall(call[k]) /\ ~Commits(k)
    BY <1>1, IdleFields DEF SendCall, Commits
<1>5. QED
    BY <1>2, <1>3, <1>4 DEF SendsOK

(* A conversation holds one message for each client_msg_id, and its messages are
   numbered 1, 2, 3... in the order they were committed (pgrepo InsertMessage), for
   any number of requests that overlap or end early. *)
THEOREM MessagesAreNumbered == Spec => []DeliveredOnceInOrder
<1>1. Init => CallsOK /\ SendsOK
    BY InitCalls, SendsInit
<1>2. CallsOK /\ SendsOK /\ [Next]_vars => (CallsOK /\ SendsOK)'
    BY ContactFrame, SendsStep
<1>3. SendsOK => DeliveredOnceInOrder
    BY DEF SendsOK
<1>4. QED
    BY <1>1, <1>2, <1>3, PTL DEF Spec

-----------------------------------------------------------------------------
(* Matches *)

(* Requests for a match are as they were, or ended early. *)
MatchSpared ==
    /\ failed' \in {failed, failed + 1}
    /\ \A k \in Slots : "match" \in {call[k].op, call'[k].op} =>
        SameButOpen(call'[k], call[k]) \/ (call'[k] = Idle /\ failed' # failed)

(* Steps on other kinds of requests spare them. *)
LEMMA OthersSpareMatch ==
    ASSUME NEW ops, Moves(ops), "match" \notin ops
    PROVE  MatchSpared
BY DEF Moves, MatchSpared, SameButOpen

(* The social graph leaves requests for a match alone, but for what open says. *)
LEMMA SocialSparesMatch ==
    ASSUME CallsOK, SocialNext
    PROVE  MatchSpared
<1>1. ASSUME call' = call, failed' = failed PROVE MatchSpared
    BY <1>1 DEF MatchSpared, SameButOpen
<1>2. ASSUME NEW a \in AccountIds, NEW b \in AccountIds, Unblock(a, b)
      PROVE  MatchSpared
    <2>1. /\ failed' = failed
          /\ \A k \in Slots : call'[k] \in {call[k], [call[k] EXCEPT !.open = TRUE]}
        BY <1>2, UnblockMoves
    <2>2. QED
        BY <2>1 DEF MatchSpared, SameButOpen
<1>3. ASSUME NEW k \in Slots, NEW a \in AccountIds, NEW b \in AccountIds, Follow(k, a, b)
      PROVE  MatchSpared
    <2> DEFINE rec == [op |-> "follow", pc |-> "insert", pair |-> {a, b}, open |-> TRUE, by |-> a]
    <2>1. Begin("follow", k, rec) /\ rec.op = "follow" /\ "follow" \in ContactOps
        BY <1>3 DEF Follow, ContactOps
    <2>2. IsRequest(rec)
        BY <2>1 DEF IsRequest
    <2> HIDE DEF rec
    <2>3. Moves({"follow"})
        BY <2>1, <2>2, BeginMoves
    <2>4. QED
        BY <2>3, OthersSpareMatch
<1>4. ASSUME NEW k \in Slots, InsertFollow(k)
      PROVE  MatchSpared
    <2>1. Answer(k) /\ call[k].op \in {"follow"}
        BY <1>4 DEF InsertFollow, At
    <2>2. Moves({"follow"})
        BY <2>1, AnswerMoves
    <2>3. QED
        BY <2>2, OthersSpareMatch
<1>5. QED
    BY <1>1, <1>2, <1>3, <1>4 DEF SocialNext, Unfollow, Block, Serve

(* Only matchmaking changes what it stores and the requests for a match. *)
LEMMA MatchFrame ==
    ASSUME CallsOK, [Next]_vars
    PROVE  MatchNext \/ (UNCHANGED matchVars /\ MatchSpared)
<1>1. CASE UNCHANGED contactVars /\ Spares(ContactOps)
    <2>1. "match" \in ContactOps
        BY DEF ContactOps
    <2>2. MatchSpared
        BY <1>1, <2>1 DEF Spares, MatchSpared, SameButOpen
    <2>3. QED
        BY <1>1, <2>2 DEF contactVars
<1>2. CASE ContactNext
    <2>1. ASSUME ChatNext \/ ThreadNext PROVE MatchSpared
        <3>1. Moves(ChatOps) /\ "match" \notin ChatOps
            BY <2>1, ChatMoves, ThreadMoves DEF ChatOps
        <3>2. QED
            BY <3>1, OthersSpareMatch
    <2>2. QED
        BY <1>2, <2>1, SocialSparesMatch DEF ContactNext
<1>3. QED
    BY <1>1, <1>2, ContactFrame

MatchRow == [acct : AccountIds, state : {"searching", "matched", "cancelled"},
             with : AccountIds \cup {Nobody}]

(* It is at work on a request for a match of its account. *)
Searches(r) ==
    {"by", "req"} \subseteq DOMAIN r /\ r.req \in DOMAIN requests /\ requests[r.req].acct = r.by

(* The local variables of a request, at each of its steps. *)
MatchCall(r) ==
    r.op = "match" =>
        /\ r.pc = "create" => "by" \in DOMAIN r /\ r.by \in AccountIds
        /\ r.pc \in {"pick", "offer", "offer back", "decide", "exclude", "mirror", "mine", "theirs"}
            => Searches(r)
        /\ r.pc \in {"offer", "offer back"} =>
            /\ {"other", "pair"} \subseteq DOMAIN r /\ r.other \in DOMAIN requests
            /\ r.pair = {r.by, requests[r.other].acct}
        /\ r.pc \in {"decide", "exclude", "mirror", "mine", "theirs"} =>
            "about" \in DOMAIN r /\ r.about \in AccountIds
        /\ r.pc = "decide" => "say" \in DOMAIN r /\ r.say \in {"connect", "skip"}
        /\ r.pc \in {"decide", "mirror"} => "other" \notin DOMAIN r
        /\ r.pc \in {"mirror", "mine", "theirs"} => <<r.by, r.about>> \in said
        /\ r.pc \in {"mine", "theirs"} =>
            /\ "other" \in DOMAIN r /\ r.other \in DOMAIN requests
            /\ requests[r.other].acct = r.about /\ <<r.about, r.by>> \in said
        /\ r.pc = "cancel" => "req" \in DOMAIN r /\ r.req \in DOMAIN requests

(* Offers are made to requests there are, and who connected is in the history. *)
OffersOK ==
    /\ cand = [x \in DOMAIN cand |-> cand[x]]
    /\ \A x \in DOMAIN cand : \E r \in DOMAIN requests, b \in AccountIds :
        x = <<r, b>> /\ (cand[x] = "connect" => <<requests[r].acct, b>> \in said)

MatchesOK ==
    /\ requests \in Seq(MatchRow)
    /\ OffersOK
    /\ MatchedIsMutual
    /\ \A k \in Slots : MatchCall(call[k])

(* No request for a match is forgotten or given to somebody else, no decision taken back. *)
History ==
    /\ said \subseteq said'
    /\ \A r \in DOMAIN requests : r \in DOMAIN requests' /\ requests'[r].acct = requests[r].acct

(* What a request relies on stays true. *)
LEMMA MatchCallStays ==
    ASSUME NEW r, NEW s, MatchCall(r), History, {"op", "pc"} \subseteq DOMAIN r, SameButOpen(s, r)
    PROVE  MatchCall(s)'
<1>1. s.op = r.op /\ s.pc = r.pc /\ DOMAIN s = DOMAIN r
    BY DEF SameButOpen
<1>2. CASE r.op # "match"
    BY <1>1, <1>2 DEF MatchCall
<1>3. CASE r.op = "match"
    <2>1. \A f \in {"by", "req", "other", "pair", "about", "say"} \cap DOMAIN r : s[f] = r[f]
        BY DEF SameButOpen
    <2>2. /\ "by" \in DOMAIN r => s.by = r.by
          /\ "req" \in DOMAIN r => s.req = r.req
          /\ "other" \in DOMAIN r => s.other = r.other
          /\ "pair" \in DOMAIN r => s.pair = r.pair
          /\ "about" \in DOMAIN r => s.about = r.about
          /\ "say" \in DOMAIN r => s.say = r.say
        BY <2>1
    <2>3. Searches(r) => Searches(s)'
        BY <1>1, <2>2 DEF Searches, History
    <2>4. QED
        BY <1>1, <1>3, <2>2, <2>3 DEF MatchCall, Searches, History
<1>4. QED
    BY <1>2, <1>3

(* No request that is not about a match relies on any. *)
LEMMA OtherCall ==
    ASSUME NEW r, r.op # "match"
    PROVE  MatchCall(r)
BY DEF MatchCall

(* One request goes on; the others rely on what stays true. *)
LEMMA OneMatchCall ==
    ASSUME CallsOK, MatchesOK, History, NEW k \in Slots,
           \A j \in Slots \ {k} : call'[j] = call[j], MatchCall(call[k])'
    PROVE  (\A j \in Slots : MatchCall(call[j]))'
<1>1. ASSUME NEW j \in Slots \ {k}
      PROVE  MatchCall(call[j])'
    <2>1. MatchCall(call[j]) /\ {"op", "pc"} \subseteq DOMAIN call[j] /\ SameButOpen(call'[j], call[j])
        BY DEF MatchesOK, CallsOK, IsRequest, SameButOpen
    <2> DEFINE r == call[j]
    <2>2. PICK s : s = call'[j]
        OBVIOUS
    <2>3. MatchCall(s)'
        BY <2>1, <2>2, MatchCallStays
    <2>4. QED
        BY <2>2, <2>3 DEF MatchCall, Searches
<1>2. QED
    BY <1>1

(* Offers that are left alone are as they should be. *)
LEMMA OffersStay ==
    ASSUME OffersOK, History, cand' = cand
    PROVE  OffersOK'
BY DEF OffersOK, History

(* Requests for a match that are left alone stay mutual. *)
LEMMA MutualStays ==
    ASSUME MatchesOK, History, requests' = requests
    PROVE  MatchedIsMutual' /\ requests' \in Seq(MatchRow)
BY DEF MatchesOK, MatchedIsMutual, History

(* What is left to show of a step that leaves requests and offers alone. *)
LEMMA OnlyCalls ==
    ASSUME CallsOK, MatchesOK, requests' = requests, cand' = cand, said' = said,
           NEW k \in Slots, \A j \in Slots \ {k} : call'[j] = call[j], MatchCall(call[k])'
    PROVE  MatchesOK' /\ History
<1>1. History
    BY DEF History
<1>2. QED
    BY <1>1, OneMatchCall, OffersStay, MutualStays DEF MatchesOK

(* A request that has been matched with somebody, or cancelled. *)
LEMMA RequestWritten ==
    ASSUME CallsOK, MatchesOK, NEW r \in DOMAIN requests, NEW state \in {"matched", "cancelled"},
           NEW with \in AccountIds \cup {Nobody},
           requests' = [requests EXCEPT ![r].state = state, ![r].with = with],
           with # Nobody => /\ <<requests[r].acct, with>> \in said
                            /\ <<with, requests[r].acct>> \in said,
           cand' = cand, said' = said
    PROVE  /\ History /\ requests' \in Seq(MatchRow) /\ OffersOK' /\ MatchedIsMutual'
           /\ DOMAIN requests' = DOMAIN requests
           /\ requests'[r].state = state
           /\ \A x \in DOMAIN requests \ {r} : requests'[x] = requests[x]
<1>1. requests \in Seq(MatchRow) /\ OffersOK /\ MatchedIsMutual
    BY DEF MatchesOK
<1>2. PICK row \in MatchRow : row = requests[r]
    BY <1>1, RowsTyped
<1>3. PICK new \in MatchRow : new = [row EXCEPT !.state = state, !.with = with]
    BY DEF MatchRow
<1>4. new.acct = row.acct /\ new.state = state /\ new.with = with
    BY <1>2, <1>3 DEF MatchRow
<1>5. /\ requests' = [x \in DOMAIN requests |-> requests'[x]]
      /\ requests'[r] = new
      /\ \A x \in DOMAIN requests \ {r} : requests'[x] = requests[x]
    BY <1>1, <1>2, <1>3
<1>6. \A x \in DOMAIN requests : requests'[x] \in MatchRow
    BY <1>1, <1>5, RowsTyped
<1>7. DOMAIN requests' = DOMAIN requests
    BY <1>5
<1>8. requests' \in Seq(MatchRow)
    <2>1. PICK other : other = requests'
        OBVIOUS
    <2>2. QED
        BY <1>1, <1>5, <1>6, <1>7, <2>1, RowWritten
<1>9. History
    BY <1>2, <1>4, <1>5, <1>7 DEF History
<1>10. MatchedIsMutual'
    <2>1. ASSUME NEW x \in DOMAIN requests', requests'[x].with # Nobody
          PROVE  /\ <<requests'[x].acct, requests'[x].with>> \in said
                 /\ <<requests'[x].with, requests'[x].acct>> \in said
        <3>1. CASE x = r
            BY <1>2, <1>4, <1>5, <2>1, <3>1
        <3>2. CASE x # r
            BY <1>1, <1>5, <1>7, <2>1, <3>2 DEF MatchedIsMutual
        <3>3. QED
            BY <3>1, <3>2
    <2>2. QED
        BY <2>1 DEF MatchedIsMutual
<1>11. QED
    BY <1>1, <1>4, <1>5, <1>7, <1>8, <1>9, <1>10, OffersStay

(* A new offer, or one renewed. *)
LEMMA OfferWritten ==
    ASSUME CallsOK, MatchesOK, NEW r \in DOMAIN requests, NEW b \in AccountIds,
           requests' = requests, said' = said, cand' = Offered(cand, r, b)
    PROVE  History /\ OffersOK'
<1>1. History
    BY DEF History
<1>2. OffersOK'
    <2>1. /\ cand' = [x \in DOMAIN cand \cup {<<r, b>>} |-> cand'[x]]
          /\ cand'[<<r, b>>] = "" /\ \A x \in DOMAIN cand \ {<<r, b>>} : cand'[x] = cand[x]
        BY DEF Offered
    <2>2. DOMAIN cand' = DOMAIN cand \cup {<<r, b>>}
        BY <2>1
    <2>3. ASSUME NEW x \in DOMAIN cand'
          PROVE  \E q \in DOMAIN requests, c \in AccountIds :
                    x = <<q, c>> /\ (cand'[x] = "connect" => <<requests[q].acct, c>> \in said)
        <3>1. CASE x = <<r, b>>
            <4>1. cand'[x] # "connect"
                BY <2>1, <3>1
            <4>2. QED
                BY <3>1, <4>1
        <3>2. CASE x \in DOMAIN cand \ {<<r, b>>}
            <4>1. PICK q \in DOMAIN requests, c \in AccountIds :
                    x = <<q, c>> /\ (cand[x] = "connect" => <<requests[q].acct, c>> \in said)
                BY <3>2 DEF MatchesOK, OffersOK
            <4>2. cand'[x] = cand[x]
                BY <2>1, <3>2
            <4>3. QED
                BY <4>1, <4>2
        <3>3. QED
            BY <2>2, <3>1, <3>2
    <2>4. cand' = [x \in DOMAIN cand' |-> cand'[x]]
        BY <2>1, <2>2
    <2>5. QED
        BY <2>3, <2>4 DEF OffersOK
<1>3. QED
    BY <1>1, <1>2

(* A request of an account to be matched, to decide or to cancel is let in. *)
LEMMA MatchBegins ==
    ASSUME CallsOK, MatchesOK, NEW k \in Slots, NEW rec, Begin("match", k, rec),
           IsRequest(rec), rec.op = "match", MatchCall(rec), UNCHANGED matchVars
    PROVE  MatchesOK' /\ History /\ call'[k] = rec /\ \A j \in Slots \ {k} : call'[j] = call[j]
<1>1. call'[k] = rec /\ \A j \in Slots \ {k} : call'[j] = call[j]
    BY BeginMoves DEF MatchOps
<1>2. requests' = requests /\ cand' = cand /\ said' = said
    BY DEF matchVars
<1>3. MatchCall(call[k])'
    BY <1>1, <1>2 DEF MatchCall, Searches
<1>4. QED
    BY <1>1, <1>2, <1>3, OnlyCalls

(* A request for a match goes on while requests and offers stay. *)
LEMMA MatchGoesOn ==
    ASSUME CallsOK, MatchesOK, NEW k \in Slots, NEW rec, GoOn(k, rec), call[k].op = "match",
           IsRequest(rec), rec.op = "match", MatchCall(rec),
           requests' = requests, cand' = cand, said' = said
    PROVE  MatchesOK' /\ History /\ call'[k] = rec /\ \A j \in Slots \ {k} : call'[j] = call[j]
<1>1. {call[k].op, rec.op} \subseteq MatchOps
    BY DEF MatchOps
<1>2. call'[k] = rec /\ \A j \in Slots \ {k} : call'[j] = call[j]
    BY <1>1, GoOnMoves
<1>3. MatchCall(call[k])'
    BY <1>2 DEF MatchCall, Searches
<1>4. QED
    BY <1>2, <1>3, OnlyCalls

(* A request for a match is answered. *)
LEMMA MatchAnswered ==
    ASSUME CallsOK, NEW k \in Slots, Answer(k), call[k].op = "match"
    PROVE  /\ call'[k] = Idle /\ MatchCall(call[k])'
           /\ \A j \in Slots \ {k} : call'[j] = call[j]
<1>1. call[k].op \in MatchOps
    BY DEF MatchOps
<1>2. call'[k] = Idle /\ \A j \in Slots \ {k} : call'[j] = call[j]
    BY <1>1, AnswerMoves
<1>3. call'[k].op # "match"
    BY <1>2, IdleFields
<1>4. QED
    BY <1>2, <1>3 DEF MatchCall

(* The local variables of a request that searches. *)
LEMMA SearchFields ==
    ASSUME MatchesOK, NEW k \in Slots, call[k].op = "match",
           call[k].pc \in {"pick", "offer", "offer back", "decide", "exclude", "mirror", "mine", "theirs"}
    PROVE  /\ {"by", "req"} \subseteq DOMAIN call[k] /\ call[k].req \in DOMAIN requests
           /\ requests[call[k].req].acct = call[k].by /\ call[k].by \in AccountIds
<1>1. MatchCall(call[k]) /\ requests \in Seq(MatchRow)
    BY DEF MatchesOK
<1>2. Searches(call[k])
    BY <1>1 DEF MatchCall
<1>3. requests[call[k].req] \in MatchRow
    BY <1>1, <1>2, RowsTyped DEF Searches
<1>4. QED
    BY <1>2, <1>3 DEF Searches, MatchRow

(* Requests that are let in. *)
LEMMA MatchLetIn ==
    ASSUME CallsOK, MatchesOK, NEW k \in Slots,
           \/ \E a \in AccountIds : CreateRequest(k, a)
           \/ \E x \in DOMAIN cand, d \in {"connect", "skip"} : Decide(k, x[1], x[2], d)
           \/ \E r \in DOMAIN requests : CancelRequest(k, r)
    PROVE  /\ MatchesOK' /\ History /\ call[k] = Idle
           /\ call'[k].pc \in {"create", "decide", "cancel"}
           /\ \A j \in Slots \ {k} : call'[j] = call[j]
           /\ UNCHANGED matchVars
<1>1. ASSUME NEW rec, Begin("match", k, rec), rec.op = "match", IsRequest(rec), MatchCall(rec),
             UNCHANGED matchVars, rec.pc \in {"create", "decide", "cancel"}
      PROVE  /\ MatchesOK' /\ History /\ call[k] = Idle
             /\ call'[k].pc \in {"create", "decide", "cancel"}
             /\ \A j \in Slots \ {k} : call'[j] = call[j]
             /\ UNCHANGED matchVars
    BY <1>1, MatchBegins DEF Begin
<1>2. ASSUME NEW a \in AccountIds, CreateRequest(k, a)
      PROVE  \E rec : /\ Begin("match", k, rec) /\ rec.op = "match" /\ IsRequest(rec) /\ MatchCall(rec)
                      /\ UNCHANGED matchVars /\ rec.pc \in {"create", "decide", "cancel"}
    <2> DEFINE rec == [op |-> "match", pc |-> "create", by |-> a]
    <2>1. Begin("match", k, rec) /\ UNCHANGED matchVars
        BY <1>2 DEF CreateRequest
    <2>2. rec.op = "match" /\ rec.pc = "create" /\ IsRequest(rec) /\ MatchCall(rec)
        BY DEF IsRequest, ContactOps, MatchCall
    <2> HIDE DEF rec
    <2>3. QED
        BY <2>1, <2>2
<1>3. ASSUME NEW x \in DOMAIN cand, NEW d \in {"connect", "skip"}, Decide(k, x[1], x[2], d)
      PROVE  \E rec : /\ Begin("match", k, rec) /\ rec.op = "match" /\ IsRequest(rec) /\ MatchCall(rec)
                      /\ UNCHANGED matchVars /\ rec.pc \in {"create", "decide", "cancel"}
    <2>1. PICK r \in DOMAIN requests, b \in AccountIds : x = <<r, b>>
        BY DEF MatchesOK, OffersOK
    <2> DEFINE rec == [op |-> "match", pc |-> "decide", by |-> requests[r].acct,
                       req |-> r, about |-> b, say |-> d]
    <2>2. Begin("match", k, rec) /\ UNCHANGED matchVars
        BY <1>3, <2>1 DEF Decide
    <2>3. rec.op = "match" /\ rec.pc = "decide" /\ IsRequest(rec)
        BY DEF IsRequest, ContactOps
    <2>4. MatchCall(rec)
        BY DEF MatchCall, Searches
    <2> HIDE DEF rec
    <2>5. QED
        BY <2>2, <2>3, <2>4
<1>4. ASSUME NEW r \in DOMAIN requests, CancelRequest(k, r)
      PROVE  \E rec : /\ Begin("match", k, rec) /\ rec.op = "match" /\ IsRequest(rec) /\ MatchCall(rec)
                      /\ UNCHANGED matchVars /\ rec.pc \in {"create", "decide", "cancel"}
    <2> DEFINE rec == [op |-> "match", pc |-> "cancel", req |-> r]
    <2>1. Begin("match", k, rec) /\ UNCHANGED matchVars
        BY <1>4 DEF CancelRequest
    <2>2. rec.op = "match" /\ rec.pc = "cancel" /\ IsRequest(rec) /\ MatchCall(rec)
        BY DEF IsRequest, ContactOps, MatchCall
    <2> HIDE DEF rec
    <2>3. QED
        BY <2>1, <2>2
<1>5. QED
    BY <1>1, <1>2, <1>3, <1>4

(* The search, up to an offer. *)
LEMMA SearchKeeps ==
    ASSUME CallsOK, MatchesOK, NEW k \in Slots, StoreRequest(k) \/ TryMatch(k)
    PROVE  /\ MatchesOK' /\ History /\ cand' = cand
           /\ call[k].op = "match" /\ call[k].pc \in {"create", "pick"}
           /\ call'[k].pc \in {"pick", "offer", "idle"}
           /\ \A j \in Slots \ {k} : call'[j] = call[j]
           /\ \A r \in DOMAIN requests : requests'[r] = requests[r]
           /\ DOMAIN requests' \subseteq DOMAIN requests \cup {Len(requests) + 1}
           /\ \A r \in DOMAIN requests' \ DOMAIN requests : Searching(r)'
<1>1. requests \in Seq(MatchRow) /\ OffersOK /\ MatchedIsMutual /\ MatchCall(call[k])
    BY DEF MatchesOK
<1>2. CASE StoreRequest(k)
    <2>1. call[k].op = "match" /\ call[k].pc = "create" /\ cand' = cand /\ said' = said
        BY <1>2 DEF StoreRequest, At
    <2>2. PICK a \in AccountIds : a = call[k].by
        BY <1>1, <2>1 DEF MatchCall
    <2>3. PICK n \in Nat : n = Len(requests)
        BY <1>1
    <2>4. PICK row \in MatchRow : row = [acct |-> a, state |-> "searching", with |-> Nobody]
        BY DEF MatchRow
    <2>5. row.acct = a /\ row.state = "searching" /\ row.with = Nobody
        BY <2>4
    <2>6. requests' = Append(requests, row)
        BY <1>2, <2>2, <2>4 DEF StoreRequest
    <2>7. /\ requests' \in Seq(MatchRow) /\ DOMAIN requests' = 1..(n + 1) /\ DOMAIN requests = 1..n
          /\ requests'[n + 1] = row /\ \A r \in 1..n : requests'[r] = requests[r]
        BY <1>1, <2>3, <2>6
    <2>8. /\ \A r \in DOMAIN requests : r \in DOMAIN requests' /\ requests'[r] = requests[r]
          /\ \A r \in DOMAIN requests' : r \in DOMAIN requests \/ r = n + 1
          /\ n + 1 \in DOMAIN requests'
        BY <2>3, <2>7
    <2>9. History
        BY <2>1, <2>8 DEF History
    <2>10. MatchedIsMutual'
        BY <1>1, <2>1, <2>5, <2>7, <2>8 DEF MatchedIsMutual
    <2> DEFINE rec == [op |-> "match", pc |-> "pick", by |-> a, req |-> n + 1]
    <2>11. /\ GoOn(k, rec) /\ rec.op = "match" /\ rec.pc = "pick" /\ IsRequest(rec)
           /\ {"by", "req"} \subseteq DOMAIN rec /\ rec.by = a /\ rec.req = n + 1
        BY <1>2, <2>2, <2>3 DEF StoreRequest, IsRequest, ContactOps
    <2> HIDE DEF rec
    <2>12. {call[k].op, rec.op} \subseteq MatchOps
        BY <2>1, <2>11 DEF MatchOps
    <2>13. call'[k] = rec /\ \A j \in Slots \ {k} : call'[j] = call[j]
        BY <2>11, <2>12, GoOnMoves
    <2>14. MatchCall(call[k])'
        BY <2>5, <2>7, <2>8, <2>11, <2>13 DEF MatchCall, Searches
    <2>15. MatchesOK'
        BY <1>1, <2>1, <2>7, <2>9, <2>10, <2>13, <2>14, OneMatchCall, OffersStay DEF MatchesOK
    <2>16. \A r \in DOMAIN requests' \ DOMAIN requests : Searching(r)'
        BY <2>5, <2>7, <2>8 DEF Searching
    <2>17. QED
        BY <2>1, <2>3, <2>8, <2>9, <2>11, <2>13, <2>15, <2>16
<1>3. CASE TryMatch(k)
    <2>1. /\ call[k].op = "match" /\ call[k].pc = "pick"
          /\ requests' = requests /\ cand' = cand /\ said' = said
        BY <1>3 DEF TryMatch, At
    <2>2. /\ {"by", "req"} \subseteq DOMAIN call[k] /\ call[k].req \in DOMAIN requests
          /\ requests[call[k].req].acct = call[k].by /\ call[k].by \in AccountIds
        BY <2>1, SearchFields
    <2>3. CASE Answer(k)
        <3>1. call'[k].pc = "idle"
            BY <2>1, <2>3, MatchAnswered, IdleFields
        <3>2. QED
            BY <2>1, <2>3, <3>1, MatchAnswered, OnlyCalls
    <2>4. CASE ~Answer(k)
        <3>1. PICK o \in DOMAIN requests :
                GoOn(k, Contact("match", "offer", {call[k].by, requests[o].acct},
                                [by |-> call[k].by, req |-> call[k].req, other |-> o]))
            BY <1>3, <2>4 DEF TryMatch
        <3>2. PICK a, r, p : a = call[k].by /\ r = call[k].req /\ p = {a, requests[o].acct}
            OBVIOUS
        <3> DEFINE more == [by |-> a, req |-> r, other |-> o]
                   rec == Contact("match", "offer", p, more)
        <3>3. DOMAIN more = {"by", "req", "other"} /\ more.by = a /\ more.req = r /\ more.other = o
            OBVIOUS
        <3> HIDE DEF more, rec
        <3>4. GoOn(k, rec)
            BY <3>1, <3>2 DEF more, rec
        <3>5. "match" \in ContactOps
            BY DEF ContactOps
        <3>6. Carries(rec, "match", "offer", p, more)
            BY <3>5, ContactRequest DEF rec
        <3>7. /\ IsRequest(rec) /\ rec.op = "match" /\ rec.pc = "offer" /\ rec.pair = p
              /\ {"by", "req", "other", "pair"} \subseteq DOMAIN rec
              /\ rec.by = a /\ rec.req = r /\ rec.other = o
            BY <3>3, <3>6 DEF Carries
        <3>8. MatchCall(rec)
            BY <2>2, <3>2, <3>7 DEF MatchCall, Searches
        <3>9. QED
            BY <2>1, <3>4, <3>7, <3>8, MatchGoesOn
    <2>5. QED
        BY <2>3, <2>4
<1>4. QED
    BY <1>2, <1>3

(* Each side is offered the other. *)
LEMMA OffersKeep ==
    ASSUME CallsOK, MatchesOK, NEW k \in Slots, Offer(k) \/ OfferBack(k)
    PROVE  /\ MatchesOK' /\ History /\ requests' = requests
           /\ call[k].op = "match" /\ call[k].pc \in {"offer", "offer back"}
           /\ call'[k].pc \in {"offer back", "idle"} /\ call'[k].pc # call[k].pc
           /\ \A j \in Slots \ {k} : call'[j] = call[j]
           /\ \E r \in DOMAIN requests, b \in AccountIds :
                /\ cand' = Offered(cand, r, b)
                /\ call[k].pair = {requests[r].acct, b}
<1>1. /\ call[k].op = "match" /\ call[k].pc \in {"offer", "offer back"}
      /\ requests' = requests /\ said' = said
    BY DEF Offer, OfferBack, At
<1>2. /\ {"by", "req"} \subseteq DOMAIN call[k] /\ call[k].req \in DOMAIN requests
      /\ requests[call[k].req].acct = call[k].by /\ call[k].by \in AccountIds
    BY <1>1, SearchFields
<1>3. MatchCall(call[k]) /\ requests \in Seq(MatchRow)
    BY DEF MatchesOK
<1>4. /\ {"other", "pair"} \subseteq DOMAIN call[k] /\ call[k].other \in DOMAIN requests
      /\ call[k].pair = {call[k].by, requests[call[k].other].acct}
    BY <1>1, <1>3 DEF MatchCall
<1>5. PICK r \in DOMAIN requests, b \in AccountIds :
        cand' = Offered(cand, r, b) /\ call[k].pair = {requests[r].acct, b}
    <2>1. requests[call[k].other] \in MatchRow
        BY <1>3, <1>4, RowsTyped
    <2>2. PICK q \in DOMAIN requests, o \in DOMAIN requests, a \in AccountIds, c \in AccountIds :
            /\ q = call[k].req /\ o = call[k].other /\ a = call[k].by /\ c = requests[call[k].other].acct
        BY <1>2, <1>4, <2>1 DEF MatchRow
    <2>3. requests[q].acct = a /\ requests[o].acct = c /\ call[k].pair = {a, c}
        BY <1>2, <1>4, <2>2
    <2>4. CASE Offer(k)
        <3>1. cand' = Offered(cand, q, c)
            BY <2>2, <2>4 DEF Offer
        <3>2. QED
            BY <2>3, <3>1
    <2>5. CASE OfferBack(k)
        <3>1. cand' = Offered(cand, o, a)
            BY <2>2, <2>5 DEF OfferBack
        <3>2. {a, c} = {c, a}
            OBVIOUS
        <3>3. QED
            BY <2>3, <3>1, <3>2
    <2>6. QED
        BY <2>4, <2>5
<1>6. History /\ OffersOK' /\ MatchedIsMutual' /\ requests' \in Seq(MatchRow)
    BY <1>1, <1>5, OfferWritten, MutualStays
<1>7. CASE Offer(k)
    <2>1. Goto(k, "offer back") /\ call[k].op \in MatchOps /\ call[k].pc = "offer"
        BY <1>1, <1>7 DEF Offer, At, MatchOps
    <2>2. /\ call'[k] = [call[k] EXCEPT !.pc = "offer back"] /\ call'[k].pc = "offer back"
          /\ \A j \in Slots \ {k} : call'[j] = call[j]
        BY <2>1, GotoMoves
    <2>3. MatchCall(call[k])'
        BY <1>1, <1>2, <1>4, <2>2 DEF MatchCall, Searches
    <2>4. QED
        BY <1>1, <1>5, <1>6, <2>1, <2>2, <2>3, OneMatchCall DEF MatchesOK
<1>8. CASE OfferBack(k)
    <2>1. call'[k] = Idle /\ MatchCall(call[k])' /\ \A j \in Slots \ {k} : call'[j] = call[j]
        BY <1>1, <1>8, MatchAnswered DEF OfferBack
    <2>2. QED
        BY <1>1, <1>5, <1>6, <2>1, IdleFields, OneMatchCall DEF MatchesOK
<1>9. QED
    BY <1>7, <1>8

(* A decision is stored and the history has it. *)
LEMMA DecisionKeeps ==
    ASSUME CallsOK, MatchesOK, NEW k \in Slots, SetCandidateDecision(k)
    PROVE  /\ MatchesOK' /\ History /\ requests' = requests /\ DOMAIN cand' = DOMAIN cand
           /\ call[k].op = "match" /\ call[k].pc = "decide"
           /\ call'[k].op = "match" /\ call'[k].req = call[k].req /\ call'[k].about = call[k].about
           /\ \A j \in Slots \ {k} : call'[j] = call[j]
           /\ \A x \in DOMAIN cand : x # <<call[k].req, call[k].about>> => cand'[x] = cand[x]
           /\ \/ call'[k].pc = "mirror"
              \/ call'[k].pc = "exclude" /\ cand'[<<call[k].req, call[k].about>>] # "connect"
              \/ call'[k].pc = "exclude" /\ <<call[k].req, call[k].about>> \notin DOMAIN cand
<1>1. call[k].op = "match" /\ call[k].pc = "decide" /\ requests' = requests
    BY DEF SetCandidateDecision, At
<1>2. /\ {"by", "req"} \subseteq DOMAIN call[k] /\ call[k].req \in DOMAIN requests
      /\ requests[call[k].req].acct = call[k].by /\ call[k].by \in AccountIds
    BY <1>1, SearchFields
<1>3. /\ MatchCall(call[k]) /\ requests \in Seq(MatchRow) /\ OffersOK
      /\ {"about", "say"} \subseteq DOMAIN call[k] /\ call[k].about \in AccountIds
      /\ call[k].say \in {"connect", "skip"}
    BY <1>1 DEF MatchesOK, MatchCall
<1>4. PICK y, say : y = <<call[k].req, call[k].about>> /\ say = call[k].say
    OBVIOUS
<1>5. PICK pc : pc = IF say = "connect" THEN "mirror" ELSE "exclude"
    OBVIOUS
<1>6. /\ cand' = [cand EXCEPT ![y] = say] /\ Goto(k, pc)
      /\ said' = IF say = "connect" THEN said \cup {<<call[k].by, call[k].about>>} ELSE said
    BY <1>4, <1>5 DEF SetCandidateDecision
<1>7. call[k].op \in MatchOps
    BY <1>1 DEF MatchOps
<1>8. /\ call'[k] = [call[k] EXCEPT !.pc = pc]
      /\ call'[k].pc = pc /\ call'[k].op = "match"
      /\ \A j \in Slots \ {k} : call'[j] = call[j]
    BY <1>1, <1>6, <1>7, GotoMoves
<1>9. /\ DOMAIN call'[k] = DOMAIN call[k] /\ call'[k].by = call[k].by
      /\ call'[k].req = call[k].req /\ call'[k].about = call[k].about
    BY <1>2, <1>3, <1>8
<1>10. History
    BY <1>1, <1>6 DEF History
<1>11. /\ cand' = [x \in DOMAIN cand |-> cand'[x]] /\ DOMAIN cand' = DOMAIN cand
       /\ \A x \in DOMAIN cand : cand'[x] = IF x = y THEN say ELSE cand[x]
    BY <1>3, <1>6 DEF OffersOK
<1>12. OffersOK'
    <2>1. ASSUME NEW x \in DOMAIN cand
          PROVE  \E q \in DOMAIN requests', c \in AccountIds :
                    x = <<q, c>> /\ (cand'[x] = "connect" => <<requests'[q].acct, c>> \in said')
        <3>1. PICK q \in DOMAIN requests, c \in AccountIds :
                x = <<q, c>> /\ (cand[x] = "connect" => <<requests[q].acct, c>> \in said)
            BY <1>3 DEF OffersOK
        <3>2. CASE x = y
            BY <1>1, <1>2, <1>4, <1>6, <1>11, <3>1, <3>2
        <3>3. CASE x # y
            BY <1>1, <1>6, <1>11, <3>1, <3>3
        <3>4. QED
            BY <3>2, <3>3
    <2>2. cand' = [x \in DOMAIN cand' |-> cand'[x]]
        BY <1>11
    <2>3. QED
        BY <1>11, <2>1, <2>2 DEF OffersOK
<1>13. MatchCall(call[k])'
    BY <1>1, <1>2, <1>3, <1>5, <1>6, <1>8, <1>9 DEF MatchCall, Searches
<1>14. MatchesOK'
    <2>1. MatchedIsMutual' /\ requests' \in Seq(MatchRow)
        BY <1>1, <1>10, MutualStays
    <2>2. (\A j \in Slots : MatchCall(call[j]))'
        BY <1>8, <1>10, <1>13, OneMatchCall
    <2>3. QED
        BY <1>12, <2>1, <2>2 DEF MatchesOK
<1>15. \/ pc = "mirror"
       \/ pc = "exclude" /\ cand'[y] # "connect"
       \/ pc = "exclude" /\ y \notin DOMAIN cand
    <2>1. CASE say = "connect"
        BY <1>5, <2>1
    <2>2. CASE say # "connect"
        <3>1. pc = "exclude"
            BY <1>5, <2>2
        <3>2. y \in DOMAIN cand => cand'[y] = say
            BY <1>11
        <3>3. QED
            BY <2>2, <3>1, <3>2
    <2>3. QED
        BY <2>1, <2>2
<1>16. QED
    BY <1>1, <1>4, <1>8, <1>9, <1>10, <1>11, <1>14, <1>15

(* After a skip the search goes on. *)
LEMMA ExcludeKeeps ==
    ASSUME CallsOK, MatchesOK, NEW k \in Slots, ExcludeSkipped(k)
    PROVE  /\ MatchesOK' /\ History /\ requests' = requests /\ cand' = cand
           /\ call[k].op = "match" /\ call[k].pc = "exclude" /\ call'[k].pc = "pick"
           /\ \A j \in Slots \ {k} : call'[j] = call[j]
<1>1. /\ call[k].op = "match" /\ call[k].pc = "exclude"
      /\ requests' = requests /\ cand' = cand /\ said' = said
    BY DEF ExcludeSkipped, At
<1>2. /\ {"by", "req"} \subseteq DOMAIN call[k] /\ call[k].req \in DOMAIN requests
      /\ requests[call[k].req].acct = call[k].by /\ call[k].by \in AccountIds
    BY <1>1, SearchFields
<1>3. PICK a, r : a = call[k].by /\ r = call[k].req
    OBVIOUS
<1> DEFINE rec == [op |-> "match", pc |-> "pick", by |-> a, req |-> r]
<1>4. /\ GoOn(k, rec) /\ rec.op = "match" /\ rec.pc = "pick" /\ IsRequest(rec)
      /\ {"by", "req"} \subseteq DOMAIN rec /\ rec.by = a /\ rec.req = r
    BY <1>3 DEF ExcludeSkipped, IsRequest, ContactOps
<1> HIDE DEF rec
<1>5. MatchCall(rec)
    BY <1>2, <1>3, <1>4 DEF MatchCall, Searches
<1>6. QED
    BY <1>1, <1>4, <1>5, MatchGoesOn

(* The other side's decision is looked for. *)
LEMMA MirrorKeeps ==
    ASSUME CallsOK, MatchesOK, NEW k \in Slots, FindMirror(k)
    PROVE  /\ MatchesOK' /\ History /\ requests' = requests /\ cand' = cand
           /\ call[k].op = "match" /\ call[k].pc = "mirror"
           /\ \A j \in Slots \ {k} : call'[j] = call[j]
           /\ \/ /\ call'[k] = Idle
                 /\ \/ \A o \in Of(call[k].about) : <<o, call[k].by>> \notin DOMAIN cand
                    \/ \E o \in Of(call[k].about) :
                        <<o, call[k].by>> \in DOMAIN cand /\ cand[<<o, call[k].by>>] # "connect"
              \/ /\ call'[k].op = "match" /\ call'[k].pc = "mine"
                 /\ call'[k].req = call[k].req /\ call'[k].about = call[k].about
                 /\ call'[k].other \in Of(call[k].about)
<1>1. /\ call[k].op = "match" /\ call[k].pc = "mirror"
      /\ requests' = requests /\ cand' = cand /\ said' = said
    BY DEF FindMirror, At, matchVars
<1>2. /\ {"by", "req"} \subseteq DOMAIN call[k] /\ call[k].req \in DOMAIN requests
      /\ requests[call[k].req].acct = call[k].by /\ call[k].by \in AccountIds
    BY <1>1, SearchFields
<1>3. /\ MatchCall(call[k]) /\ OffersOK /\ "about" \in DOMAIN call[k] /\ call[k].about \in AccountIds
      /\ <<call[k].by, call[k].about>> \in said /\ "other" \notin DOMAIN call[k]
    BY <1>1 DEF MatchesOK, MatchCall
<1>4. CASE Answer(k)
    <2>1. call'[k] = Idle /\ MatchCall(call[k])' /\ \A j \in Slots \ {k} : call'[j] = call[j]
        BY <1>1, <1>4, MatchAnswered
    <2>2. MatchesOK' /\ History
        BY <1>1, <2>1, OnlyCalls
    <2>3. GoOn(k, Idle)
        BY <1>4 DEF Answer
    <2>4. ASSUME NEW o, GoOn(k, Joined([call[k] EXCEPT !.pc = "mine"], [other |-> o]))
          PROVE  FALSE
        <3> DEFINE rec == Joined([call[k] EXCEPT !.pc = "mine"], [other |-> o])
        <3>1. rec.op = "match"
            BY <1>1 DEF CallsOK, IsRequest, Joined
        <3> HIDE DEF rec
        <3>2. call' = [call EXCEPT ![k] = rec] /\ call = [j \in Slots |-> call[j]]
            BY <2>4 DEF GoOn, CallsOK, rec
        <3>3. call'[k] = rec
            BY <3>2
        <3>4. QED
            BY <2>1, <3>1, <3>3, IdleFields
    <2>5. \/ \A o \in Of(call[k].about) : <<o, call[k].by>> \notin DOMAIN cand
          \/ \E o \in Of(call[k].about) :
                <<o, call[k].by>> \in DOMAIN cand /\ cand[<<o, call[k].by>>] # "connect"
        BY <2>4 DEF FindMirror
    <2>6. QED
        BY <1>1, <2>1, <2>2, <2>5
<1>5. CASE ~Answer(k)
    <2>1. PICK o \in Of(call[k].about) :
            /\ <<o, call[k].by>> \in DOMAIN cand /\ cand[<<o, call[k].by>>] = "connect"
            /\ GoOn(k, Joined([call[k] EXCEPT !.pc = "mine"], [other |-> o]))
        BY <1>5 DEF FindMirror
    <2>2. o \in DOMAIN requests /\ requests[o].acct = call[k].about
        BY <2>1 DEF Of
    <2>3. <<call[k].about, call[k].by>> \in said
        <3>1. PICK q \in DOMAIN requests, c \in AccountIds :
                <<o, call[k].by>> = <<q, c>> /\ <<requests[q].acct, c>> \in said
            BY <1>3, <2>1 DEF OffersOK
        <3>2. QED
            BY <2>2, <3>1
    <2> DEFINE rec == Joined([call[k] EXCEPT !.pc = "mine"], [other |-> o])
    <2>4. /\ {"op", "pc", "by", "req", "about"} \subseteq DOMAIN call[k]
          /\ DOMAIN rec = DOMAIN call[k] \cup {"other"}
        BY <1>2, <1>3 DEF CallsOK, IsRequest, Joined
    <2>5. /\ rec.op = "match" /\ rec.pc = "mine" /\ rec.by = call[k].by /\ rec.req = call[k].req
          /\ rec.about = call[k].about
        BY <1>1, <2>4 DEF Joined
    <2>6. rec.other = o
        BY <1>3 DEF Joined
    <2>7. GoOn(k, rec)
        BY <2>1
    <2> HIDE DEF rec
    <2>8. IsRequest(rec)
        BY <2>4, <2>5 DEF IsRequest, ContactOps
    <2>9. MatchCall(rec)
        BY <1>2, <1>3, <2>2, <2>3, <2>4, <2>5, <2>6 DEF MatchCall, Searches
    <2>10. MatchesOK' /\ History /\ call'[k] = rec /\ \A j \in Slots \ {k} : call'[j] = call[j]
        BY <1>1, <2>5, <2>7, <2>8, <2>9, MatchGoesOn
    <2>11. QED
        BY <1>1, <2>1, <2>5, <2>6, <2>10
<1>6. QED
    BY <1>4, <1>5

(* The requests of both sides are matched, one after the other. *)
LEMMA UpdatesKeep ==
    ASSUME CallsOK, MatchesOK, NEW k \in Slots, UpdateMine(k) \/ UpdateTheirs(k)
    PROVE  /\ MatchesOK' /\ History /\ cand' = cand /\ call[k].op = "match"
           /\ DOMAIN requests' = DOMAIN requests
           /\ \A j \in Slots \ {k} : call'[j] = call[j]
           /\ \A x \in DOMAIN requests : Searching(x)' => Searching(x)
           /\ \/ /\ call[k].pc = "mine" /\ requests'[call[k].req].state # "searching"
                 /\ call'[k].op = "match" /\ call'[k].pc = "theirs"
                 /\ call'[k].req = call[k].req /\ call'[k].about = call[k].about
                 /\ call'[k].other = call[k].other
              \/ call[k].pc = "theirs" /\ call'[k] = Idle /\ requests'[call[k].other].state # "searching"
<1>1. /\ call[k].op = "match" /\ call[k].pc \in {"mine", "theirs"}
      /\ cand' = cand /\ said' = said
    BY DEF UpdateMine, UpdateTheirs, At
<1>2. /\ {"by", "req"} \subseteq DOMAIN call[k] /\ call[k].req \in DOMAIN requests
      /\ requests[call[k].req].acct = call[k].by /\ call[k].by \in AccountIds
    BY <1>1, SearchFields
<1>3. /\ MatchCall(call[k]) /\ requests \in Seq(MatchRow)
      /\ {"about", "other"} \subseteq DOMAIN call[k] /\ call[k].about \in AccountIds
      /\ <<call[k].by, call[k].about>> \in said /\ <<call[k].about, call[k].by>> \in said
      /\ call[k].other \in DOMAIN requests /\ requests[call[k].other].acct = call[k].about
    BY <1>1 DEF MatchesOK, MatchCall
<1>4. PICK r \in DOMAIN requests, o \in DOMAIN requests, a \in AccountIds, b \in AccountIds :
        /\ r = call[k].req /\ o = call[k].other /\ a = call[k].by /\ b = call[k].about
        /\ requests[r].acct = a /\ requests[o].acct = b /\ {<<a, b>>, <<b, a>>} \subseteq said
    BY <1>2, <1>3
<1>5. CASE UpdateMine(k)
    <2>1. call[k].pc = "mine" /\ Goto(k, "theirs") /\ call[k].op \in MatchOps
        BY <1>1, <1>5 DEF UpdateMine, At, MatchOps
    <2>2. requests' = [requests EXCEPT ![r].state = "matched", ![r].with = b]
        BY <1>4, <1>5 DEF UpdateMine, Matched
    <2>3. /\ History /\ requests' \in Seq(MatchRow) /\ OffersOK' /\ MatchedIsMutual'
          /\ DOMAIN requests' = DOMAIN requests /\ requests'[r].state = "matched"
          /\ \A x \in DOMAIN requests \ {r} : requests'[x] = requests[x]
        BY <1>1, <1>4, <2>2, RequestWritten
    <2>4. /\ call'[k] = [call[k] EXCEPT !.pc = "theirs"] /\ call'[k].pc = "theirs"
          /\ call'[k].op = "match" /\ \A j \in Slots \ {k} : call'[j] = call[j]
        BY <1>1, <2>1, GotoMoves
    <2>5. /\ DOMAIN call'[k] = DOMAIN call[k] /\ call'[k].by = call[k].by /\ call'[k].req = call[k].req
          /\ call'[k].about = call[k].about /\ call'[k].other = call[k].other
        BY <1>2, <1>3, <2>4
    <2>6. MatchCall(call[k])'
        <3>1. PICK c : c = call'[k]
            OBVIOUS
        <3>2. /\ {"by", "req", "about", "other"} \subseteq DOMAIN c /\ c.op = "match" /\ c.pc = "theirs"
              /\ c.by = a /\ c.req = r /\ c.about = b /\ c.other = o
            BY <1>2, <1>3, <1>4, <2>4, <2>5, <3>1
        <3>3. /\ r \in DOMAIN requests' /\ requests'[r].acct = a
              /\ o \in DOMAIN requests' /\ requests'[o].acct = b
            BY <1>4, <2>3 DEF History
        <3>4. MatchCall(c)'
            BY <1>1, <1>4, <3>2, <3>3 DEF MatchCall, Searches
        <3>5. QED
            BY <3>1, <3>4 DEF MatchCall, Searches
    <2>7. MatchesOK'
        BY <2>3, <2>4, <2>6, OneMatchCall DEF MatchesOK
    <2>8. requests'[r].state # "searching" /\ \A x \in DOMAIN requests : Searching(x)' => Searching(x)
        BY <2>3 DEF Searching
    <2>9. QED
        BY <1>1, <1>4, <2>1, <2>3, <2>4, <2>5, <2>7, <2>8
<1>6. CASE UpdateTheirs(k)
    <2>1. call[k].pc = "theirs" /\ Answer(k)
        BY <1>1, <1>6 DEF UpdateTheirs, At
    <2>2. requests' = [requests EXCEPT ![o].state = "matched", ![o].with = a]
        BY <1>4, <1>6 DEF UpdateTheirs, Matched
    <2>3. /\ History /\ requests' \in Seq(MatchRow) /\ OffersOK' /\ MatchedIsMutual'
          /\ DOMAIN requests' = DOMAIN requests /\ requests'[o].state = "matched"
          /\ \A x \in DOMAIN requests \ {o} : requests'[x] = requests[x]
        BY <1>1, <1>4, <2>2, RequestWritten
    <2>4. call'[k] = Idle /\ MatchCall(call[k])' /\ \A j \in Slots \ {k} : call'[j] = call[j]
        BY <1>1, <2>1, MatchAnswered
    <2>5. MatchesOK'
        BY <2>3, <2>4, OneMatchCall DEF MatchesOK
    <2>6. requests'[o].state # "searching" /\ \A x \in DOMAIN requests : Searching(x)' => Searching(x)
        BY <2>3 DEF Searching
    <2>7. QED
        BY <1>1, <1>4, <2>1, <2>3, <2>4, <2>5, <2>6
<1>7. QED
    BY <1>5, <1>6

(* A request that is cancelled searches no more, and is matched with nobody. *)
LEMMA CancelKeeps ==
    ASSUME CallsOK, MatchesOK, NEW k \in Slots, StoreCancelled(k)
    PROVE  /\ MatchesOK' /\ History /\ cand' = cand /\ call[k].op = "match"
           /\ DOMAIN requests' = DOMAIN requests
           /\ \A j \in Slots \ {k} : call'[j] = call[j]
           /\ \A x \in DOMAIN requests : Searching(x)' => Searching(x)
           /\ call[k].pc = "cancel" /\ call'[k] = Idle
<1>1. /\ call[k].op = "match" /\ call[k].pc = "cancel" /\ Answer(k)
      /\ cand' = cand /\ said' = said
    BY DEF StoreCancelled, At
<1>2. MatchCall(call[k]) /\ requests \in Seq(MatchRow)
    BY DEF MatchesOK
<1>3. PICK r \in DOMAIN requests : r = call[k].req
    BY <1>1, <1>2 DEF MatchCall
<1>4. requests' = [requests EXCEPT ![r].state = "cancelled", ![r].with = Nobody]
    BY <1>3 DEF StoreCancelled
<1>5. /\ History /\ requests' \in Seq(MatchRow) /\ OffersOK' /\ MatchedIsMutual'
      /\ DOMAIN requests' = DOMAIN requests /\ requests'[r].state = "cancelled"
      /\ \A x \in DOMAIN requests \ {r} : requests'[x] = requests[x]
    BY <1>1, <1>4, RequestWritten
<1>6. call'[k] = Idle /\ MatchCall(call[k])' /\ \A j \in Slots \ {k} : call'[j] = call[j]
    BY <1>1, MatchAnswered
<1>7. MatchesOK'
    BY <1>5, <1>6, OneMatchCall DEF MatchesOK
<1>8. \A x \in DOMAIN requests : Searching(x)' => Searching(x)
    BY <1>5 DEF Searching
<1>9. QED
    BY <1>1, <1>5, <1>6, <1>7, <1>8

(* Both accounts have connected, on the one request each of them has. *)
Connected(r, o) ==
    LET a == requests[r].acct
        b == requests[o].acct IN
    /\ a # b /\ Of(a) = {r} /\ Of(b) = {o}
    /\ {<<r, b>>, <<o, a>>} \subseteq DOMAIN cand
    /\ cand[<<r, b>>] = "connect" /\ cand[<<o, a>>] = "connect"

(* The request in slot k has stored the decision of r's account, and will match both. *)
Resolves(k, r, o) ==
    /\ call[k].op = "match"
    /\ \/ call[k].pc = "mirror"
       \/ call[k].pc = "mine" /\ call[k].other = o
       \/ call[k].pc = "theirs" /\ call[k].other = o /\ ~Searching(r)
    /\ call[k].req = r /\ call[k].about = requests[o].acct

BothFound(r, o) ==
    \/ ~Searching(r) /\ ~Searching(o)
    \/ \E k \in Slots : Resolves(k, r, o) \/ Resolves(k, o, r)

(* Whichever decision comes second finds the first one. *)
MutualsOK == failed = 0 => \A r, o \in DOMAIN requests : Connected(r, o) => BothFound(r, o)

(* A request that resolves is not answered by the steps of others. *)
LEMMA ResolvesStays ==
    ASSUME CallsOK, MatchesOK, NEW j \in Slots, SameButOpen(call'[j], call[j]), History,
           NEW r \in DOMAIN requests, NEW o \in DOMAIN requests,
           \A x \in DOMAIN requests : Searching(x)' => Searching(x), Resolves(j, r, o)
    PROVE  Resolves(j, r, o)'
<1>1. MatchCall(call[j]) /\ {"op", "pc"} \subseteq DOMAIN call[j] /\ call[j].op = "match"
    BY DEF MatchesOK, CallsOK, IsRequest, Resolves
<1>2. {"req", "about"} \subseteq DOMAIN call[j]
    BY <1>1 DEF MatchCall, Resolves, Searches
<1>3. call[j].pc \in {"mine", "theirs"} => "other" \in DOMAIN call[j]
    BY <1>1 DEF MatchCall
<1>4. /\ call'[j].op = call[j].op /\ call'[j].pc = call[j].pc
      /\ call'[j].req = call[j].req /\ call'[j].about = call[j].about
      /\ call[j].pc \in {"mine", "theirs"} => call'[j].other = call[j].other
    BY <1>1, <1>2, <1>3 DEF SameButOpen
<1>5. requests'[o].acct = requests[o].acct
    BY DEF History
<1>6. QED
    BY <1>4, <1>5 DEF Resolves

(* Two accounts that are connected stay resolved, if the one request that goes on
   does its part. *)
LEMMA ResolvedStays ==
    ASSUME CallsOK, MatchesOK, NEW k \in Slots, \A j \in Slots \ {k} : SameButOpen(call'[j], call[j]),
           History, NEW r \in DOMAIN requests, NEW o \in DOMAIN requests,
           \A x \in DOMAIN requests : Searching(x)' => Searching(x), BothFound(r, o),
           Resolves(k, r, o) => BothFound(r, o)', Resolves(k, o, r) => BothFound(r, o)'
    PROVE  BothFound(r, o)'
<1>1. CASE ~Searching(r) /\ ~Searching(o)
    BY <1>1 DEF BothFound
<1>2. ASSUME NEW j \in Slots \ {k}, Resolves(j, r, o) \/ Resolves(j, o, r)
      PROVE  BothFound(r, o)'
    <2>1. Resolves(j, r, o)' \/ Resolves(j, o, r)'
        BY <1>2, ResolvesStays
    <2>2. QED
        BY <2>1 DEF BothFound
<1>3. QED
    BY <1>1, <1>2 DEF BothFound

(* Accounts that are connected after a step that stores no decision were before. *)
LEMMA ConnectedBefore ==
    ASSUME OffersOK, History, NEW r \in DOMAIN requests', NEW o \in DOMAIN requests',
           Connected(r, o)',
           \A x \in {<<r, requests'[o].acct>>, <<o, requests'[r].acct>>} :
                x \in DOMAIN cand' /\ cand'[x] = "connect" => x \in DOMAIN cand /\ cand[x] = "connect"
    PROVE  r \in DOMAIN requests /\ o \in DOMAIN requests /\ Connected(r, o)
<1>1. PICK a, b : a = requests'[r].acct /\ b = requests'[o].acct
    OBVIOUS
<1>2. /\ a # b /\ Of(a)' = {r} /\ Of(b)' = {o}
      /\ <<r, b>> \in DOMAIN cand /\ cand[<<r, b>>] = "connect"
      /\ <<o, a>> \in DOMAIN cand /\ cand[<<o, a>>] = "connect"
    BY <1>1 DEF Connected
<1>3. r \in DOMAIN requests /\ o \in DOMAIN requests
    BY <1>2 DEF OffersOK
<1>4. requests[r].acct = a /\ requests[o].acct = b
    BY <1>1, <1>3 DEF History
<1>5. Of(a) = {r} /\ Of(b) = {o}
    BY <1>2, <1>3, <1>4 DEF Of, History
<1>6. QED
    BY <1>2, <1>3, <1>4, <1>5 DEF Connected

(* A step that stores no decision, of a request that resolves none. *)
LEMMA CalmStays ==
    ASSUME CallsOK, MatchesOK, MutualsOK, failed = 0, History,
           NEW k \in Slots, \A j \in Slots \ {k} : SameButOpen(call'[j], call[j]),
           \A x \in DOMAIN requests : Searching(x)' => Searching(x),
           \A x : x \in DOMAIN cand' /\ cand'[x] = "connect" => x \in DOMAIN cand /\ cand[x] = "connect",
           call[k].op = "match" => call[k].pc \notin {"mirror", "mine", "theirs"}
    PROVE  \A r, o \in DOMAIN requests' : Connected(r, o)' => BothFound(r, o)'
<1>1. SUFFICES ASSUME NEW r \in DOMAIN requests', NEW o \in DOMAIN requests', Connected(r, o)'
               PROVE  BothFound(r, o)'
    OBVIOUS
<1>2. r \in DOMAIN requests /\ o \in DOMAIN requests /\ Connected(r, o)
    BY <1>1, ConnectedBefore DEF MatchesOK
<1>3. BothFound(r, o) /\ ~Resolves(k, r, o) /\ ~Resolves(k, o, r)
    BY <1>2 DEF MutualsOK, Resolves
<1>4. QED
    BY <1>2, <1>3, ResolvedStays

(* A decision that is stored is resolved by the request that stored it. *)
LEMMA DecisionResolves ==
    ASSUME CallsOK, MatchesOK, MutualsOK, failed = 0, NEW k \in Slots, SetCandidateDecision(k)
    PROVE  \A r, o \in DOMAIN requests' : Connected(r, o)' => BothFound(r, o)'
<1>1. SUFFICES ASSUME NEW r \in DOMAIN requests', NEW o \in DOMAIN requests', Connected(r, o)'
               PROVE  BothFound(r, o)'
    OBVIOUS
<1>2. /\ History /\ requests' = requests /\ DOMAIN cand' = DOMAIN cand
      /\ call[k].op = "match" /\ call[k].pc = "decide" /\ call'[k].op = "match"
      /\ call'[k].req = call[k].req /\ call'[k].about = call[k].about
      /\ \A j \in Slots \ {k} : call'[j] = call[j]
      /\ \A x \in DOMAIN cand : x # <<call[k].req, call[k].about>> => cand'[x] = cand[x]
      /\ \/ call'[k].pc = "mirror"
         \/ call'[k].pc = "exclude" /\ cand'[<<call[k].req, call[k].about>>] # "connect"
         \/ call'[k].pc = "exclude" /\ <<call[k].req, call[k].about>> \notin DOMAIN cand
    BY DecisionKeeps
<1>3. PICK y : y = <<call[k].req, call[k].about>>
    OBVIOUS
<1>4. PICK a, b : a = requests[r].acct /\ b = requests[o].acct
    OBVIOUS
<1>5. CASE y \notin {<<r, b>>, <<o, a>>} \/ call'[k].pc # "mirror"
    <2>1. \A x \in {<<r, requests'[o].acct>>, <<o, requests'[r].acct>>} :
                x \in DOMAIN cand' /\ cand'[x] = "connect" => x \in DOMAIN cand /\ cand[x] = "connect"
        BY <1>2, <1>3, <1>4, <1>5
    <2>2. r \in DOMAIN requests /\ o \in DOMAIN requests /\ Connected(r, o)
        BY <1>1, <1>2, <2>1, ConnectedBefore DEF MatchesOK
    <2>3. BothFound(r, o) /\ ~Resolves(k, r, o) /\ ~Resolves(k, o, r)
        BY <1>2, <2>2 DEF MutualsOK, Resolves
    <2>4. \A j \in Slots \ {k} : SameButOpen(call'[j], call[j])
        BY <1>2 DEF SameButOpen
    <2>5. \A x \in DOMAIN requests : Searching(x)' => Searching(x)
        BY <1>2 DEF Searching
    <2>6. QED
        BY <1>2, <2>2, <2>3, <2>4, <2>5, ResolvedStays
<1>6. CASE y = <<r, b>> /\ call'[k].pc = "mirror"
    BY <1>2, <1>3, <1>4, <1>6 DEF BothFound, Resolves
<1>7. CASE y = <<o, a>> /\ call'[k].pc = "mirror"
    BY <1>2, <1>3, <1>4, <1>7 DEF BothFound, Resolves
<1>8. QED
    BY <1>5, <1>6, <1>7

(* The request that stored the second decision finds the first one, whose account has no
   other request. *)
LEMMA MirrorResolves ==
    ASSUME CallsOK, MatchesOK, MutualsOK, failed = 0, NEW k \in Slots, FindMirror(k)
    PROVE  \A r, o \in DOMAIN requests' : Connected(r, o)' => BothFound(r, o)'
<1>1. /\ History /\ requests' = requests /\ cand' = cand
      /\ call[k].op = "match" /\ call[k].pc = "mirror"
      /\ \A j \in Slots \ {k} : call'[j] = call[j]
      /\ \/ /\ call'[k] = Idle
            /\ \/ \A o \in Of(call[k].about) : <<o, call[k].by>> \notin DOMAIN cand
               \/ \E o \in Of(call[k].about) :
                   <<o, call[k].by>> \in DOMAIN cand /\ cand[<<o, call[k].by>>] # "connect"
         \/ /\ call'[k].op = "match" /\ call'[k].pc = "mine"
            /\ call'[k].req = call[k].req /\ call'[k].about = call[k].about
            /\ call'[k].other \in Of(call[k].about)
    BY MirrorKeeps
<1>2. call[k].req \in DOMAIN requests /\ requests[call[k].req].acct = call[k].by
    BY <1>1, SearchFields
<1>3. ASSUME NEW r \in DOMAIN requests, NEW o \in DOMAIN requests, Connected(r, o), Resolves(k, r, o)
      PROVE  Resolves(k, r, o)'
    <2>1. call[k].req = r /\ call[k].about = requests[o].acct /\ call[k].by = requests[r].acct
        BY <1>2, <1>3 DEF Resolves
    <2>2. /\ Of(call[k].about) = {o} /\ <<o, call[k].by>> \in DOMAIN cand
          /\ cand[<<o, call[k].by>>] = "connect"
        BY <1>3, <2>1 DEF Connected
    <2>3. /\ call'[k].op = "match" /\ call'[k].pc = "mine" /\ call'[k].other = o
          /\ call'[k].req = r /\ call'[k].about = requests[o].acct
        BY <1>1, <2>1, <2>2
    <2>4. QED
        BY <1>1, <2>3 DEF Resolves
<1>4. SUFFICES ASSUME NEW r \in DOMAIN requests, NEW o \in DOMAIN requests, Connected(r, o)
               PROVE  BothFound(r, o)'
    BY <1>1 DEF Connected, Of
<1>5. Connected(o, r) /\ BothFound(r, o)
    BY <1>4 DEF Connected, MutualsOK
<1>6. Resolves(k, r, o) => BothFound(r, o)'
    BY <1>3, <1>4 DEF BothFound
<1>7. Resolves(k, o, r) => BothFound(r, o)'
    BY <1>3, <1>5 DEF BothFound
<1>8. \A j \in Slots \ {k} : SameButOpen(call'[j], call[j])
    BY <1>1 DEF SameButOpen
<1>9. \A x \in DOMAIN requests : Searching(x)' => Searching(x)
    BY <1>1 DEF Searching
<1>10. QED
    BY <1>1, <1>5, <1>6, <1>7, <1>8, <1>9, ResolvedStays

(* It matches the requests of both. *)
LEMMA UpdatesResolve ==
    ASSUME CallsOK, MatchesOK, MutualsOK, failed = 0, NEW k \in Slots, UpdateMine(k) \/ UpdateTheirs(k)
    PROVE  \A r, o \in DOMAIN requests' : Connected(r, o)' => BothFound(r, o)'
<1>1. /\ History /\ cand' = cand /\ call[k].op = "match" /\ DOMAIN requests' = DOMAIN requests
      /\ \A j \in Slots \ {k} : call'[j] = call[j]
      /\ \A x \in DOMAIN requests : Searching(x)' => Searching(x)
      /\ \/ /\ call[k].pc = "mine" /\ requests'[call[k].req].state # "searching"
            /\ call'[k].op = "match" /\ call'[k].pc = "theirs"
            /\ call'[k].req = call[k].req /\ call'[k].about = call[k].about
            /\ call'[k].other = call[k].other
         \/ call[k].pc = "theirs" /\ call'[k] = Idle /\ requests'[call[k].other].state # "searching"
    BY UpdatesKeep
<1>2. ASSUME NEW r \in DOMAIN requests, NEW o \in DOMAIN requests, Resolves(k, r, o)
      PROVE  Resolves(k, r, o)' \/ (~Searching(r)' /\ ~Searching(o)')
    <2>1. CASE call[k].pc = "mine"
        <3>1. requests'[o].acct = requests[o].acct
            BY <1>1 DEF History
        <3>2. QED
            BY <1>1, <1>2, <2>1, <3>1 DEF Resolves, Searching
    <2>2. CASE call[k].pc = "theirs"
        BY <1>1, <1>2, <2>2 DEF Resolves, Searching
    <2>3. QED
        BY <1>1, <2>1, <2>2
<1>3. SUFFICES ASSUME NEW r \in DOMAIN requests, NEW o \in DOMAIN requests, Connected(r, o)'
               PROVE  BothFound(r, o)'
    BY <1>1
<1>4. Connected(r, o)
    BY <1>1, <1>3, ConnectedBefore DEF MatchesOK
<1>5. BothFound(r, o)
    BY <1>4 DEF MutualsOK
<1>6. (Resolves(k, r, o) => BothFound(r, o)') /\ (Resolves(k, o, r) => BothFound(r, o)')
    BY <1>2 DEF BothFound
<1>7. \A j \in Slots \ {k} : SameButOpen(call'[j], call[j])
    BY <1>1 DEF SameButOpen
<1>8. QED
    BY <1>1, <1>5, <1>6, <1>7, ResolvedStays

(* Matchmaking keeps requests, offers and what the requests in flight rely on. *)
LEMMA MatchKeeps ==
    ASSUME CallsOK, MatchesOK, MatchNext
    PROVE  MatchesOK' /\ History
<1>1. ASSUME NEW k \in Slots, NEW a \in AccountIds, CreateRequest(k, a) PROVE MatchesOK' /\ History
    BY <1>1, MatchLetIn
<1>2. ASSUME NEW k \in Slots, NEW x \in DOMAIN cand, NEW d \in {"connect", "skip"},
             Decide(k, x[1], x[2], d)
      PROVE  MatchesOK' /\ History
    BY <1>2, MatchLetIn
<1>3. ASSUME NEW k \in Slots, NEW r \in DOMAIN requests, CancelRequest(k, r) PROVE MatchesOK' /\ History
    BY <1>3, MatchLetIn
<1>4. QED
    BY <1>1, <1>2, <1>3, SearchKeeps, OffersKeep, DecisionKeeps, ExcludeKeeps, MirrorKeeps,
       UpdatesKeep, CancelKeeps DEF MatchNext

(* And nobody who is connected is left waiting. *)
LEMMA MatchResolves ==
    ASSUME CallsOK, MatchesOK, MutualsOK, failed = 0, MatchNext
    PROVE  \A r, o \in DOMAIN requests' : Connected(r, o)' => BothFound(r, o)'
<1> DEFINE Fine == \A r, o \in DOMAIN requests' : Connected(r, o)' => BothFound(r, o)'
<1>1. ASSUME NEW k \in Slots, \A j \in Slots \ {k} : call'[j] = call[j], History,
             \A x \in DOMAIN requests : Searching(x)' => Searching(x),
             \A x : x \in DOMAIN cand' /\ cand'[x] = "connect" => x \in DOMAIN cand /\ cand[x] = "connect",
             call[k].op = "match" => call[k].pc \notin {"mirror", "mine", "theirs"}
      PROVE  Fine
    <2>1. \A j \in Slots \ {k} : SameButOpen(call'[j], call[j])
        BY <1>1 DEF SameButOpen
    <2>2. QED
        BY <1>1, <2>1, CalmStays
<1> HIDE DEF Fine
<1>2. ASSUME NEW k \in Slots,
             \/ \E a \in AccountIds : CreateRequest(k, a)
             \/ \E x \in DOMAIN cand, d \in {"connect", "skip"} : Decide(k, x[1], x[2], d)
             \/ \E r \in DOMAIN requests : CancelRequest(k, r)
      PROVE  Fine
    <2>1. /\ History /\ call[k] = Idle /\ \A j \in Slots \ {k} : call'[j] = call[j]
          /\ UNCHANGED matchVars
        BY <1>2, MatchLetIn
    <2>2. call[k].op # "match"
        BY <2>1, IdleFields
    <2>3. (\A x \in DOMAIN requests : Searching(x)' => Searching(x)) /\ cand' = cand
        BY <2>1 DEF matchVars, Searching
    <2>4. QED
        BY <1>1, <2>1, <2>2, <2>3
<1>3. ASSUME NEW k \in Slots, StoreRequest(k) \/ TryMatch(k)
      PROVE  Fine
    <2>1. /\ History /\ cand' = cand /\ call[k].pc \in {"create", "pick"}
          /\ \A j \in Slots \ {k} : call'[j] = call[j]
          /\ \A r \in DOMAIN requests : requests'[r] = requests[r]
        BY <1>3, SearchKeeps
    <2>2. \A x \in DOMAIN requests : Searching(x)' => Searching(x)
        BY <2>1 DEF Searching
    <2>3. QED
        BY <1>1, <2>1, <2>2
<1>4. ASSUME NEW k \in Slots, Offer(k) \/ OfferBack(k)
      PROVE  Fine
    <2>1. /\ History /\ requests' = requests /\ call[k].pc \in {"offer", "offer back"}
          /\ \A j \in Slots \ {k} : call'[j] = call[j]
        BY <1>4, OffersKeep
    <2>2. PICK r \in DOMAIN requests, b \in AccountIds : cand' = Offered(cand, r, b)
        BY <1>4, OffersKeep
    <2>3. ASSUME NEW x \in DOMAIN cand', cand'[x] = "connect"
          PROVE  x \in DOMAIN cand /\ cand[x] = "connect"
        BY <2>2, <2>3 DEF Offered
    <2>4. \A x \in DOMAIN requests : Searching(x)' => Searching(x)
        BY <2>1 DEF Searching
    <2>5. QED
        BY <1>1, <2>1, <2>3, <2>4
<1>5. ASSUME NEW k \in Slots, ExcludeSkipped(k)
      PROVE  Fine
    <2>1. /\ History /\ requests' = requests /\ cand' = cand /\ call[k].pc = "exclude"
          /\ \A j \in Slots \ {k} : call'[j] = call[j]
        BY <1>5, ExcludeKeeps
    <2>2. \A x \in DOMAIN requests : Searching(x)' => Searching(x)
        BY <2>1 DEF Searching
    <2>3. QED
        BY <1>1, <2>1, <2>2
<1>6. ASSUME NEW k \in Slots, StoreCancelled(k)
      PROVE  Fine
    <2>1. /\ History /\ cand' = cand /\ call[k].pc = "cancel"
          /\ \A j \in Slots \ {k} : call'[j] = call[j]
          /\ \A x \in DOMAIN requests : Searching(x)' => Searching(x)
        BY <1>6, CancelKeeps
    <2>2. QED
        BY <1>1, <2>1
<1>7. ASSUME NEW k \in Slots,
             SetCandidateDecision(k) \/ FindMirror(k) \/ UpdateMine(k) \/ UpdateTheirs(k)
      PROVE  Fine
    BY <1>7, DecisionResolves, MirrorResolves, UpdatesResolve DEF Fine
<1>8. Fine
    BY <1>2, <1>3, <1>4, <1>5, <1>6, <1>7 DEF MatchNext
<1>9. QED
    BY <1>8 DEF Fine

(* No step of any service disturbs it. *)
LEMMA MatchesStep ==
    ASSUME CallsOK, MatchesOK, MutualsOK, [Next]_vars
    PROVE  MatchesOK' /\ MutualsOK'
<1>1. CASE MatchNext
    <2>1. MatchesOK'
        BY <1>1, MatchKeeps
    <2>2. failed' = 0 => failed = 0
        BY <1>1, MatchMoves DEF Moves, CallsOK
    <2>3. MutualsOK'
        BY <1>1, <2>2, MatchResolves DEF MutualsOK
    <2>4. QED
        BY <2>1, <2>3
<1>2. CASE UNCHANGED matchVars /\ MatchSpared
    <2>1. History /\ requests' = requests /\ cand' = cand /\ said' = said
        BY <1>2 DEF matchVars, History
    <2>2. ASSUME NEW k \in Slots
          PROVE  MatchCall(call[k])'
        <3>1. PICK c : c = call'[k]
            OBVIOUS
        <3>2. MatchCall(call[k]) /\ {"op", "pc"} \subseteq DOMAIN call[k]
            BY DEF MatchesOK, CallsOK, IsRequest
        <3>3. MatchCall(c)'
            <4>1. CASE c.op # "match"
                BY <4>1 DEF MatchCall
            <4>2. CASE c.op = "match"
                <5>1. SameButOpen(c, call[k])
                    BY <1>2, <3>1, <4>2, IdleFields DEF MatchSpared
                <5>2. QED
                    BY <2>1, <3>2, <5>1, MatchCallStays
            <4>3. QED
                BY <4>1, <4>2
        <3>4. QED
            BY <3>1, <3>3 DEF MatchCall, Searches
    <2>3. MatchesOK'
        BY <2>1, <2>2, OffersStay, MutualStays DEF MatchesOK
    <2>4. ASSUME failed' = 0, NEW r \in DOMAIN requests', NEW o \in DOMAIN requests', Connected(r, o)'
          PROVE  BothFound(r, o)'
        <3>1. failed = 0 /\ failed' = failed
            BY <1>2, <2>4 DEF MatchSpared, CallsOK
        <3>2. r \in DOMAIN requests /\ o \in DOMAIN requests /\ Connected(r, o)
            BY <2>1, <2>4 DEF Connected, Of
        <3>3. BothFound(r, o)
            BY <3>1, <3>2 DEF MutualsOK
        <3>4. \A x \in DOMAIN requests : Searching(x)' = Searching(x)
            BY <2>1 DEF Searching
        <3>5. ASSUME NEW k \in Slots, Resolves(k, r, o) \/ Resolves(k, o, r)
              PROVE  BothFound(r, o)'
            <4>1. SameButOpen(call'[k], call[k])
                BY <1>2, <3>1, <3>5 DEF MatchSpared, Resolves
            <4>2. Resolves(k, r, o)' \/ Resolves(k, o, r)'
                BY <2>1, <3>2, <3>4, <3>5, <4>1, ResolvesStays
            <4>3. QED
                BY <4>2 DEF BothFound
        <3>6. QED
            BY <3>2, <3>3, <3>4, <3>5 DEF BothFound
    <2>5. QED
        BY <2>3, <2>4 DEF MutualsOK
<1>3. QED
    BY <1>1, <1>2, MatchFrame

(* At first nobody looks for a match. *)
LEMMA MatchesInit ==
    ASSUME Init
    PROVE  MatchesOK /\ MutualsOK
<1>1. call = [k \in Slots |-> Idle] /\ requests = <<>> /\ cand = <<>>
    BY DEF Init, CallsInit, MatchInit
<1>2. requests \in Seq(MatchRow) /\ DOMAIN requests = {} /\ MatchedIsMutual
    BY <1>1 DEF MatchedIsMutual
<1>3. OffersOK
    BY <1>1 DEF OffersOK
<1>4. \A k \in Slots : MatchCall(call[k])
    BY <1>1, IdleFields DEF MatchCall
<1>5. QED
    BY <1>2, <1>3, <1>4 DEF MatchesOK, MutualsOK

(* Two accounts are matched only when both have decided to connect, and when both have,
   on the one request each of them has, neither is left searching once their requests are
   handled (matchsvc Decide and FindMirror): each decision is stored before the other
   one is looked for, so whichever comes second finds the first. *)
THEOREM MatchedWhenMutual == Spec => []MatchedIffMutual
<1>1. Init => CallsOK /\ MatchesOK /\ MutualsOK
    BY InitCalls, MatchesInit
<1>2. CallsOK /\ MatchesOK /\ MutualsOK /\ [Next]_vars => (CallsOK /\ MatchesOK /\ MutualsOK)'
    BY ContactFrame, MatchesStep
<1>3. ASSUME MatchesOK, MutualsOK PROVE MatchedIffMutual
    <2>1. ASSUME NEW r \in DOMAIN requests, NEW o \in DOMAIN requests, failed = 0, Connected(r, o),
                 ~AtWorkOn(r), ~AtWorkOn(o)
          PROVE  ~Searching(r) /\ ~Searching(o)
        <3>1. BothFound(r, o)
            BY <1>3, <2>1 DEF MutualsOK
        <3>2. ASSUME NEW k \in Slots, Resolves(k, r, o) \/ Resolves(k, o, r)
              PROVE  FALSE
            BY <2>1, <3>2 DEF Resolves, AtWorkOn
        <3>3. QED
            BY <3>1, <3>2 DEF BothFound
    <2>2. MutualIsResolved
        BY <2>1 DEF MutualIsResolved, Connected
    <2>3. QED
        BY <1>3, <2>2 DEF MatchedIffMutual, MatchesOK
<1>4. QED
    BY <1>1, <1>2, <1>3, PTL DEF Spec

-----------------------------------------------------------------------------
(* Contacts *)

(* Two accounts are two. *)
LEMMA TwoAreTwo ==
    ASSUME NEW a, NEW b, a # b
    PROVE  Cardinality({a, b}) = 2
<1>1. IsFiniteSet({a}) /\ Cardinality({a}) = 1
    BY FS_Singleton
<1>2. {a, b} = {a} \cup {b} /\ b \notin {a}
    OBVIOUS
<1>3. Cardinality({a} \cup {b}) = Cardinality({a}) + 1
    BY <1>1, <1>2, FS_AddElement
<1>4. QED
    BY <1>1, <1>2, <1>3

(* A pair has its two accounts and no third. *)
LEMMA TwoOfAPair ==
    ASSUME NEW p \in Pairs, NEW a \in p, NEW b \in p, a # b
    PROVE  p = {a, b}
<1>1. p \subseteq AccountIds /\ Cardinality(p) = 2
    BY DEF Pairs
<1>2. IsFiniteSet(p)
    BY <1>1, AccountsAssumption, FS_Subset
<1>3. PICK two \in SUBSET p : two = {a, b}
    OBVIOUS
<1>4. Cardinality(two) = 2
    BY <1>3, TwoAreTwo
<1>5. two = p
    BY <1>1, <1>2, <1>4, FS_Subset
<1>6. QED
    BY <1>3, <1>5

(* Every request to put accounts in touch has found them without a block. *)
ContactCall(r) ==
    /\ "pair" \in DOMAIN r => "open" \in DOMAIN r /\ r.open = TRUE
    /\ r.op \in {"follow", "converse", "send"} => "pair" \in DOMAIN r
    /\ r.op = "follow" =>
        /\ {"pair", "by", "open"} \subseteq DOMAIN r
        /\ \E b \in AccountIds \ {r.by} : r.pair = {r.by, b}

ContactsOK ==
    /\ conv = [p \in Pairs |-> conv[p]]
    /\ \A k \in Slots : ContactCall(call[k])

(* Nobody is put in touch while what could put them in touch stays. *)
Apart ==
    /\ follows' \subseteq follows
    /\ \A p \in Pairs : conv[p] = NoConv => conv'[p] = NoConv
    /\ \A p \in Pairs : ~(Len(msgs'[p]) > Len(msgs[p]))
    /\ DOMAIN cand' \subseteq DOMAIN cand

(* A step that keeps everybody apart makes no contact. *)
LEMMA ApartNoContacts ==
    ASSUME Apart
    PROVE  NoContactUnderABlock
<1>1. NewContacts = {}
    BY DEF NewContacts, Apart
<1>2. QED
    BY <1>1 DEF NoContactUnderABlock

(* Requests that have found no block go on knowing it. *)
LEMMA ContactCallsStay ==
    ASSUME CallsOK, ContactsOK, conv' = [p \in Pairs |-> conv'[p]],
           \A k \in Slots : \/ call'[k] = call[k] \/ ContactCall(call'[k])
    PROVE  ContactsOK'
<1>1. ASSUME NEW k \in Slots
      PROVE  ContactCall(call[k])'
    <2>1. ContactCall(call'[k])
        BY DEF ContactsOK
    <2>2. QED
        BY <2>1 DEF ContactCall
<1>2. QED
    BY <1>1 DEF ContactsOK

(* An idle slot puts nobody in touch. *)
LEMMA IdleNoContact == ContactCall(Idle)
BY IdleFields DEF ContactCall, Idle

(* A request goes on with its pair. *)
LEMMA SamePair ==
    ASSUME NEW r, NEW s, ContactCall(r), DOMAIN s = DOMAIN r, s.op = r.op,
           \A f \in {"pair", "by", "open"} \cap DOMAIN r : s[f] = r[f]
    PROVE  ContactCall(s)
<1>1. /\ "pair" \in DOMAIN r => s.pair = r.pair
      /\ "by" \in DOMAIN r => s.by = r.by
      /\ "open" \in DOMAIN r => s.open = r.open
    OBVIOUS
<1>2. QED
    BY <1>1 DEF ContactCall

(* What is left to show of a step of one request that puts nobody in touch. *)
LEMMA OneContactCall ==
    ASSUME CallsOK, ContactsOK, conv' = [p \in Pairs |-> conv'[p]], NEW k \in Slots,
           \A j \in Slots \ {k} : call'[j] = call[j], ContactCall(call'[k])
    PROVE  ContactsOK'
BY ContactCallsStay

(* A request that gets or has no pair. *)
LEMMA NoPair ==
    ASSUME NEW r, "pair" \notin DOMAIN r, r.op \notin {"follow", "converse", "send"}
    PROVE  ContactCall(r)
BY DEF ContactCall

(* The steps of the social graph. *)
LEMMA SocialContacts ==
    ASSUME CallsOK, ContactsOK, SocialNext, conv' = conv, msgs' = msgs, cand' = cand, SendsOK
    PROVE  ContactsOK' /\ NoContactUnderABlock
<1>1. conv' = [p \in Pairs |-> conv'[p]]
    BY DEF ContactsOK
<1>2. ASSUME follows' \subseteq follows PROVE NoContactUnderABlock
    <2>1. \A p \in Pairs : ~(Len(msgs'[p]) > Len(msgs[p]))
        BY DEF SendsOK
    <2>2. QED
        BY <1>2, <2>1, ApartNoContacts DEF Apart
<1>3. ASSUME NEW a \in AccountIds, NEW b \in AccountIds, Unfollow(a, b) \/ Block(a, b)
      PROVE  ContactsOK' /\ NoContactUnderABlock
    <2>1. call' = call /\ follows' \subseteq follows
        BY <1>3 DEF Unfollow, Block
    <2>2. QED
        BY <1>1, <1>2, <2>1, ContactCallsStay
<1>4. ASSUME NEW a \in AccountIds, NEW b \in AccountIds, Unblock(a, b)
      PROVE  ContactsOK' /\ NoContactUnderABlock
    <2>1. \A k \in Slots : call'[k] \in {call[k], [call[k] EXCEPT !.open = TRUE]}
        BY <1>4, UnblockMoves
    <2>2. ASSUME NEW k \in Slots PROVE ContactCall(call'[k])
        <3>1. ContactCall(call[k]) /\ {"op", "pc"} \subseteq DOMAIN call[k]
            BY DEF ContactsOK, CallsOK, IsRequest
        <3>2. CASE call'[k] = call[k]
            BY <3>1, <3>2
        <3>3. CASE call'[k] = [call[k] EXCEPT !.open = TRUE]
            <4>1. DOMAIN call'[k] = DOMAIN call[k] /\ call'[k].op = call[k].op
                BY <3>1, <3>3
            <4>2. PICK r, s : r = call[k] /\ s = call'[k] /\ s = [r EXCEPT !.open = TRUE]
                BY <3>3
            <4>3. ContactCall(r) /\ DOMAIN s = DOMAIN r /\ s.op = r.op
                BY <3>1, <4>1, <4>2
            <4>4. CASE "pair" \in DOMAIN call[k]
                <5>1. "open" \in DOMAIN r /\ r.open = TRUE
                    BY <4>2, <4>3, <4>4 DEF ContactCall
                <5>2. \A f \in DOMAIN r : s[f] = r[f]
                    BY <4>2, <5>1
                <5>3. ContactCall(s)
                    BY <4>3, <5>2, SamePair
                <5>4. QED
                    BY <4>2, <5>3
            <4>5. CASE "pair" \notin DOMAIN call[k]
                BY <3>1, <4>1, <4>5 DEF ContactCall
            <4>6. QED
                BY <4>4, <4>5
        <3>4. QED
            BY <2>1, <3>2, <3>3
    <2>3. QED
        BY <1>1, <1>2, <1>4, <2>2, ContactCallsStay DEF Unblock
<1>5. ASSUME NEW k \in Slots, NEW a \in AccountIds, NEW b \in AccountIds, Follow(k, a, b)
      PROVE  ContactsOK' /\ NoContactUnderABlock
    <2> DEFINE rec == [op |-> "follow", pc |-> "insert", pair |-> {a, b}, open |-> TRUE, by |-> a]
    <2>1. Begin("follow", k, rec) /\ rec.op = "follow" /\ "follow" \in ContactOps /\ follows' = follows
        BY <1>5 DEF Follow, ContactOps, socialVars
    <2>2. IsRequest(rec)
        BY <2>1 DEF IsRequest
    <2>3. ContactCall(rec)
        BY <1>5 DEF ContactCall, Follow
    <2> HIDE DEF rec
    <2>4. call'[k] = rec /\ \A j \in Slots \ {k} : call'[j] = call[j]
        BY <2>1, <2>2, BeginMoves
    <2>5. QED
        BY <1>1, <1>2, <2>1, <2>3, <2>4, OneContactCall
<1>6. ASSUME NEW k \in Slots, InsertFollow(k)
      PROVE  ContactsOK' /\ NoContactUnderABlock
    <2>1. Answer(k) /\ call[k].op = "follow" /\ call[k].op \in ContactOps
        BY <1>6 DEF InsertFollow, At, ContactOps
    <2>2. call'[k] = Idle /\ \A j \in Slots \ {k} : call'[j] = call[j]
        BY <2>1, AnswerMoves
    <2>3. ContactsOK'
        BY <1>1, <2>2, IdleNoContact, OneContactCall
    <2>4. ContactCall(call[k])
        BY DEF ContactsOK
    <2>5. PICK b \in AccountIds \ {call[k].by} : call[k].pair = {call[k].by, b}
        BY <2>1, <2>4 DEF ContactCall
    <2>6. IsContact(k) /\ call[k].open /\ call'[k] # call[k]
        BY <2>1, <2>2, <2>4, IdleFields DEF ContactCall, IsContact
    <2>7. follows' = follows \cup {<<call[k].by, b>>}
        <3>1. PICK c \in call[k].pair \ {call[k].by} : follows' = follows \cup {<<call[k].by, c>>}
            BY <1>6 DEF InsertFollow
        <3>2. c = b
            BY <2>5
        <3>3. QED
            BY <3>1, <3>2
    <2>8. ASSUME NEW p \in NewContacts PROVE p = call[k].pair
        <3>1. p \in Pairs /\ ~(Len(msgs'[p]) > Len(msgs[p])) /\ (conv[p] = NoConv => conv'[p] = NoConv)
            BY DEF NewContacts, SendsOK
        <3>2. PICK c \in p, d \in p : <<c, d>> \in follows' \ follows
            BY <3>1 DEF NewContacts
        <3>3. c = call[k].by /\ d = b
            BY <2>7, <3>2
        <3>4. QED
            BY <2>5, <3>1, <3>2, <3>3, TwoOfAPair
    <2>9. QED
        BY <2>3, <2>6, <2>8 DEF NoContactUnderABlock
<1>7. QED
    BY <1>3, <1>4, <1>5, <1>6 DEF SocialNext

(* Answers, and requests that go on, to send a message. *)
LEMMA SendGoesOn ==
    ASSUME CallsOK, ContactsOK, conv' = [p \in Pairs |-> conv'[p]], NEW k \in Slots,
           \/ call'[k] = Idle
           \/ \E pc : call'[k] = [call[k] EXCEPT !.pc = pc]
           \/ \E pc, n : call'[k] = [call[k] EXCEPT !.pc = pc, !.seq = n],
           \A j \in Slots \ {k} : call'[j] = call[j]
    PROVE  ContactsOK'
<1>1. ContactCall(call[k]) /\ {"op", "pc"} \subseteq DOMAIN call[k]
    BY DEF ContactsOK, CallsOK, IsRequest
<1>2. PICK r, s : r = call[k] /\ s = call'[k]
    OBVIOUS
<1>3. CASE s = Idle
    BY <1>2, <1>3, IdleNoContact, OneContactCall
<1>4. ASSUME NEW pc, s = [r EXCEPT !.pc = pc]
      PROVE  ContactsOK'
    <2>1. /\ DOMAIN s = DOMAIN r /\ s.op = r.op
          /\ \A f \in {"pair", "by", "open"} \cap DOMAIN r : s[f] = r[f]
        BY <1>1, <1>2, <1>4
    <2>2. ContactCall(s)
        BY <1>1, <1>2, <2>1, SamePair
    <2>3. QED
        BY <1>2, <2>2, OneContactCall
<1>5. ASSUME NEW pc, NEW n, s = [r EXCEPT !.pc = pc, !.seq = n]
      PROVE  ContactsOK'
    <2>1. /\ DOMAIN s = DOMAIN r /\ s.op = r.op
          /\ \A f \in {"pair", "by", "open"} \cap DOMAIN r : s[f] = r[f]
        BY <1>1, <1>2, <1>5
    <2>2. ContactCall(s)
        BY <1>1, <1>2, <2>1, SamePair
    <2>3. QED
        BY <1>2, <2>2, OneContactCall
<1>6. QED
    BY <1>2, <1>3, <1>4, <1>5

(* A request that puts in touch a pair without a block. *)
LEMMA CarriesOpen ==
    ASSUME NEW rec, NEW op, NEW pc, NEW p, NEW more, Carries(rec, op, pc, p, more),
           ~IsBlocked(p), op # "follow"
    PROVE  ContactCall(rec)
BY DEF Carries, ContactCall

(* A step that puts the pair of one request in touch, and no other. *)
LEMMA OneContact ==
    ASSUME ContactsOK, NEW k \in Slots, "pair" \in DOMAIN call[k], call'[k] # call[k],
           \A p \in NewContacts : p = call[k].pair
    PROVE  NoContactUnderABlock
<1>1. IsContact(k) /\ call[k].open
    BY DEF ContactsOK, ContactCall, IsContact
<1>2. QED
    BY <1>1 DEF NoContactUnderABlock

(* The steps of chat: a conversation is opened, or a message delivered, by a request. *)
LEMMA ChatContacts ==
    ASSUME CallsOK, SendsOK, ContactsOK, ChatNext, follows' = follows, cand' = cand
    PROVE  ContactsOK' /\ NoContactUnderABlock
<1>1. conv = [p \in Pairs |-> conv[p]] /\ msgs \in [Pairs -> Seq(MessageRow)]
    BY DEF ContactsOK, SendsOK
<1>2. ASSUME conv' = conv, msgs' = msgs PROVE NoContactUnderABlock
    <2>1. \A p \in Pairs : ~(Len(msgs'[p]) > Len(msgs[p]))
        BY <1>1, <1>2
    <2>2. QED
        BY <1>2, <2>1, ApartNoContacts DEF Apart
<1>3. ASSUME NEW k \in Slots, NEW a \in AccountIds, NEW p \in Pairs, StartConversation(k, a, p)
      PROVE  ContactsOK' /\ NoContactUnderABlock
    <2> DEFINE more == [by |-> a, state |-> IF IsMutual(p) THEN "active" ELSE "request"]
               rec == Contact("converse", "upsert", p, more)
    <2> HIDE DEF rec, more
    <2>1. Begin("start", k, rec) /\ msgs' = msgs /\ conv' = conv /\ ~IsBlocked(p)
        BY <1>3 DEF StartConversation, rec, more, chatVars
    <2>2. "converse" \in ContactOps
        BY DEF ContactOps
    <2>3. Carries(rec, "converse", "upsert", p, more)
        BY <2>2, ContactRequest DEF rec
    <2>4. IsRequest(rec) /\ rec.op = "converse" /\ ContactCall(rec)
        BY <2>1, <2>3, CarriesOpen DEF Carries
    <2>5. call'[k] = rec /\ \A j \in Slots \ {k} : call'[j] = call[j]
        BY <2>1, <2>2, <2>4, BeginMoves
    <2>6. QED
        BY <1>1, <1>2, <2>1, <2>4, <2>5, OneContactCall
<1>4. ASSUME NEW k \in Slots, NEW a \in AccountIds, NEW p \in Pairs, NEW id \in ClientMsgIds,
             SendMessage(k, a, p, id)
      PROVE  ContactsOK' /\ NoContactUnderABlock
    <2>1. PICK socket \in Ways :
            Begin("chat", k, Contact("send", "look", p, [by |-> a, id |-> id, seq |-> 0, socket |-> socket]))
        BY <1>4 DEF SendMessage
    <2> DEFINE more == [by |-> a, id |-> id, seq |-> 0, socket |-> socket]
               rec == Contact("send", "look", p, more)
    <2> HIDE DEF rec, more
    <2>2. Begin("chat", k, rec) /\ msgs' = msgs /\ conv' = conv /\ ~IsBlocked(p)
        BY <1>4, <2>1 DEF SendMessage, rec, more, chatVars
    <2>3. "send" \in ContactOps
        BY DEF ContactOps
    <2>4. Carries(rec, "send", "look", p, more)
        BY <2>3, ContactRequest DEF rec
    <2>5. IsRequest(rec) /\ rec.op = "send" /\ ContactCall(rec)
        BY <2>2, <2>4, CarriesOpen DEF Carries
    <2>6. call'[k] = rec /\ \A j \in Slots \ {k} : call'[j] = call[j]
        BY <2>2, <2>3, <2>5, BeginMoves
    <2>7. QED
        BY <1>1, <1>2, <2>2, <2>5, <2>6, OneContactCall
<1>5. ASSUME NEW k \in Slots, GetOrCreateConversation(k)
      PROVE  ContactsOK' /\ NoContactUnderABlock
    <2>1. /\ msgs' = msgs /\ Answer(k) /\ call[k].op = "converse" /\ call[k].op \in ContactOps
        BY <1>5 DEF GetOrCreateConversation, At, ContactOps
    <2>2. call'[k] = Idle /\ \A j \in Slots \ {k} : call'[j] = call[j]
        BY <2>1, AnswerMoves
    <2>3. PICK q, row : /\ q = call[k].pair
                        /\ conv' = conv \/ conv' = [conv EXCEPT ![q] = row]
        BY <1>5 DEF GetOrCreateConversation
    <2>4. conv' = [p \in Pairs |-> conv'[p]] /\ \A p \in Pairs \ {q} : conv'[p] = conv[p]
        BY <1>1, <2>3
    <2>5. ContactsOK'
        BY <2>2, <2>4, SendGoesOn
    <2>6. call'[k] # call[k]
        BY <2>1, <2>2, IdleFields
    <2>7. ASSUME NEW p \in NewContacts
          PROVE  p = call[k].pair
        <3>1. p \in Pairs /\ ~(Len(msgs'[p]) > Len(msgs[p]))
            BY <1>1, <2>1 DEF NewContacts
        <3>2. conv[p] = NoConv /\ conv'[p] # NoConv
            BY <3>1 DEF NewContacts
        <3>3. QED
            BY <2>3, <2>4, <3>1, <3>2
    <2>8. "pair" \in DOMAIN call[k]
        BY <2>1 DEF ContactsOK, ContactCall
    <2>9. QED
        BY <2>5, <2>6, <2>7, <2>8, OneContact
<1>6. ASSUME NEW k \in Slots, LookForMessage(k) \/ InsertMessage(k) \/ StopWaiting(k)
      PROVE  ContactsOK' /\ NoContactUnderABlock
    <2>1. /\ msgs' = msgs /\ conv' = conv /\ call[k].op = "send"
          /\ \/ \E n : AnswerWith(k, n)
             \/ \E pc : Goto(k, pc)
             \/ Answer(k)
             \/ \E pc, n : GoOn(k, [call[k] EXCEPT !.pc = pc, !.seq = n])
        BY <1>6 DEF LookForMessage, InsertMessage, StopWaiting, At, chatVars
    <2>2. /\ call = [j \in Slots |-> call[j]]
          /\ \/ call' = [call EXCEPT ![k] = Idle]
             \/ \E pc : call' = [call EXCEPT ![k] = [call[k] EXCEPT !.pc = pc]]
             \/ \E pc, n : call' = [call EXCEPT ![k] = [call[k] EXCEPT !.pc = pc, !.seq = n]]
        BY <2>1 DEF CallsOK, AnswerWith, Answer, GoOn, Goto
    <2>3. PICK rec : /\ call' = [call EXCEPT ![k] = rec]
                     /\ \/ rec = Idle
                        \/ \E pc : rec = [call[k] EXCEPT !.pc = pc]
                        \/ \E pc, n : rec = [call[k] EXCEPT !.pc = pc, !.seq = n]
        BY <2>2
    <2>4. call'[k] = rec /\ \A j \in Slots \ {k} : call'[j] = call[j]
        BY <2>2, <2>3
    <2>5. conv' = [p \in Pairs |-> conv'[p]]
        BY <1>1, <2>1
    <2>6. ContactsOK'
        <3>1. CASE rec = Idle
            BY <2>4, <2>5, <3>1, SendGoesOn
        <3>2. ASSUME NEW pc, rec = [call[k] EXCEPT !.pc = pc]
              PROVE  ContactsOK'
            <4>1. \E at : call'[k] = [call[k] EXCEPT !.pc = at]
                BY <2>4, <3>2
            <4>2. QED
                BY <2>4, <2>5, <4>1, SendGoesOn
        <3>3. ASSUME NEW pc, NEW n, rec = [call[k] EXCEPT !.pc = pc, !.seq = n]
              PROVE  ContactsOK'
            <4>1. \E at, m : call'[k] = [call[k] EXCEPT !.pc = at, !.seq = m]
                BY <2>4, <3>3
            <4>2. QED
                BY <2>4, <2>5, <4>1, SendGoesOn
        <3>4. QED
            BY <2>3, <3>1, <3>2, <3>3
    <2>7. QED
        BY <1>2, <2>1, <2>6
<1>7. ASSUME NEW k \in Slots, CommitMessage(k)
      PROVE  ContactsOK' /\ NoContactUnderABlock
    <2>1. call[k].op = "send" /\ call[k].pc = "commit" /\ AnswerWith(k, call[k].seq) /\ conv' = conv
        BY <1>7 DEF CommitMessage, At
    <2>2. PICK q, m : q = call[k].pair /\ msgs' = [msgs EXCEPT ![q] = Append(@, m)]
        BY <1>7 DEF CommitMessage
    <2>3. /\ \/ call'[k] = Idle
             \/ call'[k] = [call[k] EXCEPT !.pc = "publish", !.seq = call[k].seq]
          /\ \A j \in Slots \ {k} : call'[j] = call[j]
        BY <2>1, AnswerWithMoves
    <2>4. ContactsOK'
        <3>1. conv' = [p \in Pairs |-> conv'[p]]
            BY <1>1, <2>1
        <3>2. \/ call'[k] = Idle
              \/ \E pc, n : call'[k] = [call[k] EXCEPT !.pc = pc, !.seq = n]
            BY <2>3
        <3>3. QED
            BY <2>3, <3>1, <3>2, SendGoesOn
    <2>5. call'[k] # call[k] /\ "pair" \in DOMAIN call[k]
        <3>1. call'[k].pc # "commit" /\ ContactCall(call[k])
            BY <2>3, IdleFields DEF CallsOK, IsRequest, ContactsOK
        <3>2. QED
            BY <2>1, <3>1 DEF ContactCall
    <2>6. ASSUME NEW p \in NewContacts
          PROVE  p = call[k].pair
        <3>1. p \in Pairs /\ Len(msgs'[p]) > Len(msgs[p])
            BY <2>1 DEF NewContacts
        <3>2. p # q => msgs'[p] = msgs[p] /\ Len(msgs[p]) \in Nat
            BY <1>1, <2>2, <3>1
        <3>3. QED
            BY <2>2, <3>1, <3>2
    <2>7. QED
        BY <2>4, <2>5, <2>6, OneContact
<1>8. ASSUME NEW a \in AccountIds, NEW p \in Pairs,
           \/ \E i \in DOMAIN msgs[p] : \/ MarkRead(a, p, i) \/ DeleteForMe(a, p, i)
                                        \/ DeleteForEveryone(a, p, i)
           \/ SetConversationState(a, p, "active") \/ SetConversationState(a, p, "declined")
      PROVE  ContactsOK' /\ NoContactUnderABlock
    <2>1. MessagesSame
        BY <1>8, MarksKeep
    <2>2. call' = call
        BY <1>8 DEF MarkRead, DeleteForMe, DeleteForEveryone, SetConversationState
    <2>3. \/ conv' = conv
          \/ \E state : conv[p] # NoConv /\ conv' = [conv EXCEPT ![p].state = state]
        BY <1>8 DEF MarkRead, DeleteForMe, DeleteForEveryone, SetConversationState
    <2>4. /\ conv' = [q \in Pairs |-> conv'[q]]
          /\ \A q \in Pairs : conv[q] = NoConv => conv'[q] = NoConv
        BY <1>1, <2>3
    <2>5. ContactsOK'
        BY <2>2, <2>4, ContactCallsStay
    <2>6. \A q \in Pairs : ~(Len(msgs'[q]) > Len(msgs[q]))
        BY <1>1, <2>1 DEF MessagesSame
    <2>7. QED
        BY <2>4, <2>5, <2>6, ApartNoContacts DEF Apart
<1>9. QED
    BY <1>3, <1>4, <1>5, <1>6, <1>7, <1>8 DEF ChatNext
(* A page that shows a conversation publishes what was delivered, and no more. *)
LEMMA ThreadContacts ==
    ASSUME CallsOK, SendsOK, ContactsOK, ThreadNext,
           follows' = follows, conv' = conv, msgs' = msgs, cand' = cand
    PROVE  ContactsOK' /\ NoContactUnderABlock
<1>1. conv' = [p \in Pairs |-> conv'[p]]
    BY DEF ContactsOK
<1>2. NoContactUnderABlock
    <2>1. \A p \in Pairs : ~(Len(msgs'[p]) > Len(msgs[p]))
        BY DEF SendsOK
    <2>2. QED
        BY <2>1, ApartNoContacts DEF Apart
<1>3. CASE call' = call
    BY <1>1, <1>2, <1>3, ContactCallsStay
<1>4. ASSUME NEW k \in Slots, PublishMessage(k)
      PROVE  ContactsOK'
    <2>1. Answer(k) /\ call[k].op \in ContactOps
        BY <1>4 DEF PublishMessage, At, ContactOps
    <2>2. call'[k] = Idle /\ \A j \in Slots \ {k} : call'[j] = call[j]
        BY <2>1, AnswerMoves
    <2>3. QED
        BY <1>1, <2>2, IdleNoContact, OneContactCall
<1>5. call' = call \/ \E k \in Slots : PublishMessage(k)
    BY DEF ThreadNext, OpenThread, LoadHistory, Subscribe, Forward, Deliver,
                     Disconnect, CloseThread, callVars
<1>6. QED
    BY <1>2, <1>3, <1>4, <1>5

(* A request for a match is let in, or goes on, with what it should know. *)
LEMMA MatchContactCall ==
    ASSUME CallsOK, ContactsOK, conv' = conv, NEW k \in Slots, NEW rec, IsRequest(rec),
           rec.op = "match", ContactCall(rec),
           Begin("match", k, rec) \/ (GoOn(k, rec) /\ call[k].op = "match")
    PROVE  ContactsOK'
<1>1. "match" \in MatchOps /\ conv' = [p \in Pairs |-> conv'[p]]
    BY DEF MatchOps, ContactsOK
<1>2. CASE Begin("match", k, rec)
    <2>1. call'[k] = rec /\ \A j \in Slots \ {k} : call'[j] = call[j]
        BY <1>1, <1>2, BeginMoves
    <2>2. QED
        BY <1>1, <2>1, OneContactCall
<1>3. CASE GoOn(k, rec) /\ call[k].op = "match"
    <2>1. {call[k].op, rec.op} \subseteq MatchOps
        BY <1>1, <1>3
    <2>2. call'[k] = rec /\ \A j \in Slots \ {k} : call'[j] = call[j]
        BY <1>3, <2>1, GoOnMoves
    <2>3. QED
        BY <1>1, <2>2, OneContactCall
<1>4. QED
    BY <1>2, <1>3

(* The steps of a request for a match that name no pair to it. *)
LEMMA MatchWithoutPair ==
    ASSUME CallsOK, MatchesOK, ContactsOK, conv' = conv, NEW k \in Slots,
           \/ \E a \in AccountIds : CreateRequest(k, a)
           \/ \E x \in DOMAIN cand, d \in {"connect", "skip"} : Decide(k, x[1], x[2], d)
           \/ \E r \in DOMAIN requests : CancelRequest(k, r)
           \/ StoreRequest(k) \/ ExcludeSkipped(k)
    PROVE  ContactsOK' /\ cand' = cand
<1>1. ASSUME NEW rec, "pair" \notin DOMAIN rec, IsRequest(rec), rec.op = "match",
             Begin("match", k, rec) \/ (GoOn(k, rec) /\ call[k].op = "match")
      PROVE  ContactsOK'
    BY <1>1, NoPair, MatchContactCall
<1>2. ASSUME NEW a \in AccountIds, CreateRequest(k, a)
      PROVE  ContactsOK' /\ cand' = cand
    <2> DEFINE rec == [op |-> "match", pc |-> "create", by |-> a]
    <2>1. Begin("match", k, rec) /\ cand' = cand
        BY <1>2 DEF CreateRequest, matchVars
    <2>2. "pair" \notin DOMAIN rec /\ IsRequest(rec) /\ rec.op = "match"
        BY DEF IsRequest
    <2> HIDE DEF rec
    <2>3. QED
        BY <1>1, <2>1, <2>2
<1>3. ASSUME NEW x \in DOMAIN cand, NEW d \in {"connect", "skip"}, Decide(k, x[1], x[2], d)
      PROVE  ContactsOK' /\ cand' = cand
    <2> DEFINE rec == [op |-> "match", pc |-> "decide", by |-> requests[x[1]].acct,
                       req |-> x[1], about |-> x[2], say |-> d]
    <2>1. Begin("match", k, rec) /\ cand' = cand
        BY <1>3 DEF Decide, matchVars
    <2>2. "pair" \notin DOMAIN rec /\ IsRequest(rec) /\ rec.op = "match"
        BY DEF IsRequest
    <2> HIDE DEF rec
    <2>3. QED
        BY <1>1, <2>1, <2>2
<1>4. ASSUME NEW r \in DOMAIN requests, CancelRequest(k, r)
      PROVE  ContactsOK' /\ cand' = cand
    <2> DEFINE rec == [op |-> "match", pc |-> "cancel", req |-> r]
    <2>1. Begin("match", k, rec) /\ cand' = cand
        BY <1>4 DEF CancelRequest, matchVars
    <2>2. "pair" \notin DOMAIN rec /\ IsRequest(rec) /\ rec.op = "match"
        BY DEF IsRequest
    <2> HIDE DEF rec
    <2>3. QED
        BY <1>1, <2>1, <2>2
<1>5. ASSUME StoreRequest(k)
      PROVE  ContactsOK' /\ cand' = cand
    <2> DEFINE rec == [op |-> "match", pc |-> "pick", by |-> call[k].by, req |-> Len(requests) + 1]
    <2>1. GoOn(k, rec) /\ call[k].op = "match" /\ cand' = cand
        BY <1>5 DEF StoreRequest, At
    <2>2. "pair" \notin DOMAIN rec /\ IsRequest(rec) /\ rec.op = "match"
        BY DEF IsRequest
    <2> HIDE DEF rec
    <2>3. QED
        BY <1>1, <2>1, <2>2
<1>6. ASSUME ExcludeSkipped(k)
      PROVE  ContactsOK' /\ cand' = cand
    <2> DEFINE rec == [op |-> "match", pc |-> "pick", by |-> call[k].by, req |-> call[k].req]
    <2>1. GoOn(k, rec) /\ call[k].op = "match" /\ cand' = cand
        BY <1>6 DEF ExcludeSkipped, At
    <2>2. "pair" \notin DOMAIN rec /\ IsRequest(rec) /\ rec.op = "match"
        BY DEF IsRequest
    <2> HIDE DEF rec
    <2>3. QED
        BY <1>1, <2>1, <2>2
<1>7. QED
    BY <1>2, <1>3, <1>4, <1>5, <1>6

(* The search offers only an account there is no block with. *)
LEMMA SearchContacts ==
    ASSUME CallsOK, ContactsOK, conv' = conv, NEW k \in Slots, TryMatch(k)
    PROVE  ContactsOK' /\ cand' = cand
<1>1. call[k].op = "match" /\ call[k].op \in ContactOps /\ cand' = cand
    BY DEF TryMatch, At, ContactOps
<1>2. CASE Answer(k)
    <2>1. call'[k] = Idle /\ \A j \in Slots \ {k} : call'[j] = call[j]
        BY <1>1, <1>2, AnswerMoves
    <2>2. conv' = [p \in Pairs |-> conv'[p]]
        BY DEF ContactsOK
    <2>3. QED
        BY <1>1, <2>1, <2>2, IdleNoContact, OneContactCall
<1>3. CASE ~Answer(k)
    <2>1. PICK o \in DOMAIN requests :
            /\ ~IsBlocked({call[k].by, requests[o].acct})
            /\ GoOn(k, Contact("match", "offer", {call[k].by, requests[o].acct},
                               [by |-> call[k].by, req |-> call[k].req, other |-> o]))
        BY <1>3 DEF TryMatch
    <2>2. PICK p, more : /\ p = {call[k].by, requests[o].acct}
                         /\ more = [by |-> call[k].by, req |-> call[k].req, other |-> o]
        OBVIOUS
    <2> DEFINE rec == Contact("match", "offer", p, more)
    <2> HIDE DEF rec
    <2>3. GoOn(k, rec) /\ ~IsBlocked(p)
        BY <2>1, <2>2 DEF rec
    <2>4. Carries(rec, "match", "offer", p, more)
        BY <1>1, ContactRequest DEF rec
    <2>5. ContactCall(rec)
        BY <2>3, <2>4, CarriesOpen
    <2>6. QED
        BY <1>1, <2>3, <2>4, <2>5, MatchContactCall DEF Carries
<1>4. QED
    BY <1>2, <1>3

(* The mirror of a decision is looked for with the pair it has. *)
LEMMA MirrorContacts ==
    ASSUME CallsOK, ContactsOK, conv' = conv, NEW k \in Slots, FindMirror(k)
    PROVE  ContactsOK' /\ cand' = cand
<1>1. call[k].op = "match" /\ call[k].op \in ContactOps /\ cand' = cand
    BY DEF FindMirror, At, ContactOps, matchVars
<1>2. CASE Answer(k)
    <2>1. call'[k] = Idle /\ \A j \in Slots \ {k} : call'[j] = call[j]
        BY <1>1, <1>2, AnswerMoves
    <2>2. conv' = [p \in Pairs |-> conv'[p]]
        BY DEF ContactsOK
    <2>3. QED
        BY <1>1, <2>1, <2>2, IdleNoContact, OneContactCall
<1>3. ASSUME NEW o, GoOn(k, Joined([call[k] EXCEPT !.pc = "mine"], [other |-> o]))
      PROVE  ContactsOK'
    <2> DEFINE rec == Joined([call[k] EXCEPT !.pc = "mine"], [other |-> o])
    <2>1. ContactCall(call[k]) /\ IsRequest(call[k])
        BY DEF ContactsOK, CallsOK
    <2>2. /\ IsRequest(rec) /\ rec.op = "match" /\ DOMAIN rec = DOMAIN call[k] \cup {"other"}
          /\ "open" \in DOMAIN call[k] => rec.open = call[k].open
        BY <1>1, <2>1 DEF IsRequest, ContactOps, Joined
    <2> HIDE DEF rec
    <2>3. ContactCall(rec)
        BY <2>1, <2>2 DEF ContactCall
    <2>4. GoOn(k, rec)
        BY <1>3 DEF rec
    <2>5. QED
        BY <1>1, <2>2, <2>3, <2>4, MatchContactCall
<1>4. QED
    BY <1>1, <1>2, <1>3 DEF FindMirror

(* An offer puts in touch the two accounts the search has found without a block. *)
LEMMA OfferContacts ==
    ASSUME CallsOK, SendsOK, MatchesOK, ContactsOK, NEW k \in Slots, Offer(k) \/ OfferBack(k),
           follows' = follows, conv' = conv, msgs' = msgs
    PROVE  ContactsOK' /\ NoContactUnderABlock
<1>1. /\ call[k].op = "match" /\ call[k].pc \in {"offer", "offer back"}
      /\ call'[k].pc # call[k].pc
    BY OffersKeep
<1>2. PICK r \in DOMAIN requests, b \in AccountIds :
        cand' = Offered(cand, r, b) /\ call[k].pair = {requests[r].acct, b}
    BY OffersKeep
<1>3. "pair" \in DOMAIN call[k] /\ call'[k] # call[k]
    BY <1>1 DEF MatchesOK, MatchCall
<1>4. conv' = [p \in Pairs |-> conv'[p]] /\ call[k].op \in MatchOps
    BY <1>1 DEF ContactsOK, MatchOps
<1>5. ContactsOK'
    <2>1. CASE Offer(k)
        <3>1. Goto(k, "offer back")
            BY <2>1 DEF Offer
        <3>2. /\ call'[k] = [call[k] EXCEPT !.pc = "offer back"]
              /\ \A j \in Slots \ {k} : call'[j] = call[j]
            BY <1>4, <3>1, GotoMoves
        <3>3. \E at : call'[k] = [call[k] EXCEPT !.pc = at]
            BY <3>2
        <3>4. QED
            BY <1>4, <3>2, <3>3, SendGoesOn
    <2>2. CASE OfferBack(k)
        <3>1. Answer(k)
            BY <2>2 DEF OfferBack
        <3>2. call'[k] = Idle /\ \A j \in Slots \ {k} : call'[j] = call[j]
            BY <1>4, <3>1, AnswerMoves
        <3>3. QED
            BY <1>4, <3>2, SendGoesOn
    <2>3. QED
        BY <2>1, <2>2
<1>6. DOMAIN cand' = DOMAIN cand \cup {<<r, b>>}
    BY <1>2 DEF Offered
<1>7. ASSUME NEW p \in NewContacts
      PROVE  p = call[k].pair
    <2>1. p \in Pairs /\ ~(Len(msgs'[p]) > Len(msgs[p]))
        BY DEF NewContacts, SendsOK
    <2>2. PICK q \in DOMAIN requests, c \in p :
            requests[q].acct \in p \ {c} /\ <<q, c>> \in DOMAIN cand' \ DOMAIN cand
        BY <2>1 DEF NewContacts
    <2>3. q = r /\ c = b
        BY <1>6, <2>2
    <2>4. p = {requests[r].acct, b}
        BY <2>1, <2>2, <2>3, TwoOfAPair
    <2>5. QED
        BY <1>2, <2>4
<1>8. QED
    BY <1>3, <1>5, <1>7, OneContact

(* The other steps of a request for a match. *)
LEMMA DecisionContacts ==
    ASSUME CallsOK, ContactsOK, conv' = conv, NEW k \in Slots,
           SetCandidateDecision(k) \/ UpdateMine(k) \/ UpdateTheirs(k) \/ StoreCancelled(k)
    PROVE  ContactsOK' /\ DOMAIN cand' = DOMAIN cand
<1>1. DOMAIN cand' = DOMAIN cand
    BY DEF SetCandidateDecision, UpdateMine, UpdateTheirs, StoreCancelled
<1>2. conv' = [p \in Pairs |-> conv'[p]] /\ call[k].op \in MatchOps
    BY DEF ContactsOK, SetCandidateDecision, UpdateMine, UpdateTheirs, StoreCancelled, At, MatchOps
<1>3. CASE Answer(k)
    <2>1. call'[k] = Idle /\ \A j \in Slots \ {k} : call'[j] = call[j]
        BY <1>2, <1>3, AnswerMoves
    <2>2. QED
        BY <1>1, <1>2, <2>1, SendGoesOn
<1>4. ASSUME NEW pc, Goto(k, pc)
      PROVE  ContactsOK'
    <2>1. call'[k] = [call[k] EXCEPT !.pc = pc] /\ \A j \in Slots \ {k} : call'[j] = call[j]
        BY <1>2, <1>4, GotoMoves
    <2>2. \E at : call'[k] = [call[k] EXCEPT !.pc = at]
        BY <2>1
    <2>3. QED
        BY <1>2, <2>1, <2>2, SendGoesOn
<1>5. Answer(k) \/ \E pc : Goto(k, pc)
    BY DEF SetCandidateDecision, UpdateMine, UpdateTheirs, StoreCancelled
<1>6. QED
    BY <1>1, <1>3, <1>4, <1>5

(* The steps of matchmaking. *)
LEMMA MatchContacts ==
    ASSUME CallsOK, SendsOK, MatchesOK, ContactsOK, MatchNext,
           follows' = follows, conv' = conv, msgs' = msgs
    PROVE  ContactsOK' /\ NoContactUnderABlock
<1>1. ASSUME DOMAIN cand' \subseteq DOMAIN cand
      PROVE  NoContactUnderABlock
    <2>1. \A p \in Pairs : ~(Len(msgs'[p]) > Len(msgs[p]))
        BY DEF SendsOK
    <2>2. QED
        BY <1>1, <2>1, ApartNoContacts DEF Apart
<1>2. PICK k \in Slots :
        \/ \E a \in AccountIds : CreateRequest(k, a)
        \/ \E x \in DOMAIN cand, d \in {"connect", "skip"} : Decide(k, x[1], x[2], d)
        \/ \E r \in DOMAIN requests : CancelRequest(k, r)
        \/ StoreRequest(k) \/ ExcludeSkipped(k)
        \/ TryMatch(k) \/ FindMirror(k) \/ Offer(k) \/ OfferBack(k)
        \/ SetCandidateDecision(k) \/ UpdateMine(k) \/ UpdateTheirs(k) \/ StoreCancelled(k)
    BY DEF MatchNext
<1>3. QED
    BY <1>1, <1>2, MatchWithoutPair, SearchContacts, MirrorContacts, OfferContacts, DecisionContacts

(* What no service of contacts does puts nobody in touch. *)
LEMMA ContactsSpared ==
    ASSUME CallsOK, CallsOK', SendsOK, ContactsOK, UNCHANGED contactVars, Spares(ContactOps)
    PROVE  ContactsOK' /\ NoContactUnderABlock
<1>1. follows' = follows /\ conv' = conv /\ msgs' = msgs /\ cand' = cand
    BY DEF contactVars, socialVars, chatVars, matchVars
<1>2. NoContactUnderABlock
    <2>1. \A p \in Pairs : ~(Len(msgs'[p]) > Len(msgs[p]))
        BY <1>1 DEF SendsOK
    <2>2. QED
        BY <1>1, <2>1, ApartNoContacts DEF Apart
<1>3. ASSUME NEW k \in Slots
      PROVE  call'[k] = call[k] \/ ContactCall(call'[k])
    <2>1. CASE call'[k].op \in ContactOps
        BY <2>1, IdleNoContact DEF Spares
    <2>2. CASE call'[k].op \notin ContactOps
        <3>1. PICK r : r = call'[k]
            OBVIOUS
        <3>2. IsRequest(r)
            BY <3>1 DEF CallsOK, IsRequest
        <3>3. "pair" \notin DOMAIN r /\ r.op \notin {"follow", "converse", "send"}
            BY <2>2, <3>1, <3>2 DEF IsRequest, ContactOps
        <3>4. QED
            BY <3>1, <3>3, NoPair
    <2>3. QED
        BY <2>1, <2>2
<1>4. conv' = [p \in Pairs |-> conv'[p]]
    BY <1>1 DEF ContactsOK
<1>5. QED
    BY <1>2, <1>3, <1>4, ContactCallsStay

(* At first nobody is being put in touch. *)
LEMMA ContactsInit ==
    ASSUME Init
    PROVE  ContactsOK
<1>1. call = [k \in Slots |-> Idle] /\ ChatInit
    BY DEF Init, CallsInit
<1>2. conv = [p \in Pairs |-> conv[p]]
    BY <1>1 DEF ChatInit
<1>3. QED
    BY <1>1, <1>2, IdleNoContact DEF ContactsOK

(* No step of any service keeps less. *)
LEMMA ContactsStep ==
    ASSUME CallsOK, SendsOK, MatchesOK, ContactsOK, [Next]_vars
    PROVE  ContactsOK' /\ [NoContactUnderABlock]_vars
<1>1. CASE UNCHANGED contactVars /\ Spares(ContactOps)
    <2>1. CallsOK'
        BY ContactFrame
    <2>2. QED
        BY <1>1, <2>1, ContactsSpared
<1>2. CASE ContactNext
    <2>1. CASE SocialNext /\ UNCHANGED <<chatVars, threadVars, matchVars>>
        BY <2>1, SocialContacts DEF chatVars, matchVars
    <2>2. CASE ChatNext /\ UNCHANGED <<threadVars, matchVars>>
        <3>1. ASSUME NEW k, NEW a, NEW p, NEW id,
                     StartConversation(k, a, p) \/ SendMessage(k, a, p, id)
              PROVE  follows' = follows
            BY <3>1 DEF StartConversation, SendMessage, socialVars
        <3>2. ASSUME NEW k, \/ GetOrCreateConversation(k) \/ LookForMessage(k)
                            \/ InsertMessage(k) \/ StopWaiting(k) \/ CommitMessage(k)
              PROVE  follows' = follows
            BY <3>2 DEF GetOrCreateConversation, LookForMessage, InsertMessage, StopWaiting,
                        CommitMessage, socialVars
        <3>3. ASSUME NEW a, NEW p, NEW i, NEW state,
                     \/ MarkRead(a, p, i) \/ DeleteForMe(a, p, i) \/ DeleteForEveryone(a, p, i)
                     \/ SetConversationState(a, p, state)
              PROVE  follows' = follows
            BY <3>3 DEF MarkRead, DeleteForMe, DeleteForEveryone, SetConversationState, socialVars
        <3>4. follows' = follows
            BY <2>2, <3>1, <3>2, <3>3 DEF ChatNext
        <3>5. cand' = cand
            BY <2>2 DEF matchVars
        <3>6. QED
            BY <2>2, <3>4, <3>5, ChatContacts
    <2>3. CASE ThreadNext /\ UNCHANGED <<socialVars, chatVars, matchVars>>
        BY <2>3, ThreadContacts DEF socialVars, chatVars, matchVars
    <2>4. CASE MatchNext /\ UNCHANGED <<chatVars, threadVars>>
        <3>1. follows' = follows
            BY <2>4 DEF MatchNext, CreateRequest, Decide, CancelRequest, StoreRequest, TryMatch,
                        Offer, OfferBack, SetCandidateDecision, ExcludeSkipped, FindMirror,
                        UpdateMine, UpdateTheirs, StoreCancelled, socialVars
        <3>2. QED
            BY <2>4, <3>1, MatchContacts DEF chatVars
    <2>5. QED
        BY <1>2, <2>1, <2>2, <2>3, <2>4 DEF ContactNext
<1>3. QED
    BY <1>1, <1>2, ContactFrame

(* Two accounts are put in touch - followed, written to, offered to each other - only by
   a request in whose time there was a moment without a block between them, whichever of
   the services it came to, and whatever blocks come and go meanwhile (main's isBlocked
   and the queries of social and match). *)
THEOREM ContactsAreUnblocked == Spec => ContactsAreOpen
<1>1. Init => CallsOK /\ SendsOK /\ MatchesOK /\ MutualsOK /\ ContactsOK
    BY InitCalls, SendsInit, MatchesInit, ContactsInit
<1>2. CallsOK /\ SendsOK /\ MatchesOK /\ MutualsOK /\ ContactsOK /\ [Next]_vars
        => (CallsOK /\ SendsOK /\ MatchesOK /\ MutualsOK /\ ContactsOK)' /\ [NoContactUnderABlock]_vars
    BY ContactFrame, SendsStep, MatchesStep, ContactsStep
<1>3. QED
    BY <1>1, <1>2, PTL DEF Spec, ContactsAreOpen

-----------------------------------------------------------------------------
(* The help desk *)

(* Steps of other groups leave the tickets, the risk profiles and the local state alone. *)
LEMMA ApartFrame ==
    ASSUME CallsOK, [Next]_vars
    PROVE  /\ CallsOK'
           /\ ApartNext \/ (UNCHANGED <<localVars, riskVars, deskVars>> /\ Spares(ApartOps))
<1>1. CASE UNCHANGED vars /\ Moves({})
    <2>1. UNCHANGED <<localVars, riskVars, deskVars>>
        BY <1>1 DEF vars
    <2>2. QED
        BY <1>1, <2>1, StepMoves, GroupsSpared
<1>2. CASE CutShort /\ Moves({})
    <2>1. UNCHANGED <<localVars, riskVars, deskVars>>
        BY <1>2 DEF CutShort
    <2>2. QED
        BY <1>2, <2>1, StepMoves, GroupsSpared
<1>3. CASE ContactNext \/ StandingNext \/ MoneyNext
    <2>1. UNCHANGED <<localVars, riskVars, deskVars>>
        BY <1>3 DEF ContactNext, StandingNext, MoneyNext, apartVars
    <2>2. CallsOK' /\ Spares(ApartOps)
        BY <1>3, ContactNextMoves, StandingNextMoves, MoneyNextMoves, GroupsSpared
    <2>3. QED
        BY <2>1, <2>2
<1>4. QED
    BY <1>1, <1>2, <1>3, StepMoves

(* Only the help desk changes tickets and the requests for them. *)
LEMMA DeskFrame ==
    ASSUME CallsOK, [Next]_vars
    PROVE  DeskNext \/ (UNCHANGED deskVars /\ Spares(DeskOps))
<1>1. DeskOps \subseteq ApartOps
    BY DEF DeskOps, ApartOps
<1>2. ASSUME NEW ops, Moves(ops), ops \cap DeskOps = {}
      PROVE  Spares(DeskOps)
    BY <1>2, OthersSpared DEF DeskOps
<1>3. CASE Spares(ApartOps) /\ UNCHANGED deskVars
    BY <1>1, <1>3 DEF Spares
<1>4. CASE ApartNext
    <2>1. CASE FeedNext
        BY <1>2, <1>4, <2>1, FeedMoves DEF FeedOps, DeskOps, ApartNext
    <2>2. CASE (LocalNext \/ BroadcastNext \/ StoresNext) /\ UNCHANGED deskVars
        BY <1>2, <2>2, LocalMoves, BroadcastMoves, StoresMoves
    <2>3. CASE RiskNext /\ UNCHANGED deskVars
        BY <1>2, <2>3, RiskMoves DEF RiskOps, DeskOps
    <2>4. QED
        BY <1>4, <2>1, <2>2, <2>3 DEF ApartNext
<1>5. QED
    BY <1>3, <1>4, ApartFrame

Sides == {"user", "support"}

DeskRow ==
    [owner : AccountIds, status : {"open", "pending", "resolved"},
     assigned : AccountIds \cup {Unassigned}, msgs : Seq(Sides),
     resolvedAt : Nat, crossed : BOOLEAN]

(* A request for a ticket knows which, and whose it is. *)
DeskCall(r) ==
    r.op \in DeskOps =>
        /\ {"ticket", "by"} \subseteq DOMAIN r /\ r.ticket \in DOMAIN tickets
        /\ r.by \in IF r.op = "reply" THEN Sides ELSE AccountIds

(* Unless messages crossed, the one whose status is to be written is the last. *)
LastIsHalfway(t) ==
    \A k \in Halfway(t) : tickets[t].crossed \/ call[k].by = Last(tickets[t].msgs)

(* The status says whose turn it is, or a message is there whose status is not. *)
TurnShown(t) ==
    LET x == tickets[t] IN
    \/ Halfway(t) # {}
    \/ x.status = "resolved" /\ Len(x.msgs) = x.resolvedAt
    \/ x.status = Awaiting(Last(x.msgs))
    \/ x.crossed

(* Who resolved it is in the audit log, or about to be. *)
Noted(t) ==
    LET a == tickets[t].assigned IN
    \/ a = Unassigned
    \/ <<a, t>> \in audit
    \/ \E k \in Slots : At(k, "resolve", "log") /\ call[k].ticket = t /\ call[k].by = a

TicketOK(t) == LastIsHalfway(t) /\ (failed = 0 => TurnShown(t) /\ Noted(t))

DeskOK ==
    /\ tickets \in Seq(DeskRow)
    /\ \A k \in Slots : DeskCall(call[k])
    /\ \A t \in DOMAIN tickets : TicketOK(t)

(* One ticket's row is written. *)
LEMMA TicketWritten ==
    ASSUME DeskOK, NEW t \in DOMAIN tickets, NEW y \in DeskRow,
           tickets' = [tickets EXCEPT ![t] = y]
    PROVE  /\ tickets' \in Seq(DeskRow) /\ DOMAIN tickets' = DOMAIN tickets
           /\ tickets'[t] = y /\ \A u \in DOMAIN tickets \ {t} : tickets'[u] = tickets[u]
<1>1. tickets \in Seq(DeskRow)
    BY DEF DeskOK
<1>2. \A u \in DOMAIN tickets : tickets[u] \in DeskRow
    BY <1>1, RowsTyped
<1>3. tickets' = [u \in DOMAIN tickets |-> tickets'[u]]
    OBVIOUS
<1>4. tickets'[t] = y /\ \A u \in DOMAIN tickets \ {t} : tickets'[u] = tickets[u]
    OBVIOUS
<1>5. \A u \in DOMAIN tickets : tickets'[u] \in DeskRow
    BY <1>2, <1>4
<1>6. QED
    BY <1>1, <1>3, <1>4, <1>5, RowWritten

(* Requests know what they knew while no ticket goes. *)
LEMMA DeskCallsStay ==
    ASSUME DeskOK, DOMAIN tickets \subseteq DOMAIN tickets',
           \A k \in Slots : call'[k] = call[k] \/ call'[k].op \notin DeskOps \/ DeskCall(call'[k])
    PROVE  (\A k \in Slots : DeskCall(call[k]))'
<1>1. ASSUME NEW k \in Slots
      PROVE  DeskCall(call[k])'
    <2>1. CASE call'[k].op \notin DeskOps
        BY <2>1 DEF DeskCall
    <2>2. CASE call'[k].op \in DeskOps
        <3>1. DeskCall(call'[k])
            BY <2>2 DEF DeskOK
        <3>2. QED
            BY <3>1 DEF DeskCall
    <2>3. QED
        BY <2>1, <2>2
<1>2. QED
    BY <1>1

(* A ticket that is left alone, and so are the requests for it. *)
LEMMA TicketSame ==
    ASSUME NEW t \in DOMAIN tickets, TicketOK(t), tickets'[t] = tickets[t], audit \subseteq audit',
           failed' = 0 => failed = 0, NEW k \in Slots,
           \A j \in Slots \ {k} : call'[j] = call[j],
           ~At(k, "reply", "status")', ~At(k, "reply", "status"),
           At(k, "resolve", "log") => <<call[k].by, call[k].ticket>> \in audit'
    PROVE  TicketOK(t)'
<1>1. Halfway(t)' = Halfway(t) /\ \A j \in Halfway(t) : call'[j] = call[j]
    BY DEF Halfway, At
<1>2. LastIsHalfway(t)'
    BY <1>1 DEF TicketOK, LastIsHalfway
<1>3. ASSUME failed' = 0
      PROVE  TurnShown(t)' /\ Noted(t)'
    <2>1. TurnShown(t) /\ Noted(t)
        BY <1>3 DEF TicketOK
    <2>2. TurnShown(t)'
        BY <1>1, <2>1 DEF TurnShown, Awaiting
    <2>3. Noted(t)'
        BY <1>3, <2>1 DEF Noted, At
    <2>4. QED
        BY <2>2, <2>3
<1>4. QED
    BY <1>2, <1>3 DEF TicketOK

(* What is left to show of a step on the ticket of one request: its row is written, the
   request goes on, and the ticket itself is as it should be. *)
LEMMA OneTicket ==
    ASSUME CallsOK, DeskOK, failed' = failed, NEW k \in Slots, NEW t \in DOMAIN tickets,
           call[k].ticket = t, NEW y \in DeskRow, tickets' = [tickets EXCEPT ![t] = y],
           audit' = audit, call'[k].op \notin DeskOps \/ (DeskCall(call'[k]) /\ call'[k].ticket = t),
           \A j \in Slots \ {k} : call'[j] = call[j],
           TicketOK(t)'
    PROVE  DeskOK'
<1>1. /\ tickets' \in Seq(DeskRow) /\ DOMAIN tickets' = DOMAIN tickets
      /\ \A u \in DOMAIN tickets \ {t} : tickets'[u] = tickets[u]
    BY TicketWritten
<1>2. (\A j \in Slots : DeskCall(call[j]))'
    BY <1>1, DeskCallsStay
<1>3. ASSUME NEW u \in DOMAIN tickets \ {t}
      PROVE  TicketOK(u)'
    <2>1. TicketOK(u) /\ tickets'[u] = tickets[u]
        BY <1>1 DEF DeskOK
    <2>2. Halfway(u)' = Halfway(u) /\ k \notin Halfway(u)
        BY DEF Halfway, At, DeskOps
    <2>3. LastIsHalfway(u)'
        BY <2>1, <2>2 DEF TicketOK, LastIsHalfway, Halfway
    <2>4. ASSUME failed = 0
          PROVE  TurnShown(u)' /\ Noted(u)'
        <3>1. TurnShown(u) /\ Noted(u)
            BY <2>1, <2>4 DEF TicketOK
        <3>2. TurnShown(u)'
            BY <2>1, <2>2, <3>1 DEF TurnShown, Awaiting
        <3>3. Noted(u)'
            BY <2>1, <3>1 DEF Noted, At
        <3>4. QED
            BY <3>2, <3>3
    <2>5. QED
        BY <2>3, <2>4 DEF TicketOK
<1>4. QED
    BY <1>1, <1>2, <1>3 DEF DeskOK

(* The local variables of a request for a ticket. *)
LEMMA DeskFields ==
    ASSUME CallsOK, DeskOK, NEW k \in Slots, call[k].op \in DeskOps
    PROVE  \E t \in DOMAIN tickets, x \in DeskRow :
            /\ call[k].ticket = t /\ tickets[t] = x
            /\ call[k].by \in IF call[k].op = "reply" THEN Sides ELSE AccountIds
<1>1. DeskCall(call[k]) /\ tickets \in Seq(DeskRow)
    BY DEF DeskOK
<1>2. call[k].ticket \in DOMAIN tickets
    BY <1>1 DEF DeskCall
<1>3. tickets[call[k].ticket] \in DeskRow
    BY <1>1, <1>2, RowsTyped
<1>4. QED
    BY <1>1, <1>2, <1>3 DEF DeskCall

(* A reply is stored: the ticket's status is to be written. *)
LEMMA AddMessageKeeps ==
    ASSUME CallsOK, DeskOK, NEW k \in Slots, AddMessage(k)
    PROVE  DeskOK'
<1>1. /\ call[k].op = "reply" /\ call[k].pc = "add" /\ Goto(k, "status") /\ audit' = audit
      /\ call[k].op \in DeskOps
    BY DEF AddMessage, At, DeskOps
<1>2. PICK t \in DOMAIN tickets, x \in DeskRow :
        call[k].ticket = t /\ tickets[t] = x /\ call[k].by \in Sides
    BY <1>1, DeskFields
<1>3. PICK by \in Sides : by = call[k].by
    BY <1>2
<1>4. PICK over \in BOOLEAN : over = (Halfway(t) # {})
    OBVIOUS
<1>5. PICK y : y = [x EXCEPT !.msgs = Append(x.msgs, by), !.crossed = over]
    OBVIOUS
<1>6. /\ y \in DeskRow /\ y.msgs = Append(x.msgs, by) /\ y.crossed = over
      /\ y.assigned = x.assigned
    <2>1. Append(x.msgs, by) \in Seq(Sides)
        BY DEF DeskRow
    <2>2. QED
        BY <1>5, <2>1 DEF DeskRow
<1>7. tickets' = [tickets EXCEPT ![t] = y]
    BY <1>2, <1>3, <1>4, <1>5 DEF AddMessage
<1>8. tickets'[t] = y
    BY <1>6, <1>7, TicketWritten
<1>9. /\ call'[k] = [call[k] EXCEPT !.pc = "status"] /\ failed' = failed
      /\ \A j \in Slots \ {k} : call'[j] = call[j]
    BY <1>1, GotoMoves
<1>10. DeskCall(call[k]) /\ {"op", "pc"} \subseteq DOMAIN call[k]
    BY DEF DeskOK, CallsOK, IsRequest
<1>11. /\ DeskCall(call'[k]) /\ call'[k].op = "reply" /\ call'[k].pc = "status"
       /\ call'[k].ticket = t /\ call'[k].by = by
    <2>1. {"ticket", "by"} \subseteq DOMAIN call[k]
        BY <1>1, <1>10 DEF DeskCall
    <2>2. /\ DOMAIN call'[k] = DOMAIN call[k] /\ call'[k].op = "reply" /\ call'[k].pc = "status"
          /\ call'[k].ticket = t /\ call'[k].by = by
        BY <1>1, <1>2, <1>3, <1>9, <1>10, <2>1
    <2>3. QED
        BY <1>2, <1>3, <2>1, <2>2 DEF DeskCall
<1>12. Last(y.msgs) = by
    BY <1>6 DEF Last, DeskRow
<1>13. Halfway(t)' = Halfway(t) \cup {k}
    BY <1>1, <1>9, <1>11 DEF Halfway, At
<1>14. LastIsHalfway(t)'
    <2>1. ASSUME NEW j \in Halfway(t)', ~over PROVE call'[j].by = by
        BY <1>4, <1>11, <1>13, <2>1
    <2>2. QED
        BY <1>6, <1>8, <1>12, <2>1 DEF LastIsHalfway
<1>15. ASSUME failed = 0 PROVE TurnShown(t)' /\ Noted(t)'
    <2>1. Noted(t)
        BY <1>15 DEF DeskOK, TicketOK
    <2>2. Noted(t)'
        BY <1>1, <1>2, <1>6, <1>8, <1>9, <2>1 DEF Noted, At
    <2>3. QED
        BY <1>13, <2>2 DEF TurnShown
<1>16. QED
    BY <1>1, <1>2, <1>6, <1>7, <1>9, <1>11, <1>14, <1>15, OneTicket DEF TicketOK

(* The status of a reply is written. *)
LEMMA UpdateStatusKeeps ==
    ASSUME CallsOK, DeskOK, NEW k \in Slots, UpdateStatus(k)
    PROVE  DeskOK'
<1>1. /\ call[k].op = "reply" /\ call[k].pc = "status" /\ Answer(k) /\ audit' = audit
      /\ call[k].op \in DeskOps
    BY DEF UpdateStatus, At, DeskOps
<1>2. PICK t \in DOMAIN tickets, x \in DeskRow :
        call[k].ticket = t /\ tickets[t] = x /\ call[k].by \in Sides
    BY <1>1, DeskFields
<1>3. PICK by \in Sides : by = call[k].by
    BY <1>2
<1>4. PICK y : y = [x EXCEPT !.status = Awaiting(by)]
    OBVIOUS
<1>5. /\ y \in DeskRow /\ y.msgs = x.msgs /\ y.crossed = x.crossed
      /\ y.assigned = x.assigned /\ y.status = Awaiting(by)
    BY <1>4 DEF DeskRow, Awaiting
<1>6. tickets' = [tickets EXCEPT ![t] = y]
    BY <1>2, <1>3, <1>4 DEF UpdateStatus
<1>7. tickets'[t] = y
    BY <1>5, <1>6, TicketWritten
<1>8. /\ call'[k] = Idle /\ failed' = failed
      /\ \A j \in Slots \ {k} : call'[j] = call[j]
    BY <1>1, AnswerMoves
<1>9. call'[k].op \notin DeskOps
    BY <1>8, IdleFields DEF DeskOps
<1>10. k \in Halfway(t) /\ Halfway(t)' = Halfway(t) \ {k}
    BY <1>1, <1>2, <1>8, <1>9 DEF Halfway, At, DeskOps
<1>11. LastIsHalfway(t)
    BY DEF DeskOK, TicketOK
<1>12. LastIsHalfway(t)'
    <2>1. ASSUME NEW j \in Halfway(t)'
          PROVE  y.crossed \/ call'[j].by = Last(y.msgs)
        <3>1. j \in Halfway(t) /\ j \in Slots \ {k}
            BY <1>10 DEF Halfway
        <3>2. x.crossed \/ call[j].by = Last(x.msgs)
            BY <1>2, <1>11, <3>1 DEF LastIsHalfway
        <3>3. QED
            BY <1>5, <1>8, <3>1, <3>2
    <2>2. QED
        BY <1>7, <2>1 DEF LastIsHalfway
<1>13. TurnShown(t)'
    BY <1>2, <1>3, <1>5, <1>7, <1>10, <1>11 DEF LastIsHalfway, TurnShown, Awaiting
<1>14. ASSUME failed = 0 PROVE Noted(t)'
    <2>1. Noted(t)
        BY <1>14 DEF DeskOK, TicketOK
    <2>2. QED
        BY <1>1, <1>2, <1>5, <1>7, <1>8, <2>1 DEF Noted, At
<1>15. QED
    BY <1>1, <1>2, <1>5, <1>6, <1>8, <1>9, <1>12, <1>13, <1>14, OneTicket DEF TicketOK

(* A ticket is resolved: its note is to be written. *)
LEMMA ResolvedKeeps ==
    ASSUME CallsOK, DeskOK, NEW k \in Slots, AssignResolved(k)
    PROVE  DeskOK'
<1>1. /\ call[k].op = "resolve" /\ call[k].pc = "update" /\ Goto(k, "log") /\ audit' = audit
      /\ call[k].op \in DeskOps
    BY DEF AssignResolved, At, DeskOps
<1>2. PICK t \in DOMAIN tickets, x \in DeskRow :
        call[k].ticket = t /\ tickets[t] = x /\ call[k].by \in AccountIds
    BY <1>1, DeskFields
<1>3. PICK by \in AccountIds, n \in Nat : by = call[k].by /\ n = Len(x.msgs)
    BY <1>2 DEF DeskRow
<1>4. PICK y : y = [x EXCEPT !.status = "resolved", !.assigned = by, !.resolvedAt = n]
    OBVIOUS
<1>5. /\ y \in DeskRow /\ y.msgs = x.msgs /\ y.crossed = x.crossed
      /\ y.assigned = by /\ y.status = "resolved" /\ y.resolvedAt = n
    BY <1>4 DEF DeskRow
<1>6. tickets' = [tickets EXCEPT ![t] = y]
    BY <1>2, <1>3, <1>4 DEF AssignResolved
<1>7. tickets'[t] = y
    BY <1>5, <1>6, TicketWritten
<1>8. /\ call'[k] = [call[k] EXCEPT !.pc = "log"] /\ failed' = failed
      /\ \A j \in Slots \ {k} : call'[j] = call[j]
    BY <1>1, GotoMoves
<1>9. /\ DeskCall(call'[k]) /\ call'[k].op = "resolve" /\ call'[k].pc = "log"
      /\ call'[k].ticket = t /\ call'[k].by = by
    <2>1. DeskCall(call[k]) /\ {"op", "pc"} \subseteq DOMAIN call[k]
        BY DEF DeskOK, CallsOK, IsRequest
    <2>2. {"ticket", "by"} \subseteq DOMAIN call[k]
        BY <1>1, <2>1 DEF DeskCall
    <2>3. /\ DOMAIN call'[k] = DOMAIN call[k] /\ call'[k].op = "resolve" /\ call'[k].pc = "log"
          /\ call'[k].ticket = t /\ call'[k].by = by
        BY <1>1, <1>2, <1>3, <1>8, <2>1, <2>2
    <2>4. QED
        BY <1>2, <1>3, <2>2, <2>3 DEF DeskCall
<1>10. Halfway(t)' = Halfway(t) /\ k \notin Halfway(t)
    BY <1>1, <1>8, <1>9 DEF Halfway, At
<1>11. LastIsHalfway(t)
    BY DEF DeskOK, TicketOK
<1>12. LastIsHalfway(t)'
    BY <1>2, <1>5, <1>7, <1>8, <1>10, <1>11 DEF LastIsHalfway, Halfway
<1>13. TurnShown(t)' /\ Noted(t)'
    BY <1>3, <1>5, <1>7, <1>9 DEF TurnShown, Noted, At
<1>14. QED
    BY <1>1, <1>2, <1>5, <1>6, <1>8, <1>9, <1>12, <1>13, OneTicket DEF TicketOK

(* The note of who resolved a ticket is written. *)
LEMMA LogActionKeeps ==
    ASSUME CallsOK, DeskOK, NEW k \in Slots, LogAction(k)
    PROVE  DeskOK'
<1>1. /\ call[k].op = "resolve" /\ call[k].pc = "log" /\ Answer(k) /\ tickets' = tickets
      /\ audit' = audit \cup {<<call[k].by, call[k].ticket>>} /\ call[k].op \in DeskOps
    BY DEF LogAction, At, DeskOps
<1>2. call'[k] = Idle /\ failed' = failed /\ \A j \in Slots \ {k} : call'[j] = call[j]
    BY <1>1, AnswerMoves
<1>3. call'[k].op = "none" /\ call'[k].op \notin DeskOps
    BY <1>2, IdleFields DEF DeskOps
<1>4. (\A j \in Slots : DeskCall(call[j]))'
    BY <1>1, <1>2, <1>3, DeskCallsStay
<1>5. ASSUME NEW t \in DOMAIN tickets PROVE TicketOK(t)'
    <2>1. TicketOK(t) /\ tickets'[t] = tickets[t] /\ audit \subseteq audit' /\ (failed' = 0 => failed = 0)
        BY <1>1, <1>2 DEF DeskOK
    <2>2. /\ ~At(k, "reply", "status")' /\ ~At(k, "reply", "status")
          /\ <<call[k].by, call[k].ticket>> \in audit'
        BY <1>1, <1>3 DEF At
    <2>3. \A j \in Slots \ {k} : call'[j] = call[j]
        BY <1>2
    <2>4. QED
        BY <2>1, <2>2, <2>3, TicketSame
<1>6. QED
    BY <1>1, <1>4, <1>5 DEF DeskOK

(* A request for a ticket is let in. *)
LEMMA DeskLetIn ==
    ASSUME CallsOK, DeskOK, NEW k \in Slots, NEW rec, IsRequest(rec), rec.op \in DeskOps,
           DeskCall(rec), rec.pc \in {"add", "update"}, Begin("desk", k, rec), UNCHANGED deskVars
    PROVE  DeskOK'
<1>1. /\ call[k] = Idle /\ call'[k] = rec /\ failed' = failed
      /\ \A j \in Slots \ {k} : call'[j] = call[j]
    BY BeginMoves
<1>2. tickets' = tickets /\ audit' = audit
    BY DEF deskVars
<1>3. (\A j \in Slots : DeskCall(call[j]))'
    BY <1>1, <1>2, DeskCallsStay
<1>4. ASSUME NEW t \in DOMAIN tickets PROVE TicketOK(t)'
    <2>1. TicketOK(t) /\ tickets'[t] = tickets[t] /\ audit \subseteq audit' /\ (failed' = 0 => failed = 0)
        BY <1>1, <1>2 DEF DeskOK
    <2>2. ~At(k, "reply", "status")' /\ ~At(k, "reply", "status") /\ ~At(k, "resolve", "log")
        BY <1>1, IdleFields DEF At
    <2>3. \A j \in Slots \ {k} : call'[j] = call[j]
        BY <1>1
    <2>4. QED
        BY <2>1, <2>2, <2>3, TicketSame
<1>5. QED
    BY <1>2, <1>3, <1>4 DEF DeskOK

(* A ticket is opened: it awaits the staff. *)
LEMMA CreateTicketKeeps ==
    ASSUME CallsOK, DeskOK, NEW a \in AccountIds, CreateTicket(a)
    PROVE  DeskOK'
<1>1. call' = call /\ failed' = failed /\ audit' = audit
    BY DEF CreateTicket, Serve
<1>2. PICK y \in DeskRow : y = Ticket(a)
    <2>1. <<"user">> \in Seq(Sides)
        BY DEF Sides
    <2>2. Ticket(a) \in DeskRow
        BY <2>1 DEF DeskRow, Ticket
    <2>3. QED
        BY <2>2
<1>3. y.msgs = <<"user">> /\ y.status = "open" /\ y.assigned = Unassigned
    BY <1>2 DEF Ticket
<1>4. PICK n \in Nat : n = Len(tickets)
    BY DEF DeskOK
<1>5. /\ tickets' \in Seq(DeskRow) /\ DOMAIN tickets' = 1..(n + 1) /\ DOMAIN tickets = 1..n
      /\ tickets'[n + 1] = y /\ \A t \in 1..n : tickets'[t] = tickets[t]
    BY <1>2, <1>4 DEF CreateTicket, DeskOK
<1>6. DOMAIN tickets' = DOMAIN tickets \cup {n + 1} /\ n + 1 \notin DOMAIN tickets
    BY <1>5
<1>7. (\A j \in Slots : DeskCall(call[j]))'
    BY <1>1, <1>6, DeskCallsStay
<1>8. ASSUME NEW t \in DOMAIN tickets PROVE TicketOK(t)'
    <2>1. TicketOK(t) /\ tickets'[t] = tickets[t]
        BY <1>5 DEF DeskOK
    <2>2. Halfway(t)' = Halfway(t)
        BY <1>1 DEF Halfway, At
    <2>3. QED
        BY <1>1, <2>1, <2>2 DEF TicketOK, LastIsHalfway, TurnShown, Noted, At, Awaiting
<1>9. TicketOK(n + 1)'
    <2>1. ASSUME NEW k \in Slots, call[k].op = "reply" PROVE call[k].ticket # n + 1
        BY <1>6, <2>1 DEF DeskOK, DeskCall, DeskOps
    <2>2. Halfway(n + 1)' = {}
        BY <1>1, <2>1 DEF Halfway, At
    <2>3. Last(y.msgs) = "user"
        BY <1>3 DEF Last
    <2>4. TurnShown(n + 1)' /\ Noted(n + 1)'
        BY <1>3, <1>5, <2>3 DEF TurnShown, Noted, Awaiting
    <2>5. QED
        BY <2>2, <2>4 DEF TicketOK, LastIsHalfway
<1>10. QED
    BY <1>5, <1>6, <1>7, <1>8, <1>9 DEF DeskOK

(* The help desk keeps its tickets and its audit log in order. *)
LEMMA DeskKeeps ==
    ASSUME CallsOK, DeskOK, DeskNext
    PROVE  DeskOK'
<1>1. ASSUME NEW a \in AccountIds, SetRole(a)
      PROVE  DeskOK'
    <2>1. call' = call /\ failed' = failed /\ audit' = audit /\ tickets' = tickets
        BY <1>1 DEF SetRole, Serve
    <2>2. QED
        BY <2>1 DEF DeskOK, DeskCall, TicketOK, LastIsHalfway, TurnShown, Noted, Halfway, At, Awaiting
<1>2. ASSUME NEW k \in Slots, NEW a \in AccountIds, NEW t \in DOMAIN tickets, ReplyTicket(k, a, t)
      PROVE  DeskOK'
    <2> DEFINE rec == [op |-> "reply", pc |-> "add", ticket |-> t,
                       by |-> IF a = tickets[t].owner THEN "user" ELSE "support"]
    <2>1. Begin("desk", k, rec) /\ UNCHANGED deskVars
        BY <1>2 DEF ReplyTicket
    <2>2. IsRequest(rec) /\ rec.op \in DeskOps /\ rec.pc \in {"add", "update"} /\ DeskCall(rec)
        BY DEF IsRequest, DeskOps, DeskCall, Sides
    <2> HIDE DEF rec
    <2>3. QED
        BY <2>1, <2>2, DeskLetIn
<1>3. ASSUME NEW k \in Slots, NEW a \in AccountIds, NEW t \in DOMAIN tickets, ResolveTicket(k, a, t)
      PROVE  DeskOK'
    <2> DEFINE rec == [op |-> "resolve", pc |-> "update", ticket |-> t, by |-> a]
    <2>1. Begin("desk", k, rec) /\ UNCHANGED deskVars
        BY <1>3 DEF ResolveTicket
    <2>2. IsRequest(rec) /\ rec.op \in DeskOps /\ rec.pc \in {"add", "update"} /\ DeskCall(rec)
        BY DEF IsRequest, DeskOps, DeskCall
    <2> HIDE DEF rec
    <2>3. QED
        BY <2>1, <2>2, DeskLetIn
<1>4. QED
    BY <1>1, <1>2, <1>3, CreateTicketKeeps, AddMessageKeeps, UpdateStatusKeeps, ResolvedKeeps,
       LogActionKeeps DEF DeskNext

(* No step of any service does less. *)
LEMMA DeskStep ==
    ASSUME CallsOK, DeskOK, [Next]_vars
    PROVE  DeskOK'
<1>1. CASE UNCHANGED deskVars /\ Spares(DeskOps)
    <2>1. tickets' = tickets /\ audit' = audit
        BY <1>1 DEF deskVars
    <2>2. \A k \in Slots : call'[k] = call[k] \/ call'[k].op \notin DeskOps
        BY <1>1, IdleFields DEF Spares, DeskOps
    <2>3. (\A k \in Slots : DeskCall(call[k]))'
        BY <2>1, <2>2, DeskCallsStay
    <2>4. ASSUME NEW t \in DOMAIN tickets PROVE TicketOK(t)'
        <3>1. TicketOK(t)
            BY DEF DeskOK
        <3>2. \A k \in Halfway(t)' : k \in Halfway(t) /\ call'[k] = call[k]
            BY <2>2 DEF Halfway, At, DeskOps
        <3>3. LastIsHalfway(t)'
            BY <2>1, <3>1, <3>2 DEF TicketOK, LastIsHalfway
        <3>4. ASSUME failed' = 0 PROVE TurnShown(t)' /\ Noted(t)'
            <4>1. failed = 0 /\ failed' = failed
                BY <1>1, <3>4 DEF Spares, CallsOK
            <4>2. \A k \in Slots : call[k].op \in DeskOps => call'[k] = call[k]
                BY <1>1, <4>1 DEF Spares
            <4>3. Halfway(t) \subseteq Halfway(t)'
                BY <4>2 DEF Halfway, At, DeskOps
            <4>4. TurnShown(t) /\ Noted(t)
                BY <3>1, <4>1 DEF TicketOK
            <4>5. TurnShown(t)'
                BY <2>1, <4>3, <4>4 DEF TurnShown, Awaiting
            <4>6. Noted(t)'
                BY <2>1, <4>2, <4>4 DEF Noted, At, DeskOps
            <4>7. QED
                BY <4>5, <4>6
        <3>5. QED
            BY <3>3, <3>4 DEF TicketOK
    <2>5. QED
        BY <2>1, <2>3, <2>4 DEF DeskOK
<1>2. QED
    BY <1>1, DeskKeeps, DeskFrame

(* At first there are no tickets. *)
LEMMA DeskInitially ==
    ASSUME Init
    PROVE  DeskOK
<1>1. call = [k \in Slots |-> Idle] /\ tickets = <<>>
    BY DEF Init, CallsInit, DeskInit
<1>2. tickets \in Seq(DeskRow) /\ DOMAIN tickets = {}
    BY <1>1
<1>3. \A k \in Slots : DeskCall(call[k])
    BY <1>1, IdleFields DEF DeskCall, DeskOps
<1>4. QED
    BY <1>2, <1>3 DEF DeskOK

(* The status of a ticket shows whose turn it is to write, and the audit log who resolved
   it, once the requests for it are handled and unless messages crossed, whatever the
   owner and the staff do at the same time (adminsvc ReplyTicket and ResolveTicket):
   while a message's status is not written that message is the last, and whoever is
   assigned is in the log or still has a note to write. *)
THEOREM TicketsShowWhoseTurn == Spec => []StatusShowsWhoseTurn
<1>1. Init => CallsOK /\ DeskOK
    BY InitCalls, DeskInitially
<1>2. CallsOK /\ DeskOK /\ [Next]_vars => (CallsOK /\ DeskOK)'
    BY ApartFrame, DeskStep
<1>3. ASSUME DeskOK PROVE StatusShowsWhoseTurn
    <2>1. ASSUME failed = 0, NEW t \in DOMAIN tickets, Handled(t) = {}
          PROVE  /\ \/ tickets[t].status = "resolved" /\ Len(tickets[t].msgs) = tickets[t].resolvedAt
                    \/ tickets[t].status = Awaiting(Last(tickets[t].msgs))
                    \/ tickets[t].crossed
                 /\ tickets[t].assigned # Unassigned => <<tickets[t].assigned, t>> \in audit
        <3>1. TurnShown(t) /\ Noted(t)
            BY <1>3, <2>1 DEF DeskOK, TicketOK
        <3>2. Halfway(t) = {} /\ \A k \in Slots : ~(At(k, "resolve", "log") /\ call[k].ticket = t)
            BY <2>1 DEF Handled, Halfway, At
        <3>3. QED
            BY <3>1, <3>2 DEF TurnShown, Noted
    <2>2. QED
        BY <2>1 DEF StatusShowsWhoseTurn
<1>4. QED
    BY <1>1, <1>2, <1>3, PTL DEF Spec

-----------------------------------------------------------------------------
(* Risk profiles *)

(* Only the risk hooks change profiles and what they look at. *)
LEMMA RiskFrame ==
    ASSUME CallsOK, [Next]_vars
    PROVE  RiskNext \/ (UNCHANGED riskVars /\ Spares(RiskOps))
<1>1. RiskOps \subseteq ApartOps
    BY DEF RiskOps, ApartOps
<1>2. ASSUME NEW ops, Moves(ops), ops \cap RiskOps = {}
      PROVE  Spares(RiskOps)
    BY <1>2, OthersSpared DEF RiskOps
<1>3. CASE Spares(ApartOps) /\ UNCHANGED riskVars
    BY <1>1, <1>3 DEF Spares
<1>4. CASE ApartNext
    <2>1. CASE FeedNext
        BY <1>2, <1>4, <2>1, FeedMoves DEF FeedOps, RiskOps, ApartNext
    <2>2. CASE (LocalNext \/ BroadcastNext \/ StoresNext) /\ UNCHANGED riskVars
        BY <1>2, <2>2, LocalMoves, BroadcastMoves, StoresMoves
    <2>3. CASE DeskNext /\ UNCHANGED riskVars
        BY <1>2, <2>3, DeskMoves DEF RiskOps, DeskOps
    <2>4. QED
        BY <1>4, <2>1, <2>2, <2>3 DEF ApartNext
<1>5. QED
    BY <1>3, <1>4, ApartFrame

SignalSet ==
    {DeviceClustering, GiftLoop, RepeatChargeback, Keyword, RapidEscalation, NoReciprocity}

(* A profile's status is the one its score stands for. *)
ProfileOK(p) ==
    /\ p.score \in Nat /\ p.status \in {"none", "watch", "manual_review"}
    /\ p.score >= RiskManualReviewThreshold <=> p.status = "manual_review"
    /\ p.score < RiskWatchThreshold <=> p.status = "none"

(* The local variables of a hook, at each of its steps.  A profile that is about to be
   stored adds one signal to the one that is there, or is stored over another change. *)
RiskCall(r) ==
    r.op = "risk" =>
        /\ r.pc \in {"record", "cluster"} => "row" \in DOMAIN r /\ r.row \in DeviceHashes \X AccountIds
        /\ r.pc = "loop" => "row" \in DOMAIN r /\ r.row \in AccountIds \X AccountIds
        /\ r.pc \in {"get", "upsert"} =>
            "signals" \in DOMAIN r /\ r.signals \subseteq AccountIds \X SignalSet
        /\ r.pc = "upsert" =>
            /\ {"acct", "profile", "delta"} \subseteq DOMAIN r
            /\ r.acct \in AccountIds /\ r.delta \in Nat /\ ProfileOK(r.profile)
            /\ \/ r.acct \in crossed
               \/ /\ r.profile.score = risk[r.acct].score + r.delta
                  /\ risk[r.acct].reasons \subseteq r.profile.reasons

(* The hook in slot k is to give a the signal. *)
Owes(k, a, signal) ==
    /\ call[k].op = "risk"
    /\ \/ call[k].pc \in {"get", "upsert"} /\ <<a, signal>> \in call[k].signals
       \/ call[k].pc = "upsert" /\ call[k].acct = a /\ signal.reason \in call[k].profile.reasons

(* The signal is on a's profile or will be, unless that is stored over another change. *)
Seen(a, signal) ==
    \/ a \in crossed
    \/ signal.reason \in risk[a].reasons
    \/ \E k \in Slots : Owes(k, a, signal)

(* What a and b did together is seen, or a hook is about to look. *)
DeviceSeen(d, a, b) ==
    {<<d, a>>, <<d, b>>} \subseteq fingerprints =>
        \/ Seen(a, DeviceClustering)
        \/ \E k \in Slots : At(k, "risk", "cluster") /\ call[k].row[1] = d

LoopSeen(a, b) ==
    {<<a, b>>, <<b, a>>} \subseteq gifts =>
        \/ Seen(a, GiftLoop)
        \/ \E k \in Slots : At(k, "risk", "loop") /\ call[k].row \in {<<a, b>>, <<b, a>>}

ConductSeen ==
    \A a \in AccountIds, b \in AccountIds : a # b =>
        LoopSeen(a, b) /\ \A d \in DeviceHashes : DeviceSeen(d, a, b)

ProfilesOK ==
    /\ risk = [a \in AccountIds |-> risk[a]]
    /\ \A a \in AccountIds : ProfileOK(risk[a])
    /\ given \in [AccountIds -> Nat]
    /\ \A a \in AccountIds \ crossed : risk[a].score = given[a]

RiskOK ==
    /\ ProfilesOK
    /\ \A k \in Slots : RiskCall(call[k])
    /\ failed = 0 => ConductSeen

(* A signal adds to the score, and the status follows it. *)
LEMMA ScoredOK ==
    ASSUME NEW p, ProfileOK(p), NEW signal \in SignalSet
    PROVE  /\ ProfileOK(Scored(p, signal)) /\ signal.delta \in Nat
           /\ Scored(p, signal).score = p.score + signal.delta
           /\ Scored(p, signal).reasons = p.reasons \cup {signal.reason}
<1>1. signal.delta \in Nat
    BY DEF SignalSet, DeviceClustering, GiftLoop, RepeatChargeback, Keyword, RapidEscalation,
           NoReciprocity
<1>2. PICK n \in Nat, m \in Nat : n = p.score /\ m = signal.delta
    BY <1>1 DEF ProfileOK
<1>3. PICK s : s = Scored(p, signal)
    OBVIOUS
<1>4. /\ s.score = n + m /\ s.reasons = p.reasons \cup {signal.reason}
      /\ s.status = IF n + m >= 6 THEN "manual_review"
                    ELSE IF n + m >= 3 /\ p.status = "none" THEN "watch" ELSE p.status
    BY <1>2, <1>3 DEF Scored, RiskManualReviewThreshold, RiskWatchThreshold
<1>5. ProfileOK(s)
    BY <1>2, <1>4 DEF ProfileOK, RiskManualReviewThreshold, RiskWatchThreshold
<1>6. QED
    BY <1>1, <1>2, <1>3, <1>4, <1>5

(* Signals that are seen stay seen, when the one hook that goes on sees to those it owes. *)
LEMMA SeenStays ==
    ASSUME NEW k \in Slots, \A j \in Slots \ {k} : call'[j] = call[j], crossed \subseteq crossed',
           NEW a \in AccountIds, NEW signal, Seen(a, signal),
           risk[a].reasons \subseteq risk'[a].reasons \/ a \in crossed',
           Owes(k, a, signal) => Seen(a, signal)'
    PROVE  Seen(a, signal)'
<1>1. ASSUME NEW j \in Slots \ {k}, Owes(j, a, signal)
      PROVE  Owes(j, a, signal)'
    BY <1>1 DEF Owes
<1>2. QED
    BY <1>1 DEF Seen

(* What hooks know stays true while profiles stay. *)
LEMMA RiskCallsStay ==
    ASSUME RiskOK, risk' = risk, crossed \subseteq crossed',
           \A k \in Slots : call'[k] = call[k] \/ call'[k].op # "risk" \/ RiskCall(call'[k])
    PROVE  (\A k \in Slots : RiskCall(call[k]))'
<1>1. ASSUME NEW k \in Slots
      PROVE  RiskCall(call[k])'
    <2>1. CASE call'[k].op # "risk"
        BY <2>1 DEF RiskCall
    <2>2. CASE call'[k].op = "risk"
        <3>1. RiskCall(call'[k])
            BY <2>2 DEF RiskOK
        <3>2. QED
            BY <3>1 DEF RiskCall
    <2>3. QED
        BY <2>1, <2>2
<1>2. QED
    BY <1>1

(* What is left to show of a step of one hook that stores no profile: it knows what it
   should, sees to what it owes, and what is new has a hook about to look. *)
LEMMA OneHook ==
    ASSUME CallsOK, RiskOK, NEW k \in Slots, \A j \in Slots \ {k} : call'[j] = call[j],
           failed' = failed, risk' = risk, given' = given, crossed' = crossed,
           call'[k].op # "risk" \/ RiskCall(call'[k]),
           \A a \in AccountIds, signal \in {DeviceClustering, GiftLoop} :
                Owes(k, a, signal) => Seen(a, signal)',
           \A d \in DeviceHashes, a \in AccountIds, b \in AccountIds :
                /\ a # b /\ {<<d, a>>, <<d, b>>} \subseteq fingerprints'
                /\ ~({<<d, a>>, <<d, b>>} \subseteq fingerprints /\ ~(At(k, "risk", "cluster") /\ call[k].row[1] = d))
                => Seen(a, DeviceClustering)' \/ (At(k, "risk", "cluster")' /\ call'[k].row[1] = d),
           \A a \in AccountIds, b \in AccountIds :
                /\ a # b /\ {<<a, b>>, <<b, a>>} \subseteq gifts'
                /\ ~({<<a, b>>, <<b, a>>} \subseteq gifts /\ ~(At(k, "risk", "loop") /\ call[k].row \in {<<a, b>>, <<b, a>>}))
                => Seen(a, GiftLoop)' \/ (At(k, "risk", "loop")' /\ call'[k].row \in {<<a, b>>, <<b, a>>})
    PROVE  RiskOK'
<1>1. ProfilesOK'
    BY DEF RiskOK, ProfilesOK, ProfileOK
<1>2. (\A j \in Slots : RiskCall(call[j]))'
    BY RiskCallsStay
<1>3. \A a \in AccountIds, signal \in {DeviceClustering, GiftLoop} :
        Seen(a, signal) => Seen(a, signal)'
    BY SeenStays
<1>4. ASSUME failed = 0, NEW a \in AccountIds, NEW b \in AccountIds, a # b
      PROVE  LoopSeen(a, b)'
    <2>1. LoopSeen(a, b)
        BY <1>4 DEF RiskOK, ConductSeen
    <2>2. SUFFICES ASSUME {<<a, b>>, <<b, a>>} \subseteq gifts'
          PROVE  \/ Seen(a, GiftLoop)'
                 \/ \E j \in Slots : At(j, "risk", "loop")' /\ call'[j].row \in {<<a, b>>, <<b, a>>}
        BY DEF LoopSeen
    <2>3. CASE At(k, "risk", "loop") /\ call[k].row \in {<<a, b>>, <<b, a>>}
        BY <1>4, <2>2, <2>3
    <2>4. CASE ~({<<a, b>>, <<b, a>>} \subseteq gifts)
        BY <1>4, <2>2, <2>4
    <2>5. CASE /\ {<<a, b>>, <<b, a>>} \subseteq gifts
               /\ ~(At(k, "risk", "loop") /\ call[k].row \in {<<a, b>>, <<b, a>>})
        <3>1. CASE Seen(a, GiftLoop)
            BY <1>3, <3>1
        <3>2. CASE ~Seen(a, GiftLoop)
            <4>1. PICK j \in Slots : At(j, "risk", "loop") /\ call[j].row \in {<<a, b>>, <<b, a>>}
                BY <2>1, <2>5, <3>2 DEF LoopSeen
            <4>2. call'[j] = call[j]
                BY <2>5, <4>1
            <4>3. QED
                BY <4>1, <4>2 DEF At
        <3>3. QED
            BY <3>1, <3>2
    <2>6. QED
        BY <2>3, <2>4, <2>5
<1>5. ASSUME failed = 0, NEW a \in AccountIds, NEW b \in AccountIds, a # b, NEW d \in DeviceHashes
      PROVE  DeviceSeen(d, a, b)'
    <2>1. DeviceSeen(d, a, b)
        BY <1>5 DEF RiskOK, ConductSeen
    <2>2. SUFFICES ASSUME {<<d, a>>, <<d, b>>} \subseteq fingerprints'
          PROVE  \/ Seen(a, DeviceClustering)'
                 \/ \E j \in Slots : At(j, "risk", "cluster")' /\ call'[j].row[1] = d
        BY DEF DeviceSeen
    <2>3. CASE At(k, "risk", "cluster") /\ call[k].row[1] = d
        BY <1>5, <2>2, <2>3
    <2>4. CASE ~({<<d, a>>, <<d, b>>} \subseteq fingerprints)
        BY <1>5, <2>2, <2>4
    <2>5. CASE /\ {<<d, a>>, <<d, b>>} \subseteq fingerprints
               /\ ~(At(k, "risk", "cluster") /\ call[k].row[1] = d)
        <3>1. CASE Seen(a, DeviceClustering)
            BY <1>3, <3>1
        <3>2. CASE ~Seen(a, DeviceClustering)
            <4>1. PICK j \in Slots : At(j, "risk", "cluster") /\ call[j].row[1] = d
                BY <2>1, <2>5, <3>2 DEF DeviceSeen
            <4>2. call'[j] = call[j]
                BY <2>5, <4>1
            <4>3. QED
                BY <4>1, <4>2 DEF At
        <3>3. QED
            BY <3>1, <3>2
    <2>6. QED
        BY <2>3, <2>4, <2>5
<1>6. QED
    BY <1>1, <1>2, <1>4, <1>5 DEF RiskOK, ConductSeen

(* What a hook that begins leaves to show: what is new has it about to look. *)
LEMMA NewHook ==
    ASSUME CallsOK, RiskOK, NEW k \in Slots, call[k] = Idle, \A j \in Slots \ {k} : call'[j] = call[j],
           failed' = failed, UNCHANGED <<risk, given, crossed, fingerprints>>,
           call'[k].op # "risk" \/ RiskCall(call'[k]),
           \A a \in AccountIds, b \in AccountIds :
                {<<a, b>>, <<b, a>>} \subseteq gifts' =>
                    \/ {<<a, b>>, <<b, a>>} \subseteq gifts
                    \/ At(k, "risk", "loop")' /\ call'[k].row \in {<<a, b>>, <<b, a>>}
    PROVE  RiskOK'
<1>1. call[k].op # "risk"
    BY IdleFields
<1>2. ~At(k, "risk", "loop") /\ ~At(k, "risk", "cluster") /\ \A a, s : ~Owes(k, a, s)
    BY <1>1 DEF At, Owes
<1>3. QED
    BY <1>2, OneHook

(* A login. *)
LEMMA DeviceLoginSeen ==
    ASSUME CallsOK, RiskOK, NEW k \in Slots, NEW a \in AccountIds, NEW d \in DeviceHashes,
           DeviceLogin(k, a, d)
    PROVE  RiskOK'
<1> DEFINE rec == [op |-> "risk", pc |-> "record", row |-> <<d, a>>]
<1>1. IsRequest(rec) /\ rec.op \in RiskOps /\ RiskCall(rec)
    BY DEF IsRequest, RiskOps, RiskCall
<1>2. Begin("risk", k, rec) /\ UNCHANGED riskVars
    BY DEF DeviceLogin
<1> HIDE DEF rec
<1>3. /\ call[k] = Idle /\ call'[k] = rec /\ failed' = failed
      /\ \A j \in Slots \ {k} : call'[j] = call[j]
    BY <1>1, <1>2, BeginMoves
<1>4. QED
    BY <1>1, <1>2, <1>3, NewHook DEF riskVars

(* Something found in a message or a call. *)
LEMMA ObserveSeen ==
    ASSUME CallsOK, RiskOK, NEW k \in Slots, NEW a \in AccountIds,
           NEW found \in {{Keyword}, {RapidEscalation, NoReciprocity}}, Observe(k, a, found)
    PROVE  RiskOK'
<1> DEFINE rec == [op |-> "risk", pc |-> "get", signals |-> {a} \X found]
<1>1. found \subseteq SignalSet
    BY DEF SignalSet
<1>2. IsRequest(rec) /\ rec.op \in RiskOps /\ RiskCall(rec)
    BY <1>1 DEF IsRequest, RiskOps, RiskCall
<1>3. Begin("risk", k, rec) /\ UNCHANGED riskVars
    BY DEF Observe
<1> HIDE DEF rec
<1>4. /\ call[k] = Idle /\ call'[k] = rec /\ failed' = failed
      /\ \A j \in Slots \ {k} : call'[j] = call[j]
    BY <1>2, <1>3, BeginMoves
<1>5. QED
    BY <1>2, <1>3, <1>4, NewHook DEF riskVars

(* A dispute. *)
LEMMA DisputeSeen ==
    ASSUME CallsOK, RiskOK, NEW k \in Slots, NEW a \in AccountIds, RecordDispute(k, a)
    PROVE  RiskOK'
<1> DEFINE rec == [op |-> "risk", pc |-> "get", signals |-> {<<a, RepeatChargeback>>}]
<1>1. IsRequest(rec) /\ rec.op \in RiskOps /\ RiskCall(rec)
    BY DEF IsRequest, RiskOps, RiskCall, SignalSet
<1>2. /\ Begin("risk", k, rec) \/ Begin("risk", k, Idle)
      /\ UNCHANGED <<fingerprints, gifts, risk, given, crossed>>
    BY DEF RecordDispute
<1> HIDE DEF rec
<1>3. /\ call[k] = Idle /\ call'[k] \in {rec, Idle} /\ failed' = failed
      /\ \A j \in Slots \ {k} : call'[j] = call[j]
    BY <1>1, <1>2, BeginMoves, IdleFields
<1>4. call'[k].op # "risk" \/ RiskCall(call'[k])
    BY <1>1, <1>3, IdleFields
<1>5. QED
    BY <1>2, <1>3, <1>4, NewHook

(* A gift: the hook is about to look for one back. *)
LEMMA GiftSeen ==
    ASSUME CallsOK, RiskOK, NEW k \in Slots, NEW a \in AccountIds, NEW b \in AccountIds,
           SendGift(k, a, b)
    PROVE  RiskOK'
<1> DEFINE rec == [op |-> "risk", pc |-> "loop", row |-> <<a, b>>]
<1>1. IsRequest(rec) /\ rec.op \in RiskOps /\ RiskCall(rec) /\ rec.op = "risk" /\ rec.pc = "loop"
      /\ rec.row = <<a, b>>
    BY DEF IsRequest, RiskOps, RiskCall
<1>2. /\ Begin("risk", k, rec) /\ gifts' = gifts \cup {<<a, b>>}
      /\ UNCHANGED <<fingerprints, risk, given, crossed>>
    BY DEF SendGift
<1> HIDE DEF rec
<1>3. /\ call[k] = Idle /\ call'[k] = rec /\ failed' = failed
      /\ \A j \in Slots \ {k} : call'[j] = call[j]
    BY <1>1, <1>2, BeginMoves
<1>4. At(k, "risk", "loop")' /\ call'[k].row = <<a, b>>
    BY <1>1, <1>3 DEF At
<1>5. ASSUME NEW x \in AccountIds, NEW y \in AccountIds, {<<x, y>>, <<y, x>>} \subseteq gifts',
             ~({<<x, y>>, <<y, x>>} \subseteq gifts)
      PROVE  <<a, b>> \in {<<x, y>>, <<y, x>>}
    BY <1>2, <1>5
<1>6. QED
    BY <1>1, <1>2, <1>3, <1>4, <1>5, NewHook

(* A device is recorded: the hook is about to look who else is on it. *)
LEMMA DeviceRecorded ==
    ASSUME CallsOK, RiskOK, NEW k \in Slots, RecordDevice(k)
    PROVE  RiskOK'
<1>1. call[k].op = "risk" /\ call[k].pc = "record" /\ Goto(k, "cluster")
    BY DEF RecordDevice, At
<1>2. "row" \in DOMAIN call[k] /\ call[k].row \in DeviceHashes \X AccountIds
    BY <1>1 DEF RiskOK, RiskCall
<1>3. PICK rec : rec = [call[k] EXCEPT !.pc = "cluster"]
    OBVIOUS
<1>4. rec.op = "risk" /\ rec.pc = "cluster" /\ rec.row = call[k].row /\ DOMAIN rec = DOMAIN call[k]
    BY <1>1, <1>2, <1>3 DEF CallsOK, IsRequest
<1>5. /\ call'[k] = rec /\ failed' = failed
      /\ \A j \in Slots \ {k} : call'[j] = call[j]
    BY <1>1, <1>3, GotoMoves
<1>6. RiskCall(rec)
    BY <1>2, <1>4 DEF RiskCall
<1>7. ~At(k, "risk", "loop") /\ ~At(k, "risk", "cluster") /\ At(k, "risk", "cluster")'
      /\ \A a, s : ~Owes(k, a, s)
    BY <1>1, <1>4, <1>5 DEF At, Owes
<1>8. UNCHANGED <<gifts, risk, given, crossed>> /\ fingerprints' = fingerprints \cup {call[k].row}
    BY DEF RecordDevice
<1>9. ASSUME NEW d \in DeviceHashes, NEW a \in AccountIds, NEW b \in AccountIds,
             {<<d, a>>, <<d, b>>} \subseteq fingerprints', ~({<<d, a>>, <<d, b>>} \subseteq fingerprints)
      PROVE  call'[k].row[1] = d
    <2>1. call[k].row \in {<<d, a>>, <<d, b>>}
        BY <1>8, <1>9
    <2>2. QED
        BY <1>4, <1>5, <2>1
<1>10. QED
    BY <1>5, <1>6, <1>7, <1>8, <1>9, OneHook

(* A hook is to give signals, and then sees to them. *)
LEMMA Giving ==
    ASSUME CallsOK, NEW k \in Slots, call[k].op = "risk", NEW signals, Give(k, signals),
           signals \subseteq AccountIds \X SignalSet
    PROVE  /\ failed' = failed /\ \A j \in Slots \ {k} : call'[j] = call[j]
           /\ call'[k].op # "risk" \/ RiskCall(call'[k])
           /\ call'[k].pc # "upsert"
           /\ \A a, s : <<a, s>> \in signals => Owes(k, a, s)'
<1> DEFINE rec == [op |-> "risk", pc |-> "get", signals |-> signals]
<1>1. /\ IsRequest(rec) /\ rec.op = "risk" /\ rec.pc = "get" /\ RiskCall(rec)
      /\ rec.signals = signals
    BY DEF IsRequest, RiskCall
<1>2. CASE signals = {} /\ Answer(k)
    <2>1. /\ call'[k] = Idle /\ failed' = failed
          /\ \A j \in Slots \ {k} : call'[j] = call[j]
        BY <1>2, AnswerMoves DEF RiskOps
    <2>2. QED
        BY <1>2, <2>1, IdleFields
<1>3. CASE GoOn(k, rec)
    <2> HIDE DEF rec
    <2>1. {call[k].op, rec.op} \subseteq RiskOps \cup {"none"}
        BY <1>1 DEF RiskOps
    <2>2. /\ call'[k] = rec /\ failed' = failed
          /\ \A j \in Slots \ {k} : call'[j] = call[j]
        BY <1>1, <1>3, <2>1, GoOnMoves
    <2>3. QED
        BY <1>1, <2>2 DEF Owes
<1>4. QED
    BY <1>2, <1>3 DEF Give

(* A hook looks who is on the device: all of them are to get the signal. *)
LEMMA ClusterSeen ==
    ASSUME CallsOK, RiskOK, NEW k \in Slots, AccountsForDevice(k)
    PROVE  RiskOK'
<1>1. call[k].op = "risk" /\ call[k].pc = "cluster"
    BY DEF AccountsForDevice, At
<1>2. PICK cluster : cluster = {a \in AccountIds : <<call[k].row[1], a>> \in fingerprints}
    OBVIOUS
<1>3. PICK signals : signals = IF Cardinality(cluster) >= DeviceClusterMinAccounts
                               THEN cluster \X {DeviceClustering} ELSE {}
    OBVIOUS
<1>4. Give(k, signals) /\ UNCHANGED riskVars
    BY <1>2, <1>3 DEF AccountsForDevice
<1>5. signals \subseteq AccountIds \X SignalSet
    BY <1>2, <1>3 DEF SignalSet
<1>6. /\ failed' = failed /\ \A j \in Slots \ {k} : call'[j] = call[j]
      /\ call'[k].op # "risk" \/ RiskCall(call'[k])
      /\ \A a, s : <<a, s>> \in signals => Owes(k, a, s)'
    BY <1>1, <1>4, <1>5, Giving
<1>7. ~At(k, "risk", "loop") /\ \A a, s : ~Owes(k, a, s)
    BY <1>1 DEF At, Owes
<1>8. ASSUME NEW d \in DeviceHashes, NEW a \in AccountIds, NEW b \in AccountIds, a # b,
             {<<d, a>>, <<d, b>>} \subseteq fingerprints', call[k].row[1] = d
      PROVE  Seen(a, DeviceClustering)'
    <2>1. {a, b} \subseteq cluster
        BY <1>2, <1>4, <1>8 DEF riskVars
    <2>2. IsFiniteSet(cluster)
        BY <1>2, AccountsAssumption, FS_Subset
    <2>3. Cardinality({a, b}) = 2 /\ {a, b} \in SUBSET cluster
        BY <1>8, <2>1, TwoAreTwo
    <2>4. Cardinality(cluster) >= 2
        BY <2>2, <2>3, FS_Subset, FS_CardinalityType
    <2>5. <<a, DeviceClustering>> \in signals
        BY <1>3, <2>1, <2>4 DEF DeviceClusterMinAccounts
    <2>6. QED
        BY <1>6, <2>5 DEF Seen
<1>9. UNCHANGED <<risk, given, crossed, fingerprints, gifts>>
    BY <1>4 DEF riskVars
<1>10. QED
    BY <1>6, <1>7, <1>8, <1>9, OneHook

(* A hook looks for a gift back: both are to get the signal. *)
LEMMA LoopLooked ==
    ASSUME CallsOK, RiskOK, NEW k \in Slots, CheckGiftLoop(k)
    PROVE  RiskOK'
<1>1. call[k].op = "risk" /\ call[k].pc = "loop"
    BY DEF CheckGiftLoop, At
<1>2. PICK a \in AccountIds, b \in AccountIds : call[k].row = <<a, b>>
    BY <1>1 DEF RiskOK, RiskCall
<1>3. PICK signals : signals = IF <<b, a>> \in gifts THEN {a, b} \X {GiftLoop} ELSE {}
    OBVIOUS
<1>4. Give(k, signals) /\ UNCHANGED riskVars
    BY <1>2, <1>3 DEF CheckGiftLoop
<1>5. signals \subseteq AccountIds \X SignalSet
    BY <1>3 DEF SignalSet
<1>6. /\ failed' = failed /\ \A j \in Slots \ {k} : call'[j] = call[j]
      /\ call'[k].op # "risk" \/ RiskCall(call'[k])
      /\ \A x, s : <<x, s>> \in signals => Owes(k, x, s)'
    BY <1>1, <1>4, <1>5, Giving
<1>7. ~At(k, "risk", "cluster") /\ \A x, s : ~Owes(k, x, s)
    BY <1>1 DEF At, Owes
<1>8. ASSUME NEW x \in AccountIds, NEW y \in AccountIds,
             {<<x, y>>, <<y, x>>} \subseteq gifts', call[k].row \in {<<x, y>>, <<y, x>>}
      PROVE  Seen(x, GiftLoop)'
    <2>1. x \in {a, b} /\ <<b, a>> \in gifts
        BY <1>2, <1>4, <1>8 DEF riskVars
    <2>2. <<x, GiftLoop>> \in signals
        BY <1>3, <2>1
    <2>3. QED
        BY <1>6, <2>2 DEF Seen
<1>9. UNCHANGED <<risk, given, crossed, fingerprints, gifts>>
    BY <1>4 DEF riskVars
<1>10. QED
    BY <1>6, <1>7, <1>8, <1>9, OneHook

(* A profile is read: what the hook then is to store has the signal. *)
LEMMA ProfileRead ==
    ASSUME CallsOK, RiskOK, NEW k \in Slots, GetProfile(k)
    PROVE  RiskOK'
<1>1. call[k].op = "risk" /\ call[k].pc = "get"
    BY DEF GetProfile, At
<1>2. call[k].signals \subseteq AccountIds \X SignalSet
    BY <1>1 DEF RiskOK, RiskCall
<1>3. PICK s \in call[k].signals :
        GoOn(k, [op |-> "risk", pc |-> "upsert", signals |-> call[k].signals \ {s},
                 acct |-> s[1], profile |-> Scored(risk[s[1]], s[2]), delta |-> s[2].delta])
    BY DEF GetProfile
<1>4. PICK x \in AccountIds, sig \in SignalSet : s = <<x, sig>>
    BY <1>2
<1>5. PICK p : p = Scored(risk[x], sig)
    OBVIOUS
<1>6. /\ ProfileOK(p) /\ sig.delta \in Nat
      /\ p.score = risk[x].score + sig.delta
      /\ p.reasons = risk[x].reasons \cup {sig.reason}
    BY <1>5, ScoredOK DEF RiskOK, ProfilesOK
<1> DEFINE rec == [op |-> "risk", pc |-> "upsert", signals |-> call[k].signals \ {s},
                   acct |-> x, profile |-> p, delta |-> sig.delta]
<1>7. GoOn(k, rec)
    BY <1>3, <1>4, <1>5
<1>8. /\ IsRequest(rec) /\ rec.op = "risk" /\ rec.pc = "upsert" /\ rec.acct = x /\ rec.profile = p
      /\ rec.signals = call[k].signals \ {s}
    BY DEF IsRequest
<1>9. RiskCall(rec)
    BY <1>2, <1>6 DEF RiskCall
<1> HIDE DEF rec
<1>10. {call[k].op, rec.op} \subseteq RiskOps \cup {"none"}
    BY <1>1, <1>8 DEF RiskOps
<1>11. /\ call'[k] = rec /\ failed' = failed
       /\ \A j \in Slots \ {k} : call'[j] = call[j]
    BY <1>7, <1>8, <1>10, GoOnMoves
<1>12. UNCHANGED <<fingerprints, gifts, risk, given, crossed>>
    BY DEF GetProfile, riskVars
<1>13. ASSUME NEW a \in AccountIds, NEW signal \in {DeviceClustering, GiftLoop}, Owes(k, a, signal)
       PROVE  Seen(a, signal)'
    <2>1. <<a, signal>> \in call[k].signals
        BY <1>1, <1>13 DEF Owes
    <2>2. CASE <<a, signal>> = s
        <3>1. a = x /\ signal = sig
            BY <1>4, <2>2
        <3>2. QED
            BY <1>6, <1>8, <1>11, <3>1 DEF Owes, Seen
    <2>3. CASE <<a, signal>> # s
        BY <1>8, <1>11, <2>1, <2>3 DEF Owes, Seen
    <2>4. QED
        BY <2>2, <2>3
<1>14. ~At(k, "risk", "cluster") /\ ~At(k, "risk", "loop")
    BY <1>1 DEF At
<1>15. QED
    BY <1>9, <1>11, <1>12, <1>13, <1>14, OneHook

(* A profile is stored: it is the last one, or was stored over another change. *)
LEMMA ProfileStored ==
    ASSUME CallsOK, RiskOK, NEW k \in Slots, UpsertProfile(k)
    PROVE  RiskOK'
<1>1. call[k].op = "risk" /\ call[k].pc = "upsert"
    BY DEF UpsertProfile, At
<1>2. PICK a, p, delta : a = call[k].acct /\ p = call[k].profile /\ delta = call[k].delta
    OBVIOUS
<1>3. /\ call[k].signals \subseteq AccountIds \X SignalSet
      /\ a \in AccountIds /\ delta \in Nat /\ ProfileOK(p)
      /\ \/ a \in crossed
         \/ p.score = risk[a].score + delta /\ risk[a].reasons \subseteq p.reasons
    BY <1>1, <1>2 DEF RiskOK, RiskCall
<1>4. /\ risk' = [risk EXCEPT ![a] = p] /\ given' = [given EXCEPT ![a] = @ + delta]
      /\ crossed' = IF \E j \in Slots \ {k} : At(j, "risk", "upsert") /\ call[j].acct = a
                    THEN crossed \cup {a} ELSE crossed
      /\ Give(k, call[k].signals) /\ UNCHANGED <<fingerprints, gifts>>
    BY <1>2 DEF UpsertProfile
<1>5. /\ failed' = failed /\ \A j \in Slots \ {k} : call'[j] = call[j]
      /\ call'[k].op # "risk" \/ RiskCall(call'[k])
      /\ call'[k].pc # "upsert"
      /\ \A x, s : <<x, s>> \in call[k].signals => Owes(k, x, s)'
    BY <1>1, <1>3, <1>4, Giving
<1>6. ProfilesOK
    BY DEF RiskOK
<1>7. /\ risk' = [x \in AccountIds |-> risk'[x]] /\ risk'[a] = p
      /\ \A x \in AccountIds \ {a} : risk'[x] = risk[x]
    BY <1>3, <1>4, <1>6 DEF ProfilesOK
<1>8. /\ given' \in [AccountIds -> Nat] /\ given'[a] = given[a] + delta
      /\ \A x \in AccountIds \ {a} : given'[x] = given[x]
    BY <1>3, <1>4, <1>6 DEF ProfilesOK
<1>9. crossed \subseteq crossed'
    BY <1>4
<1>10. ASSUME NEW x \in AccountIds \ crossed'
       PROVE  risk'[x].score = given'[x]
    BY <1>3, <1>6, <1>7, <1>8, <1>9 DEF ProfilesOK
<1>11. ProfilesOK'
    BY <1>3, <1>6, <1>7, <1>8, <1>10 DEF ProfilesOK, ProfileOK
<1>12. ASSUME NEW j \in Slots
       PROVE  RiskCall(call[j])'
    <2>1. CASE j = k
        BY <1>5, <2>1 DEF RiskCall
    <2>2. CASE j # k
        <3>1. call'[j] = call[j] /\ RiskCall(call[j])
            BY <1>5, <2>2 DEF RiskOK
        <3>2. CASE At(j, "risk", "upsert") /\ call[j].acct = a
            <4>1. a \in crossed'
                BY <1>4, <2>2, <3>2
            <4>2. QED
                BY <3>1, <3>2, <4>1 DEF RiskCall, At
        <3>3. CASE At(j, "risk", "upsert") /\ call[j].acct # a
            <4>1. call[j].acct \in AccountIds
                BY <3>1, <3>3 DEF RiskCall, At
            <4>2. risk'[call[j].acct] = risk[call[j].acct]
                BY <1>7, <3>3, <4>1
            <4>3. QED
                BY <1>9, <3>1, <3>3, <4>2 DEF RiskCall, At
        <3>4. CASE ~At(j, "risk", "upsert")
            BY <3>1, <3>4 DEF RiskCall, At
        <3>5. QED
            BY <3>2, <3>3, <3>4
    <2>3. QED
        BY <2>1, <2>2
<1>13. ASSUME NEW x \in AccountIds, NEW signal, Seen(x, signal)
       PROVE  Seen(x, signal)'
    <2>1. risk[x].reasons \subseteq risk'[x].reasons \/ x \in crossed'
        BY <1>3, <1>7, <1>9
    <2>2. ASSUME Owes(k, x, signal)
          PROVE  Seen(x, signal)'
        <3>1. CASE <<x, signal>> \in call[k].signals
            BY <1>5, <3>1 DEF Seen
        <3>2. CASE a = x /\ signal.reason \in p.reasons
            BY <1>7, <3>2 DEF Seen
        <3>3. QED
            BY <1>2, <2>2, <3>1, <3>2 DEF Owes
    <2>3. QED
        BY <1>5, <1>9, <1>13, <2>1, <2>2, SeenStays
<1>14. ASSUME ConductSeen
       PROVE  ConductSeen'
    <2>1. ASSUME NEW j \in Slots, NEW pc \in {"cluster", "loop"}, At(j, "risk", pc)
          PROVE  At(j, "risk", pc)' /\ call'[j] = call[j]
        <3>1. j # k
            BY <1>1, <2>1 DEF At
        <3>2. QED
            BY <1>5, <2>1, <3>1 DEF At
    <2>2. ASSUME NEW x \in AccountIds, NEW y \in AccountIds, x # y
          PROVE  LoopSeen(x, y)'
        <3>1. LoopSeen(x, y)
            BY <1>14, <2>2 DEF ConductSeen
        <3>2. QED
            BY <1>4, <1>13, <2>1, <3>1 DEF LoopSeen
    <2>3. ASSUME NEW x \in AccountIds, NEW y \in AccountIds, x # y, NEW d \in DeviceHashes
          PROVE  DeviceSeen(d, x, y)'
        <3>1. DeviceSeen(d, x, y)
            BY <1>14, <2>3 DEF ConductSeen
        <3>2. QED
            BY <1>4, <1>13, <2>1, <3>1 DEF DeviceSeen
    <2>4. QED
        BY <2>2, <2>3 DEF ConductSeen
<1>15. QED
    BY <1>5, <1>11, <1>12, <1>14 DEF RiskOK

(* The risk hooks see to what they find. *)
LEMMA RiskKeeps ==
    ASSUME CallsOK, RiskOK, RiskNext
    PROVE  RiskOK'
BY DeviceLoginSeen, ObserveSeen, DisputeSeen, GiftSeen, DeviceRecorded, ClusterSeen, LoopLooked,
   ProfileRead, ProfileStored DEF RiskNext

(* No step of any service does less. *)
LEMMA RiskStep ==
    ASSUME CallsOK, RiskOK, [Next]_vars
    PROVE  RiskOK'
<1>1. CASE UNCHANGED riskVars /\ Spares(RiskOps)
    <2>1. UNCHANGED <<fingerprints, gifts, risk, given, crossed>>
        BY <1>1 DEF riskVars
    <2>2. \A k \in Slots : call'[k] = call[k] \/ call'[k].op # "risk"
        BY <1>1, IdleFields DEF Spares, RiskOps
    <2>3. (\A k \in Slots : RiskCall(call[k]))'
        BY <2>1, <2>2, RiskCallsStay
    <2>4. ProfilesOK'
        BY <2>1 DEF RiskOK, ProfilesOK, ProfileOK
    <2>5. ASSUME failed' = 0 PROVE ConductSeen'
        <3>1. failed = 0 /\ failed' = failed
            BY <1>1, <2>5 DEF Spares, CallsOK
        <3>2. \A k \in Slots : call[k].op = "risk" => call'[k] = call[k]
            BY <1>1, <3>1 DEF Spares, RiskOps
        <3>3. ASSUME NEW a \in AccountIds, NEW signal, Seen(a, signal)
              PROVE  Seen(a, signal)'
            BY <2>1, <3>2, <3>3 DEF Seen, Owes
        <3>4. ASSUME NEW a \in AccountIds, NEW b \in AccountIds, a # b
              PROVE  LoopSeen(a, b)'
            <4>1. LoopSeen(a, b)
                BY <3>1, <3>4 DEF RiskOK, ConductSeen
            <4>2. QED
                BY <2>1, <3>2, <3>3, <4>1 DEF LoopSeen, At
        <3>5. ASSUME NEW a \in AccountIds, NEW b \in AccountIds, a # b, NEW d \in DeviceHashes
              PROVE  DeviceSeen(d, a, b)'
            <4>1. DeviceSeen(d, a, b)
                BY <3>1, <3>5 DEF RiskOK, ConductSeen
            <4>2. QED
                BY <2>1, <3>2, <3>3, <4>1 DEF DeviceSeen, At
        <3>6. QED
            BY <3>4, <3>5 DEF ConductSeen
    <2>6. QED
        BY <2>3, <2>4, <2>5 DEF RiskOK
<1>2. QED
    BY <1>1, RiskKeeps, RiskFrame

(* At first nobody did anything. *)
LEMMA RiskInitially ==
    ASSUME Init
    PROVE  RiskOK
<1>1. /\ call = [k \in Slots |-> Idle] /\ fingerprints = {} /\ gifts = {}
      /\ risk = [a \in AccountIds |-> [score |-> 0, reasons |-> {}, status |-> "none"]]
      /\ given = [a \in AccountIds |-> 0]
    BY DEF Init, CallsInit, RiskInit
<1>2. \A k \in Slots : RiskCall(call[k])
    BY <1>1, IdleFields DEF RiskCall
<1>3. \A a \in AccountIds : risk[a] = [score |-> 0, reasons |-> {}, status |-> "none"]
    BY <1>1
<1>4. risk = [a \in AccountIds |-> risk[a]]
    BY <1>1
<1>5. ProfilesOK
    BY <1>1, <1>3, <1>4 DEF ProfilesOK, ProfileOK, RiskManualReviewThreshold, RiskWatchThreshold
<1>6. ConductSeen
    BY <1>1 DEF ConductSeen, LoopSeen, DeviceSeen
<1>7. QED
    BY <1>2, <1>5, <1>6 DEF RiskOK

(* Accounts that share a device, or that gave each other gifts, have the signal on their
   profiles once no hook is at work, in whichever order logins, gifts and hooks were
   interleaved (fraudsvc AccountsForDevice and the gift loop, modsvc addSignal): of two
   requests the one that looks last finds what both recorded, and until then a hook is
   about to look or owes the signal. *)
THEOREM ConductIsSeen == Spec => []SharedConductIsSeen
<1>1. Init => CallsOK /\ RiskOK
    BY InitCalls, RiskInitially
<1>2. CallsOK /\ RiskOK /\ [Next]_vars => (CallsOK /\ RiskOK)'
    BY ApartFrame, RiskStep
<1>3. ASSUME RiskOK PROVE SharedConductIsSeen
    <2>1. ProfilesOK
        BY <1>3 DEF RiskOK
    <2>2. ASSUME ~Hooked, failed = 0, NEW a \in AccountIds \ crossed, NEW b \in AccountIds \ {a}
          PROVE  /\ (\E d \in DeviceHashes : {<<d, a>>, <<d, b>>} \subseteq fingerprints)
                     => "device_clustering" \in risk[a].reasons
                 /\ {<<a, b>>, <<b, a>>} \subseteq gifts => "gift_loop" \in risk[a].reasons
        <3>1. LoopSeen(a, b) /\ \A d \in DeviceHashes : DeviceSeen(d, a, b)
            BY <1>3, <2>2 DEF RiskOK, ConductSeen
        <3>2. \A signal : Seen(a, signal) => signal.reason \in risk[a].reasons
            BY <2>2 DEF Seen, Owes, Hooked
        <3>3. \A k \in Slots : ~At(k, "risk", "loop") /\ ~At(k, "risk", "cluster")
            BY <2>2 DEF At, Hooked
        <3>4. DeviceClustering.reason = "device_clustering" /\ GiftLoop.reason = "gift_loop"
            BY DEF DeviceClustering, GiftLoop
        <3>5. QED
            BY <3>1, <3>2, <3>3, <3>4 DEF LoopSeen, DeviceSeen
    <2>3. QED
        BY <2>1, <2>2 DEF SharedConductIsSeen, ProfilesOK, ProfileOK
<1>4. QED
    BY <1>1, <1>2, <1>3, PTL DEF Spec

-----------------------------------------------------------------------------
(* Premium rooms and referrals *)

Chosen(s) == CHOOSE x \in s : TRUE
Others(s) == s \ {Chosen(s)}

(* h has the sums of f over every part of S, as the ledger's fold runs. *)
AddsUp(h, f, S) ==
    h = [s \in SUBSET S |-> IF s = {} THEN 0 ELSE f[Chosen(s)] + h[Others(s)]]

(* A sum is the entry of its own set. *)
LEMMA SumIs ==
    ASSUME NEW f, NEW S, \E h : AddsUp(h, f, S)
    PROVE  \E h : AddsUp(h, f, S) /\ M!SumFunctionOnSet(f, S) = h[S]
<1> DEFINE g == CHOOSE g : g = [s \in SUBSET S |->
                   IF s = {} THEN 0
                   ELSE f[CHOOSE x \in s : TRUE] + g[s \ {CHOOSE x \in s : TRUE}]]
<1>1. M!SumFunctionOnSet(f, S) = g[S]
    BY DEF M!SumFunctionOnSet, M!FoldFunctionOnSet, M!MapThenFoldSet
<1>2. g = CHOOSE h : AddsUp(h, f, S)
    BY DEF AddsUp, Chosen, Others
<1> HIDE DEF g
<1>3. AddsUp(g, f, S)
    BY <1>2
<1>4. QED
    BY <1>1, <1>3

(* Nothing adds up to nothing. *)
LEMMA NothingAdds == ASSUME NEW f PROVE M!SumFunctionOnSet(f, {}) = 0
<1> DEFINE h == [s \in {{}} |-> 0]
<1>1. AddsUp(h, f, {})
    BY DEF AddsUp
<1> HIDE DEF h
<1>2. PICK g : AddsUp(g, f, {}) /\ M!SumFunctionOnSet(f, {}) = g[{}]
    BY <1>1, SumIs
<1>3. QED
    BY <1>2 DEF AddsUp

(* The sum of two entries. *)
LEMMA TwoAdd ==
    ASSUME NEW f, NEW x, NEW y, x # y, f[x] \in Int, f[y] \in Int
    PROVE  M!SumFunctionOnSet(f, {x, y}) = f[x] + f[y]
<1>1. SUBSET {x, y} = {{}, {x}, {y}, {x, y}}
    OBVIOUS
<1>2. Chosen({x}) = x /\ Chosen({y}) = y /\ Chosen({x, y}) \in {x, y}
    BY DEF Chosen
<1>3. /\ Others({x}) = {} /\ Others({y}) = {}
      /\ Chosen({x, y}) = x => Others({x, y}) = {y}
      /\ Chosen({x, y}) = y => Others({x, y}) = {x}
    BY <1>2 DEF Others
<1> DEFINE h == [s \in SUBSET {x, y} |-> IF s = {} THEN 0 ELSE IF s = {x} THEN f[x] + 0
                                         ELSE IF s = {y} THEN f[y] + 0
                                         ELSE IF Chosen({x, y}) = x THEN f[x] + (f[y] + 0)
                                         ELSE f[y] + (f[x] + 0)]
<1>4. /\ h[{}] = 0 /\ h[{x}] = f[x] + 0 /\ h[{y}] = f[y] + 0
      /\ h[{x, y}] = IF Chosen({x, y}) = x THEN f[x] + (f[y] + 0) ELSE f[y] + (f[x] + 0)
    <2>1. {x} # {} /\ {y} # {} /\ {x, y} # {} /\ {y} # {x} /\ {x, y} # {x} /\ {x, y} # {y}
        OBVIOUS
    <2>2. {} \in SUBSET {x, y} /\ {x} \in SUBSET {x, y} /\ {y} \in SUBSET {x, y}
          /\ {x, y} \in SUBSET {x, y}
        OBVIOUS
    <2>3. QED
        BY <2>1, <2>2
<1>5. h = [s \in SUBSET {x, y} |-> h[s]]
    OBVIOUS
<1> HIDE DEF h
<1>6. \A s \in SUBSET {x, y} : h[s] = IF s = {} THEN 0 ELSE f[Chosen(s)] + h[Others(s)]
    <2>1. h[{x}] = f[Chosen({x})] + h[Others({x})] /\ h[{y}] = f[Chosen({y})] + h[Others({y})]
        BY <1>2, <1>3, <1>4
    <2>2. CASE Chosen({x, y}) = x
        <3>1. h[{x, y}] = f[Chosen({x, y})] + h[Others({x, y})]
            BY <1>3, <1>4, <2>2
        <3>2. QED
            BY <1>1, <1>4, <2>1, <3>1
    <2>3. CASE Chosen({x, y}) = y
        <3>1. h[{x, y}] = f[Chosen({x, y})] + h[Others({x, y})]
            BY <1>3, <1>4, <2>3
        <3>2. QED
            BY <1>1, <1>4, <2>1, <3>1
    <2>4. QED
        BY <1>2, <2>2, <2>3
<1>7. AddsUp(h, f, {x, y})
    BY <1>5, <1>6 DEF AddsUp
<1>8. PICK g : AddsUp(g, f, {x, y}) /\ M!SumFunctionOnSet(f, {x, y}) = g[{x, y}]
    BY <1>7, SumIs
<1>9. /\ g[{}] = 0 /\ g[{x}] = f[x] + g[{}] /\ g[{y}] = f[y] + g[{}]
      /\ g[{x, y}] = f[Chosen({x, y})] + g[Others({x, y})]
    BY <1>1, <1>2, <1>3, <1>8 DEF AddsUp
<1>10. PICK m \in Int, n \in Int : m = f[x] /\ n = f[y]
    OBVIOUS
<1>11. g[{x}] = m /\ g[{y}] = n
    BY <1>9, <1>10
<1>12. g[{x, y}] \in {m + n, n + m}
    <2>1. CASE Chosen({x, y}) = x
        BY <1>3, <1>9, <1>10, <1>11, <2>1
    <2>2. CASE Chosen({x, y}) = y
        BY <1>3, <1>9, <1>10, <1>11, <2>2
    <2>3. QED
        BY <1>2, <2>1, <2>2
<1>13. QED
    BY <1>8, <1>10, <1>12

(* Accounts of different kinds are different. *)
LEMMA WalletsApart ==
    /\ \A u, v : /\ M!Coins(u) # M!Diamonds(v)
                 /\ M!Coins(u) = M!Coins(v) => u = v
                 /\ M!Coins(u) \notin M!PlatformAccounts /\ M!Diamonds(u) \notin M!PlatformAccounts
    /\ M!Wallets \cap M!PlatformAccounts = {}
    /\ M!Wallets \subseteq M!Accounts /\ M!Accounts \ M!PlatformAccounts \subseteq M!Wallets
<1>1. \A u, v : /\ M!Coins(u) # M!Diamonds(v)
                /\ M!Coins(u) = M!Coins(v) => u = v
                /\ M!Coins(u) \notin M!PlatformAccounts /\ M!Diamonds(u) \notin M!PlatformAccounts
    BY DEF M!Coins, M!Diamonds, M!PlatformAccounts, M!Revenue, M!Liability, M!DiamondLiability
<1>2. QED
    BY <1>1 DEF M!Wallets, M!Accounts

(* The keys of unlocks and of referrals are told apart. *)
LEMMA KeysApart ==
    /\ \A a, b, c : UnlockKey(a, c) # ReferralKey(b)
    /\ \A a, b, c, d : UnlockKey(a, c) = UnlockKey(b, d) => a = b
    /\ \A a, b : ReferralKey(a) = ReferralKey(b) => a = b
<1>1. ASSUME NEW a, NEW b, NEW c PROVE UnlockKey(a, c) # ReferralKey(b)
    <2>1. UnlockKey(a, c)[1] # ReferralKey(b)[1]
        BY DEF UnlockKey, ReferralKey
    <2>2. QED
        BY <2>1
<1>2. QED
    BY <1>1 DEF UnlockKey, ReferralKey

(* The ledger's wallets are not overdrawn, and its keys are those of their transactions. *)
LedgerSolid ==
    /\ ledger.seq \in Nat
    /\ \A w \in M!Wallets : ledger.balances[w] \in Nat
    /\ ledger.byKey = [key \in LedgerKeys |-> ledger.byKey[key]]
    /\ \A key \in LedgerKeys : ledger.byKey[key] \in 0..ledger.seq

(* The ledger has one transaction more. *)
Posted(L, kind, key, e) ==
    /\ L.seq = ledger.seq + 1
    /\ L.byKey = [ledger.byKey EXCEPT ![key] = ledger.seq + 1]
    /\ L.byID = [i \in 1..(ledger.seq + 1) |->
                    IF i = ledger.seq + 1 THEN [kind |-> kind, key |-> key, entries |-> e, of |-> 0]
                    ELSE ledger.byID[i]]
    /\ \A w \in M!Wallets : L.balances[w] \in Nat

(* A post changes nothing, or adds the transaction under a key that is new. *)
LEMMA PostIs ==
    ASSUME LedgerSolid, NEW kind, NEW key \in LedgerKeys, NEW e,
           \A w \in M!Wallets \cap DOMAIN e : e[w] \in Int,
           NEW r, r = M!Post(ledger, kind, key, e)
    PROVE  /\ \/ r.ledger = ledger /\ (r.err = "nil" => ledger.byKey[key] # 0)
              \/ r.err = "nil" /\ ledger.byKey[key] = 0 /\ Posted(r.ledger, kind, key, e)
           /\ ledger.byKey[key] = 0 /\ M!PostError(ledger, e) = "nil"
                => Posted(r.ledger, kind, key, e)
<1> DEFINE L == M!Applied(ledger, kind, key, e, 0)
<1>1. CASE ledger.byKey[key] # 0
    <2>1. r.ledger = ledger
        BY <1>1 DEF M!Post, M!PostLocked, M!Reply
    <2>2. QED
        BY <1>1, <2>1
<1>2. CASE ledger.byKey[key] = 0 /\ M!PostError(ledger, e) # "nil"
    <2>1. r.ledger = ledger /\ r.err = M!PostError(ledger, e)
        BY <1>2 DEF M!Post, M!PostLocked, M!Reply
    <2>2. QED
        BY <1>2, <2>1
<1>3. CASE ledger.byKey[key] = 0 /\ M!PostError(ledger, e) = "nil"
    <2>1. r.ledger = L /\ r.err = "nil"
        BY <1>3 DEF M!Post, M!PostLocked, M!Reply
    <2>2. M!Covered(ledger, e)
        BY <1>3 DEF M!PostError
    <2>3. ASSUME NEW w \in M!Wallets PROVE L.balances[w] \in Nat
        <3>1. w \in M!Accounts /\ w \notin M!PlatformAccounts
            BY WalletsApart
        <3>2. L.balances[w] = ledger.balances[w] + (IF w \in DOMAIN e THEN e[w] ELSE 0)
            BY <3>1 DEF M!Applied, M!Proposed
        <3>3. PICK n \in Nat : n = ledger.balances[w]
            BY DEF LedgerSolid
        <3>4. CASE w \in DOMAIN e
            <4>1. PICK m \in Int : m = e[w]
                BY <3>4
            <4>2. n + m >= 0
                BY <2>2, <3>1, <3>3, <3>4, <4>1 DEF M!Covered
            <4>3. L.balances[w] = n + m
                BY <3>2, <3>3, <3>4, <4>1
            <4>4. QED
                BY <4>2, <4>3
        <3>5. CASE w \notin DOMAIN e
            BY <3>2, <3>3, <3>5
        <3>6. QED
            BY <3>4, <3>5
    <2>4. /\ L.seq = ledger.seq + 1
          /\ L.byKey = [ledger.byKey EXCEPT ![key] = ledger.seq + 1]
          /\ L.byID = [i \in 1..(ledger.seq + 1) |->
                    IF i = ledger.seq + 1 THEN [kind |-> kind, key |-> key, entries |-> e, of |-> 0]
                    ELSE ledger.byID[i]]
        BY DEF M!Applied
    <2>5. QED
        BY <1>3, <2>1, <2>3, <2>4 DEF Posted
<1>4. QED
    BY <1>1, <1>2, <1>3

(* What a spend takes and gives: of the wallets, the payer's coins and the host's diamonds. *)
LEMMA SpendIs ==
    ASSUME NEW a, NEW h, NEW price \in Nat, NEW e, e = M!SpendEntries(a, h, price)
    PROVE  /\ \A w \in M!Wallets \cap DOMAIN e : e[w] \in Int
           /\ \A u : M!Coins(u) \in DOMAIN e <=> u = a
<1>1. DOMAIN e = {M!Coins(a), M!Revenue, M!Liability, M!Diamonds(h), M!DiamondLiability}
    BY DEF M!SpendEntries
<1>2. \A u : M!Coins(u) \in DOMAIN e <=> u = a
    BY <1>1, WalletsApart DEF M!PlatformAccounts
<1>3. M!CreatorDiamonds(price) \in Int
    <2>1. M!PlatformShare(price) \in Int
        BY DEF M!PlatformShare, M!PlatformTakeBPS
    <2> DEFINE n == (price - M!PlatformShare(price)) * M!DiamondsPerThousandCoins
    <2>2. n \in Int
        BY <2>1 DEF M!DiamondsPerThousandCoins
    <2> HIDE DEF n
    <2>3. n \div 1000 \in Int
        BY <2>2
    <2>4. QED
        BY <2>3 DEF M!CreatorDiamonds, n
<1>4. \A w \in M!Wallets \cap DOMAIN e : w \in {M!Coins(a), M!Diamonds(h)}
    BY <1>1, WalletsApart DEF M!PlatformAccounts
<1>5. M!Coins(a) # M!Diamonds(h) /\ M!Coins(a) \notin M!PlatformAccounts
      /\ M!Diamonds(h) \notin M!PlatformAccounts
    BY WalletsApart
<1>6. e[M!Coins(a)] = - price /\ e[M!Diamonds(h)] = M!CreatorDiamonds(price)
    BY <1>1, <1>5 DEF M!SpendEntries, M!PlatformAccounts
<1>7. QED
    BY <1>2, <1>3, <1>4, <1>6

(* A credit of coins is never refused. *)
LEMMA CreditIs ==
    ASSUME LedgerSolid, NEW u \in AccountIds, NEW e, e = M!CreditEntries(u, RewardCoins)
    PROVE  /\ \A w \in M!Wallets \cap DOMAIN e : e[w] \in Int
           /\ M!PostError(ledger, e) = "nil"
<1>1. DOMAIN e = {M!Coins(u), M!Liability} /\ M!Coins(u) # M!Liability
    BY WalletsApart DEF M!CreditEntries, M!PlatformAccounts
<1>2. e[M!Coins(u)] = RewardCoins /\ e[M!Liability] = - RewardCoins
    BY <1>1 DEF M!CreditEntries
<1>3. M!Coins(u) \in M!Wallets
    BY DEF M!Wallets
<1>4. M!SumOver(e, M!CoinAccounts) = 0
    <2>1. DOMAIN e \cap M!CoinAccounts = {M!Coins(u), M!Liability}
        BY <1>1 DEF M!CoinAccounts
    <2>2. PICK c, l : c = M!Coins(u) /\ l = M!Liability
        OBVIOUS
    <2>3. M!SumFunctionOnSet(e, {c, l}) = e[c] + e[l]
        BY <1>1, <1>2, <2>2, PremiumAssumption, TwoAdd
    <2>4. e[c] + e[l] = 0
        BY <1>2, <2>2, PremiumAssumption
    <2>5. QED
        BY <2>1, <2>2, <2>3, <2>4 DEF M!SumOver
<1>5. M!SumOver(e, M!DiamondAccounts) = 0
    <2>1. M!Liability \notin M!DiamondAccounts /\ M!Coins(u) \notin M!DiamondAccounts
        BY DEF M!DiamondAccounts, M!Liability, M!DiamondLiability, M!Coins, M!Diamonds
    <2>2. DOMAIN e \cap M!DiamondAccounts = {}
        BY <1>1, <2>1
    <2>3. QED
        BY <2>2, NothingAdds DEF M!SumOver
<1>6. M!Covered(ledger, e)
    <2>1. \A w \in DOMAIN e \ M!PlatformAccounts : w = M!Coins(u)
        BY <1>1 DEF M!PlatformAccounts
    <2>2. ledger.balances[M!Coins(u)] \in Nat
        BY <1>3 DEF LedgerSolid
    <2>3. ledger.balances[M!Coins(u)] + e[M!Coins(u)] >= 0
        BY <1>2, <2>2, PremiumAssumption
    <2>4. QED
        BY <2>1, <2>3 DEF M!Covered
<1>7. DOMAIN e # {}
    BY <1>1
<1>8. M!PostError(ledger, e) = "nil"
    BY <1>4, <1>5, <1>6, <1>7 DEF M!PostError, M!Balanced
<1>9. \A w \in M!Wallets \cap DOMAIN e : e[w] \in Int
    <2>1. M!Liability \notin M!Wallets
        BY WalletsApart DEF M!PlatformAccounts
    <2>2. QED
        BY <1>1, <1>2, <2>1, PremiumAssumption
<1>10. QED
    BY <1>8, <1>9

(* Only premium rooms and referrals post to this ledger. *)
LEMMA PremiumFrame ==
    ASSUME CallsOK, [Next]_vars
    PROVE  CallsOK' /\ (PremiumNext \/ (UNCHANGED premiumVars /\ Spares(PremiumOps)))
<1>1. PremiumOps \subseteq MoneyOps /\ LimitOps \cap PremiumOps = {} /\ "none" \notin PremiumOps
    BY DEF PremiumOps, MoneyOps, LimitOps
<1>2. ASSUME UNCHANGED moneyVars, Spares(MoneyOps)
      PROVE  UNCHANGED premiumVars /\ Spares(PremiumOps)
    BY <1>1, <1>2 DEF Spares, moneyVars
<1>3. CASE UNCHANGED vars /\ Moves({})
    <2>1. UNCHANGED moneyVars
        BY <1>3 DEF vars, moneyVars
    <2>2. QED
        BY <1>2, <1>3, <2>1, StepMoves, GroupsSpared
<1>4. CASE MoneyNext
    BY <1>1, <1>4, LimitsMoves, PurchasesMoves, StepMoves, OthersSpared DEF MoneyNext
<1>5. QED
    BY <1>2, <1>3, <1>4, StepMoves, GroupsSpared DEF ContactNext, StandingNext, ApartNext, CutShort

(* A request for an unlock knows whose it is; one that is to record it has charged for it. *)
UnlockCall(r) ==
    r.op = "unlock" =>
        /\ {"by", "key", "price"} \subseteq DOMAIN r
        /\ r.by \in AccountIds /\ r.price \in Nat
        /\ \E c \in ClientKeys : r.key = UnlockKey(r.by, c)
        /\ r.pc = "record" => Charged(r.by)

UnlocksOK ==
    /\ \A k \in Slots : UnlockCall(call[k])
    /\ \A a \in AccountIds, c \in ClientKeys : ledger.byKey[UnlockKey(a, c)] # 0 => Charged(a)
    /\ unlocks \subseteq AccountIds /\ \A a \in unlocks : Charged(a)
    /\ failed = 0 => \A a \in AccountIds : Charged(a) =>
        a \in unlocks \/ \E k \in Slots : At(k, "unlock", "record") /\ call[k].by = a

(* A request for a reward has the one claim of its account; the ledger has nothing for it
   before it credits the referrer, and has that credit when it is to record it. *)
ClaimCall(r) ==
    r.op = "claim" =>
        /\ {"by", "for"} \subseteq DOMAIN r /\ r.pc \in {"credit", "record"}
        /\ r.by \in AccountIds /\ r.for \in AccountIds /\ r.by \in claims
        /\ r.pc = "credit" => ledger.byKey[ReferralKey(r.by)] = 0
        /\ r.pc = "record" => Credited(r.for, r.by)
        /\ \A i \in DOMAIN rewards : rewards[i].referred # r.by

OneClaimEach ==
    \A j, k \in Slots : call[j].op = "claim" /\ call[k].op = "claim" /\ call[j].by = call[k].by => j = k

ClaimsOK ==
    /\ \A k \in Slots : ClaimCall(call[k])
    /\ OneClaimEach
    /\ \A a \in AccountIds : ledger.byKey[ReferralKey(a)] # 0 => a \in claims
    /\ rewards \in Seq([referrer : AccountIds, referred : AccountIds])
    /\ \A i \in DOMAIN rewards :
        rewards[i].referred \in claims /\ Credited(rewards[i].referrer, rewards[i].referred)
    /\ \A i, j \in DOMAIN rewards : rewards[i].referred = rewards[j].referred => i = j
    /\ failed = 0 => \A a \in claims :
        \/ \E i \in DOMAIN rewards : rewards[i].referred = a
        \/ \E k \in Slots : call[k].op = "claim" /\ call[k].by = a

PremiumOK ==
    /\ LedgerSolid /\ room \in [host : AccountIds, price : Nat]
    /\ UnlocksOK /\ ClaimsOK

(* A post adds its transaction to those there are. *)
LEMMA TxsGrow ==
    ASSUME LedgerSolid, NEW kind, NEW key \in LedgerKeys, NEW e, Posted(ledger', kind, key, e)
    PROVE  /\ LedgerSolid' /\ ledger'.byKey[key] # 0
           /\ \A q \in LedgerKeys \ {key} : ledger'.byKey[q] = ledger.byKey[q]
           /\ Txs' = Txs \cup {[kind |-> kind, key |-> key, entries |-> e, of |-> 0]}
<1> DEFINE tx == [kind |-> kind, key |-> key, entries |-> e, of |-> 0]
<1>1. PICK n \in Nat : n = ledger.seq
    BY DEF LedgerSolid
<1>2. /\ ledger'.seq = n + 1 /\ ledger'.byKey = [ledger.byKey EXCEPT ![key] = n + 1]
      /\ ledger'.byID = [i \in 1..(n + 1) |-> IF i = n + 1 THEN tx ELSE ledger.byID[i]]
      /\ \A w \in M!Wallets : ledger'.balances[w] \in Nat
    BY <1>1 DEF Posted
<1> HIDE DEF tx
<1>3. /\ ledger'.byKey = [q \in LedgerKeys |-> ledger'.byKey[q]] /\ ledger'.byKey[key] = n + 1
      /\ \A q \in LedgerKeys \ {key} : ledger'.byKey[q] = ledger.byKey[q]
    BY <1>2 DEF LedgerSolid
<1>4. \A q \in LedgerKeys : ledger'.byKey[q] \in 0..(n + 1)
    BY <1>1, <1>3 DEF LedgerSolid
<1>5. LedgerSolid'
    <2>1. LedgerKeys' = LedgerKeys /\ (M!Wallets)' = M!Wallets
        BY DEF LedgerKeys, UnlockKey, ReferralKey, M!Wallets, M!Coins, M!Diamonds
    <2>2. QED
        BY <1>2, <1>3, <1>4, <2>1 DEF LedgerSolid
<1>6. ledger'.byID[n + 1] = tx /\ \A i \in 1..n : ledger'.byID[i] = ledger.byID[i]
    BY <1>2
<1>7. 1..(n + 1) = (1..n) \cup {n + 1}
    OBVIOUS
<1>8. Txs = {ledger.byID[i] : i \in 1..n} /\ Txs' = {ledger'.byID[i] : i \in 1..(n + 1)}
    BY <1>1, <1>2 DEF Txs
<1>9. Txs' = Txs \cup {tx}
    BY <1>6, <1>7, <1>8
<1>10. QED
    BY <1>3, <1>5, <1>9 DEF tx

(* Steps of others keep what is known of unlocks, also when they post. *)
LEMMA UnlocksStay ==
    ASSUME UnlocksOK, Spares({"unlock"}), failed \in Nat, unlocks' = unlocks,
           \A a \in AccountIds : Charged(a)' <=> Charged(a),
           \A a \in AccountIds, c \in ClientKeys :
                ledger'.byKey[UnlockKey(a, c)] = ledger.byKey[UnlockKey(a, c)]
    PROVE  UnlocksOK'
<1>1. ASSUME NEW k \in Slots PROVE UnlockCall(call[k])'
    <2>1. CASE call'[k] = call[k]
        BY <2>1 DEF UnlocksOK, UnlockCall
    <2>2. CASE call'[k] # call[k]
        <3>1. call'[k].op # "unlock"
            BY <2>2, IdleFields DEF Spares
        <3>2. QED
            BY <3>1 DEF UnlockCall
    <2>3. QED
        BY <2>1, <2>2
<1>2. ASSUME failed' = 0, NEW a \in AccountIds, Charged(a)'
      PROVE  a \in unlocks' \/ \E k \in Slots : At(k, "unlock", "record")' /\ call'[k].by = a
    <2>1. failed = 0 /\ failed' = failed
        BY <1>2 DEF Spares
    <2>2. a \in unlocks \/ \E k \in Slots : At(k, "unlock", "record") /\ call[k].by = a
        BY <1>2, <2>1 DEF UnlocksOK
    <2>3. QED
        BY <2>1, <2>2 DEF Spares, At
<1>3. QED
    BY <1>1, <1>2 DEF UnlocksOK, At

(* Steps of others keep what is known of claims, also when they post. *)
LEMMA ClaimsStay ==
    ASSUME ClaimsOK, Spares({"claim"}), failed \in Nat, UNCHANGED <<claims, rewards>>,
           \A a \in AccountIds, b \in AccountIds : Credited(a, b) => Credited(a, b)',
           \A a \in AccountIds : ledger'.byKey[ReferralKey(a)] = ledger.byKey[ReferralKey(a)]
    PROVE  ClaimsOK'
<1>1. \A k \in Slots : call'[k] = call[k] \/ call'[k].op # "claim"
    BY IdleFields DEF Spares
<1>2. ASSUME NEW k \in Slots PROVE ClaimCall(call[k])'
    <2>1. CASE call'[k] = call[k]
        BY <2>1 DEF ClaimsOK, ClaimCall
    <2>2. CASE call'[k].op # "claim"
        BY <2>2 DEF ClaimCall
    <2>3. QED
        BY <1>1, <2>1, <2>2
<1>3. OneClaimEach'
    BY <1>1 DEF ClaimsOK, OneClaimEach
<1>4. ASSUME failed' = 0, NEW a \in claims'
      PROVE  \/ \E i \in DOMAIN rewards' : rewards'[i].referred = a
             \/ \E k \in Slots : call'[k].op = "claim" /\ call'[k].by = a
    <2>1. failed = 0 /\ failed' = failed
        BY <1>4 DEF Spares
    <2>2. \/ \E i \in DOMAIN rewards : rewards[i].referred = a
          \/ \E k \in Slots : call[k].op = "claim" /\ call[k].by = a
        BY <1>4, <2>1 DEF ClaimsOK
    <2>3. QED
        BY <2>1, <2>2 DEF Spares
<1>5. \A i \in DOMAIN rewards : rewards[i].referrer \in AccountIds /\ rewards[i].referred \in AccountIds
    <2>1. \A i \in DOMAIN rewards : rewards[i] \in [referrer : AccountIds, referred : AccountIds]
        BY RowsTyped DEF ClaimsOK
    <2>2. QED
        BY <2>1
<1>6. \A i \in DOMAIN rewards' :
        rewards'[i].referred \in claims' /\ Credited(rewards[i].referrer, rewards[i].referred)'
    BY <1>5 DEF ClaimsOK
<1>7. QED
    BY <1>2, <1>3, <1>4, <1>6 DEF ClaimsOK

(* What a step of one request for an unlock has to show. *)
LEMMA OneUnlock ==
    ASSUME UnlocksOK, NEW k \in Slots, \A j \in Slots \ {k} : call'[j] = call[j], failed' = failed,
           UnlockCall(call[k])', \A a \in AccountIds : Charged(a) => Charged(a)',
           \A a \in AccountIds : Charged(a)' =>
                Charged(a) \/ (At(k, "unlock", "record")' /\ call'[k].by = a),
           \A a \in AccountIds, c \in ClientKeys : ledger'.byKey[UnlockKey(a, c)] # 0 =>
                ledger.byKey[UnlockKey(a, c)] # 0 \/ Charged(a)',
           At(k, "unlock", "record") => call[k].by \in unlocks',
           unlocks \subseteq unlocks', unlocks' \subseteq AccountIds,
           \A a \in unlocks' \ unlocks : Charged(a)'
    PROVE  UnlocksOK'
<1>1. ASSUME NEW j \in Slots PROVE UnlockCall(call[j])'
    <2>1. CASE j # k
        <3>1. call'[j] = call[j] /\ UnlockCall(call[j])
            BY <2>1 DEF UnlocksOK
        <3>2. QED
            BY <3>1 DEF UnlockCall
    <2>2. QED
        BY <2>1
<1>2. ASSUME failed = 0, NEW a \in AccountIds, Charged(a)'
      PROVE  a \in unlocks' \/ \E j \in Slots : At(j, "unlock", "record")' /\ call'[j].by = a
    <2>1. CASE Charged(a)
        <3>1. a \in unlocks \/ \E j \in Slots : At(j, "unlock", "record") /\ call[j].by = a
            BY <1>2, <2>1 DEF UnlocksOK
        <3>2. ASSUME NEW j \in Slots \ {k}, At(j, "unlock", "record"), call[j].by = a
              PROVE  At(j, "unlock", "record")' /\ call'[j].by = a
            BY <3>2 DEF At
        <3>3. QED
            BY <3>1, <3>2
    <2>2. QED
        BY <1>2, <2>1
<1>3. \A a \in unlocks' : Charged(a)'
    BY DEF UnlocksOK
<1>4. \A a \in AccountIds, c \in ClientKeys : ledger'.byKey[UnlockKey(a, c)] # 0 => Charged(a)'
    BY DEF UnlocksOK
<1>5. QED
    BY <1>1, <1>2, <1>3, <1>4 DEF UnlocksOK, At

(* The steps of an unlock that do not post keep what is known of the ledger and claims. *)
LEMMA NoPost ==
    ASSUME PremiumOK, UNCHANGED <<ledger, claims, rewards>>, failed \in Nat, Moves({"unlock"})
    PROVE  LedgerSolid' /\ ClaimsOK' /\ (\A a : Charged(a)' <=> Charged(a))
<1>1. Txs' = Txs /\ LedgerKeys' = LedgerKeys /\ (M!Wallets)' = M!Wallets
    BY DEF Txs, LedgerKeys, UnlockKey, ReferralKey, M!Wallets, M!Coins, M!Diamonds
<1>2. LedgerSolid'
    BY <1>1 DEF PremiumOK, LedgerSolid
<1>3. /\ \A a : Charged(a)' <=> Charged(a)
      /\ \A a, b : Credited(a, b) => Credited(a, b)'
    BY <1>1 DEF Charged, Credited, ReferralKey, M!Coins, M!CreditEntries, M!Liability
<1>4. Spares({"claim"})
    BY OthersSpared
<1>5. ClaimsOK'
    BY <1>3, <1>4, ClaimsStay DEF PremiumOK
<1>6. QED
    BY <1>2, <1>3, <1>5

(* An unlock begins, and finds whether there is one. *)
LEMMA UnlockBegun ==
    ASSUME CallsOK, PremiumOK, NEW k \in Slots,
           \/ \E a \in AccountIds, c \in ClientKeys : UnlockRoom(k, a, c)
           \/ HasUnlocked(k)
    PROVE  PremiumOK'
<1>1. ASSUME NEW a \in AccountIds, NEW c \in ClientKeys, UnlockRoom(k, a, c)
      PROVE  PremiumOK'
    <2>0. PICK rec : rec = [op |-> "unlock", pc |-> "look", by |-> a, key |-> UnlockKey(a, c),
                            price |-> room.price]
        OBVIOUS
    <2>1. Begin("premium", k, rec) /\ UNCHANGED premiumVars
        BY <1>1, <2>0 DEF UnlockRoom
    <2>2. IsRequest(rec) /\ rec.op = "unlock" /\ rec.pc = "look"
        BY <2>0 DEF IsRequest
    <2>3. room.price \in Nat
        BY DEF PremiumOK
    <2>4. UnlockCall(rec)'
        BY <2>0, <2>3 DEF UnlockCall, UnlockKey
    <2>5. /\ call[k] = Idle /\ call'[k] = rec /\ failed' = failed /\ Moves({"unlock"})
          /\ \A j \in Slots \ {k} : call'[j] = call[j]
        BY <2>1, <2>2, BeginMoves
    <2>6. LedgerSolid' /\ ClaimsOK' /\ (\A b : Charged(b)' <=> Charged(b))
        BY <2>1, <2>5, NoPost DEF CallsOK, premiumVars
    <2>7. ~At(k, "unlock", "record")
        BY <2>5, IdleFields DEF At
    <2>8. UnlockCall(call[k])'
        BY <2>4, <2>5 DEF UnlockCall
    <2>9. UnlocksOK'
        BY <2>1, <2>5, <2>6, <2>7, <2>8, OneUnlock DEF PremiumOK, UnlocksOK, premiumVars
    <2>10. QED
        BY <2>1, <2>6, <2>9 DEF PremiumOK, premiumVars
<1>2. ASSUME HasUnlocked(k)
      PROVE  PremiumOK'
    <2>1. call[k].op = "unlock" /\ call[k].pc = "look" /\ UNCHANGED premiumVars
        BY <1>2 DEF HasUnlocked, At
    <2>2. UnlockCall(call[k]) /\ "pc" \in DOMAIN call[k]
        BY DEF PremiumOK, UnlocksOK, CallsOK, IsRequest
    <2>3. /\ failed' = failed /\ Moves({"unlock"})
          /\ \A j \in Slots \ {k} : call'[j] = call[j]
          /\ call'[k] = Idle \/ call'[k] = [call[k] EXCEPT !.pc = "charge"]
        BY <1>2, <2>1, AnswerMoves, GotoMoves DEF HasUnlocked
    <2>4. UnlockCall(call[k])'
        <3>1. CASE call'[k] = Idle
            BY <3>1, IdleFields DEF UnlockCall
        <3>2. CASE call'[k] = [call[k] EXCEPT !.pc = "charge"]
            <4>1. /\ DOMAIN call'[k] = DOMAIN call[k] /\ call'[k].pc = "charge"
                  /\ {"by", "key", "price"} \subseteq DOMAIN call[k]
                BY <2>1, <2>2, <3>2 DEF UnlockCall
            <4>2. /\ call'[k].by = call[k].by /\ call'[k].key = call[k].key
                  /\ call'[k].price = call[k].price
                BY <3>2, <4>1
            <4>3. QED
                BY <2>1, <2>2, <4>1, <4>2 DEF UnlockCall, UnlockKey
        <3>3. QED
            BY <2>3, <3>1, <3>2
    <2>5. LedgerSolid' /\ ClaimsOK' /\ (\A b : Charged(b)' <=> Charged(b))
        BY <2>1, <2>3, NoPost DEF CallsOK, premiumVars
    <2>6. ~At(k, "unlock", "record")
        BY <2>1 DEF At
    <2>7. UnlocksOK'
        BY <2>1, <2>3, <2>4, <2>5, <2>6, OneUnlock DEF PremiumOK, UnlocksOK, premiumVars
    <2>8. QED
        BY <2>1, <2>5, <2>7 DEF PremiumOK, premiumVars
<1>3. QED
    BY <1>1, <1>2

(* The charge for an unlock: it is posted once, and recorded next. *)
LEMMA UnlockCharged ==
    ASSUME CallsOK, PremiumOK, NEW k \in Slots, UnlockRoomCoins(k)
    PROVE  PremiumOK'
<1>1. call[k].op = "unlock" /\ call[k].pc = "charge"
    BY DEF UnlockRoomCoins, At
<1>2. UnlockCall(call[k]) /\ "pc" \in DOMAIN call[k]
    BY DEF PremiumOK, UnlocksOK, CallsOK, IsRequest
<1>0. PICK key : key = call[k].key
    OBVIOUS
<1>3. PICK a \in AccountIds, c \in ClientKeys : call[k].by = a /\ key = UnlockKey(a, c)
    BY <1>0, <1>1, <1>2 DEF UnlockCall
<1>4. PICK e : e = M!SpendEntries(a, room.host, call[k].price)
    OBVIOUS
<1>5. PICK r : r = M!Post(ledger, "premium_unlock", key, e)
    OBVIOUS
<1>6. /\ ledger' = r.ledger /\ UNCHANGED <<room, unlocks, claims, rewards>>
      /\ IF r.err = "nil" THEN Goto(k, "record") ELSE Answer(k)
    BY <1>0, <1>3, <1>4, <1>5 DEF UnlockRoomCoins
<1>7. /\ failed' = failed /\ Moves({"unlock"})
      /\ \A j \in Slots \ {k} : call'[j] = call[j]
      /\ IF r.err = "nil" THEN call'[k] = [call[k] EXCEPT !.pc = "record"] ELSE call'[k] = Idle
    BY <1>1, <1>6, AnswerMoves, GotoMoves
<1>8. /\ \A w \in M!Wallets \cap DOMAIN e : e[w] \in Int
      /\ M!Coins(a) \in DOMAIN e /\ \A u : M!Coins(u) \in DOMAIN e => u = a
    BY <1>1, <1>2, <1>4, SpendIs DEF UnlockCall
<1>9. key \in LedgerKeys
    BY <1>3 DEF LedgerKeys
<1>10. \/ r.ledger = ledger /\ (r.err = "nil" => ledger.byKey[key] # 0)
       \/ r.err = "nil" /\ Posted(ledger', "premium_unlock", key, e)
    BY <1>5, <1>6, <1>8, <1>9, PostIs DEF PremiumOK
<1>11. ~At(k, "unlock", "record") /\ Spares({"claim"})
    BY <1>1, <1>7, OthersSpared DEF At
<1>12. r.err = "nil" => At(k, "unlock", "record")' /\ call'[k].by = a
    <2>1. {"op", "pc", "by"} \subseteq DOMAIN call[k]
        BY <1>1, <1>2 DEF UnlockCall, CallsOK, IsRequest
    <2>2. QED
        BY <1>1, <1>2, <1>3, <1>7, <2>1 DEF At
<1>13. ASSUME r.err = "nil" => Charged(a)'
       PROVE  UnlockCall(call[k])'
    <2>1. CASE r.err # "nil"
        BY <1>7, <2>1, IdleFields DEF UnlockCall
    <2>2. CASE r.err = "nil"
        <3>1. /\ DOMAIN call'[k] = DOMAIN call[k] /\ {"by", "key", "price"} \subseteq DOMAIN call[k]
            BY <1>1, <1>2, <1>7, <2>2 DEF UnlockCall
        <3>2. /\ call'[k].by = call[k].by /\ call'[k].key = call[k].key
              /\ call'[k].price = call[k].price
            BY <1>7, <2>2, <3>1
        <3>3. QED
            BY <1>1, <1>2, <1>3, <1>13, <2>2, <3>1, <3>2 DEF UnlockCall, UnlockKey
    <2>3. QED
        BY <2>1, <2>2
<1>14. CASE r.ledger = ledger /\ (r.err = "nil" => ledger.byKey[key] # 0)
    <2>1. LedgerSolid' /\ ClaimsOK' /\ (\A b : Charged(b)' <=> Charged(b))
        BY <1>6, <1>7, <1>14, NoPost DEF CallsOK
    <2>2. r.err = "nil" => Charged(a)
        BY <1>3, <1>14 DEF PremiumOK, UnlocksOK
    <2>3. UnlockCall(call[k])'
        BY <1>13, <2>1, <2>2
    <2>4. UnlocksOK'
        BY <1>6, <1>7, <1>11, <1>14, <2>1, <2>3, OneUnlock DEF PremiumOK, UnlocksOK
    <2>5. QED
        BY <1>6, <2>1, <2>4 DEF PremiumOK
<1>15. CASE r.err = "nil" /\ Posted(ledger', "premium_unlock", key, e)
    <2>1. PICK tx : tx = [kind |-> "premium_unlock", key |-> key, entries |-> e, of |-> 0]
        OBVIOUS
    <2>2. /\ LedgerSolid' /\ Txs' = Txs \cup {tx}
          /\ \A q \in LedgerKeys \ {key} : ledger'.byKey[q] = ledger.byKey[q]
        BY <1>9, <1>15, <2>1, TxsGrow DEF PremiumOK
    <2>3. /\ Charged(a)'
          /\ \A b : Charged(b)' => Charged(b) \/ b = a
          /\ \A b : Charged(b) => Charged(b)'
          /\ \A x, y : Credited(x, y) => Credited(x, y)'
        <3>1. tx.kind = "premium_unlock" /\ tx.entries = e
            BY <2>1
        <3>2. /\ \A b : Charged(b)' <=> \E t \in Txs' : t.kind = "premium_unlock" /\ M!Coins(b) \in DOMAIN t.entries
              /\ \A b : Charged(b) <=> \E t \in Txs : t.kind = "premium_unlock" /\ M!Coins(b) \in DOMAIN t.entries
            BY DEF Charged, M!Coins
        <3>3. \A x, y : Credited(x, y) => Credited(x, y)'
            BY <2>2 DEF Credited, ReferralKey, M!CreditEntries, M!Coins, M!Liability
        <3>4. QED
            BY <1>8, <2>2, <3>1, <3>2, <3>3
    <2>4. UnlockCall(call[k])'
        BY <1>13, <2>3
    <2>5. ASSUME NEW b \in AccountIds, NEW d \in ClientKeys, ledger'.byKey[UnlockKey(b, d)] # 0
          PROVE  ledger.byKey[UnlockKey(b, d)] # 0 \/ Charged(b)'
        <3>1. CASE UnlockKey(b, d) = key
            BY <1>3, <2>3, <3>1, KeysApart
        <3>2. CASE UnlockKey(b, d) # key
            BY <2>2, <2>5, <3>2 DEF LedgerKeys
        <3>3. QED
            BY <3>1, <3>2
    <2>6. UnlocksOK'
        BY <1>6, <1>7, <1>11, <1>12, <1>15, <2>3, <2>4, <2>5, OneUnlock DEF PremiumOK, UnlocksOK
    <2>7. \A b \in AccountIds : ledger'.byKey[ReferralKey(b)] = ledger.byKey[ReferralKey(b)]
        BY <1>3, <2>2, KeysApart DEF LedgerKeys
    <2>8. ClaimsOK'
        BY <1>6, <1>11, <2>3, <2>7, ClaimsStay DEF PremiumOK, CallsOK
    <2>9. QED
        BY <1>6, <2>2, <2>6, <2>8 DEF PremiumOK
<1>16. QED
    BY <1>10, <1>14, <1>15

(* Who was charged is let in. *)
LEMMA UnlockRecorded ==
    ASSUME CallsOK, PremiumOK, NEW k \in Slots, RecordUnlock(k)
    PROVE  PremiumOK'
<1>1. call[k].op = "unlock" /\ call[k].pc = "record" /\ Answer(k)
      /\ unlocks' = unlocks \cup {call[k].by} /\ UNCHANGED <<ledger, room, claims, rewards>>
    BY DEF RecordUnlock, At
<1>2. call[k].by \in AccountIds /\ Charged(call[k].by)
    BY <1>1 DEF PremiumOK, UnlocksOK, UnlockCall
<1>3. /\ failed' = failed /\ Moves({"unlock"}) /\ call'[k] = Idle
      /\ \A j \in Slots \ {k} : call'[j] = call[j]
    BY <1>1, AnswerMoves
<1>4. LedgerSolid' /\ ClaimsOK' /\ (\A b : Charged(b)' <=> Charged(b))
    BY <1>1, <1>3, NoPost DEF CallsOK
<1>5. UnlockCall(call[k])'
    BY <1>3, IdleFields DEF UnlockCall
<1>6. UnlocksOK'
    BY <1>1, <1>2, <1>3, <1>4, <1>5, OneUnlock DEF PremiumOK, UnlocksOK
<1>7. QED
    BY <1>1, <1>4, <1>6 DEF PremiumOK

(* The steps of a claim keep what is known of unlocks. *)
LEMMA NoCharge ==
    ASSUME PremiumOK, failed \in Nat, Moves({"claim"}), UNCHANGED <<room, unlocks>>,
           \/ ledger' = ledger
           \/ \E e : \E a \in AccountIds : Posted(ledger', "referral_reward", ReferralKey(a), e)
    PROVE  /\ LedgerSolid' /\ UnlocksOK' /\ room' \in [host : AccountIds, price : Nat]
           /\ \A a, b : Credited(a, b) => Credited(a, b)'
<1>1. Spares({"unlock"})
    BY OthersSpared
<1>2. CASE ledger' = ledger
    <2>1. Txs' = Txs /\ LedgerKeys' = LedgerKeys /\ (M!Wallets)' = M!Wallets
        BY <1>2 DEF Txs, LedgerKeys, UnlockKey, ReferralKey, M!Wallets, M!Coins, M!Diamonds
    <2>2. LedgerSolid'
        BY <1>2, <2>1 DEF PremiumOK, LedgerSolid
    <2>3. /\ \A a : Charged(a)' <=> Charged(a)
          /\ \A a, b : Credited(a, b) => Credited(a, b)'
        BY <2>1 DEF Charged, Credited, ReferralKey, M!Coins, M!CreditEntries, M!Liability
    <2>4. UnlocksOK'
        BY <1>1, <1>2, <2>3, UnlocksStay DEF PremiumOK
    <2>5. QED
        BY <2>2, <2>3, <2>4 DEF PremiumOK
<1>3. ASSUME NEW a \in AccountIds, NEW e, Posted(ledger', "referral_reward", ReferralKey(a), e)
      PROVE  /\ LedgerSolid' /\ UnlocksOK' /\ room' \in [host : AccountIds, price : Nat]
             /\ \A x, y : Credited(x, y) => Credited(x, y)'
    <2>1. PICK tx : tx = [kind |-> "referral_reward", key |-> ReferralKey(a), entries |-> e, of |-> 0]
        OBVIOUS
    <2>2. ReferralKey(a) \in LedgerKeys
        BY DEF LedgerKeys
    <2>3. /\ LedgerSolid' /\ Txs' = Txs \cup {tx}
          /\ \A q \in LedgerKeys \ {ReferralKey(a)} : ledger'.byKey[q] = ledger.byKey[q]
        BY <1>3, <2>1, <2>2, TxsGrow DEF PremiumOK
    <2>4. tx.kind # "premium_unlock"
        BY <2>1
    <2>5. /\ \A b : Charged(b)' <=> \E t \in Txs' : t.kind = "premium_unlock" /\ M!Coins(b) \in DOMAIN t.entries
          /\ \A b : Charged(b) <=> \E t \in Txs : t.kind = "premium_unlock" /\ M!Coins(b) \in DOMAIN t.entries
        BY DEF Charged, M!Coins
    <2>6. \A b : Charged(b)' <=> Charged(b)
        BY <2>3, <2>4, <2>5
    <2>7. \A x, y : Credited(x, y) => Credited(x, y)'
        BY <2>3 DEF Credited, ReferralKey, M!CreditEntries, M!Coins, M!Liability
    <2>8. \A b \in AccountIds, c \in ClientKeys :
            ledger'.byKey[UnlockKey(b, c)] = ledger.byKey[UnlockKey(b, c)]
        BY <2>3, KeysApart DEF LedgerKeys
    <2>9. UnlocksOK'
        BY <1>1, <2>6, <2>8, UnlocksStay DEF PremiumOK
    <2>10. QED
        BY <2>3, <2>7, <2>9 DEF PremiumOK
<1>4. QED
    BY <1>2, <1>3

(* A claim begins, for an account that has not used its one. *)
LEMMA ClaimBegun ==
    ASSUME CallsOK, PremiumOK, NEW k \in Slots, NEW a \in AccountIds, NEW b \in AccountIds,
           ClaimCode(k, a, b)
    PROVE  PremiumOK'
<1>1. PICK rec : rec = [op |-> "claim", pc |-> "credit", by |-> a, for |-> b]
    OBVIOUS
<1>2. /\ Begin("referral", k, rec) /\ a \notin claims /\ claims' = claims \cup {a}
      /\ UNCHANGED <<ledger, room, unlocks, rewards>>
    BY <1>1 DEF ClaimCode
<1>3. IsRequest(rec) /\ rec.op = "claim" /\ rec.by = a
    BY <1>1 DEF IsRequest
<1>4. /\ call[k] = Idle /\ call'[k] = rec /\ failed' = failed /\ Moves({"claim"})
      /\ \A j \in Slots \ {k} : call'[j] = call[j]
    BY <1>2, <1>3, BeginMoves
<1>5. /\ LedgerSolid' /\ UnlocksOK' /\ room' \in [host : AccountIds, price : Nat]
      /\ \A x, y : Credited(x, y) => Credited(x, y)'
    BY <1>2, <1>4, NoCharge DEF CallsOK
<1>6. \A i \in DOMAIN rewards : rewards[i].referred \in claims
    BY DEF PremiumOK, ClaimsOK
<1>7. ledger.byKey[ReferralKey(a)] = 0
    BY <1>2 DEF PremiumOK, ClaimsOK
<1>8. ClaimCall(rec)'
    BY <1>1, <1>2, <1>6, <1>7 DEF ClaimCall, ReferralKey
<1>9. ASSUME NEW j \in Slots
      PROVE  ClaimCall(call[j])'
    <2>1. CASE j = k
        BY <1>4, <1>8, <2>1 DEF ClaimCall
    <2>2. CASE j # k
        <3>1. call'[j] = call[j] /\ ClaimCall(call[j])
            BY <1>4, <2>2 DEF PremiumOK, ClaimsOK
        <3>2. QED
            BY <1>2, <1>5, <3>1 DEF ClaimCall, ReferralKey
    <2>3. QED
        BY <2>1, <2>2
<1>10. \A j \in Slots \ {k} : call[j].op = "claim" => call[j].by \in claims
    BY DEF PremiumOK, ClaimsOK, ClaimCall
<1>11. OneClaimEach'
    <2>1. OneClaimEach
        BY DEF PremiumOK, ClaimsOK
    <2>2. QED
        BY <1>2, <1>3, <1>4, <1>10, <2>1 DEF OneClaimEach
<1>12. ASSUME failed = 0, NEW x \in claims'
       PROVE  \/ \E i \in DOMAIN rewards : rewards[i].referred = x
              \/ \E j \in Slots : call'[j].op = "claim" /\ call'[j].by = x
    <2>1. CASE x = a
        BY <1>3, <1>4, <2>1
    <2>2. CASE x \in claims
        <3>1. \/ \E i \in DOMAIN rewards : rewards[i].referred = x
              \/ \E j \in Slots : call[j].op = "claim" /\ call[j].by = x
            BY <1>12, <2>2 DEF PremiumOK, ClaimsOK
        <3>2. \A j \in Slots : call[j].op = "claim" => call'[j] = call[j]
            BY <1>4, IdleFields
        <3>3. QED
            BY <3>1, <3>2
    <2>3. QED
        BY <1>2, <2>1, <2>2
<1>13. ClaimsOK'
    BY <1>2, <1>4, <1>5, <1>9, <1>11, <1>12 DEF PremiumOK, ClaimsOK, ReferralKey
<1>14. QED
    BY <1>5, <1>13 DEF PremiumOK

(* The referrer is credited: the claim is the only one of its account. *)
LEMMA ReferrerCredited ==
    ASSUME CallsOK, PremiumOK, NEW k \in Slots, ReferralCreditCoins(k)
    PROVE  PremiumOK'
<1>1. call[k].op = "claim" /\ call[k].pc = "credit" /\ Goto(k, "record")
      /\ UNCHANGED <<room, unlocks, claims, rewards>>
    BY DEF ReferralCreditCoins, At
<1>2. ClaimCall(call[k]) /\ {"op", "pc"} \subseteq DOMAIN call[k]
    BY DEF PremiumOK, ClaimsOK, CallsOK, IsRequest
<1>3. PICK a \in AccountIds, b \in AccountIds : call[k].by = a /\ call[k].for = b
    BY <1>1, <1>2 DEF ClaimCall
<1>4. PICK e : e = M!CreditEntries(b, RewardCoins)
    OBVIOUS
<1>5. PICK r : r = M!Post(ledger, "referral_reward", ReferralKey(a), e)
    OBVIOUS
<1>6. ledger' = r.ledger /\ ReferralKey(a) \in LedgerKeys
    BY <1>3, <1>4, <1>5 DEF ReferralCreditCoins, LedgerKeys
<1>7. ledger.byKey[ReferralKey(a)] = 0 /\ a \in claims
    BY <1>1, <1>2, <1>3 DEF ClaimCall
<1>8. Posted(ledger', "referral_reward", ReferralKey(a), e)
    BY <1>4, <1>5, <1>6, <1>7, CreditIs, PostIs DEF PremiumOK
<1>9. /\ failed' = failed /\ Moves({"claim"}) /\ call'[k] = [call[k] EXCEPT !.pc = "record"]
      /\ \A j \in Slots \ {k} : call'[j] = call[j]
    BY <1>1, GotoMoves
<1>10. /\ LedgerSolid' /\ UnlocksOK' /\ room' \in [host : AccountIds, price : Nat]
       /\ \A x, y : Credited(x, y) => Credited(x, y)'
    BY <1>1, <1>8, <1>9, NoCharge DEF CallsOK
<1>11. PICK tx : tx = [kind |-> "referral_reward", key |-> ReferralKey(a), entries |-> e, of |-> 0]
    OBVIOUS
<1>12. /\ Txs' = Txs \cup {tx}
       /\ \A q \in LedgerKeys \ {ReferralKey(a)} : ledger'.byKey[q] = ledger.byKey[q]
    BY <1>6, <1>8, <1>11, TxsGrow DEF PremiumOK
<1>13. Credited(b, a)'
    <2>1. /\ tx.kind = "referral_reward" /\ tx.key = ReferralKey(a)
          /\ tx.entries = M!CreditEntries(b, RewardCoins)
        BY <1>4, <1>11
    <2>2. tx \in Txs'
        BY <1>12
    <2>3. QED
        BY <2>1, <2>2 DEF Credited, ReferralKey, M!CreditEntries, M!Coins, M!Liability
<1>14. /\ DOMAIN call'[k] = DOMAIN call[k] /\ {"by", "for"} \subseteq DOMAIN call[k]
       /\ call'[k].op = "claim" /\ call'[k].pc = "record"
    BY <1>1, <1>2, <1>9 DEF ClaimCall
<1>15. call'[k].by = a /\ call'[k].for = b
    BY <1>3, <1>9, <1>14
<1>16. \A j \in Slots : call'[j].op = "claim" => call[j].op = "claim" /\ call'[j].by = call[j].by
    BY <1>1, <1>3, <1>9, <1>15
<1>17. \A j \in Slots : call[j].op = "claim" => call'[j].op = "claim" /\ call'[j].by = call[j].by
    BY <1>3, <1>9, <1>14, <1>15
<1>18. ASSUME NEW j \in Slots
       PROVE  ClaimCall(call[j])'
    <2>1. CASE j = k
        <3>1. \A i \in DOMAIN rewards : rewards[i].referred # a
            BY <1>1, <1>2, <1>3 DEF ClaimCall
        <3>2. QED
            BY <1>1, <1>7, <1>13, <1>14, <1>15, <2>1, <3>1 DEF ClaimCall
    <2>2. CASE j # k /\ call[j].op = "claim"
        <3>1. call'[j] = call[j] /\ ClaimCall(call[j])
            BY <1>9, <2>2 DEF PremiumOK, ClaimsOK
        <3>2. call[j].by # a /\ call[j].by \in AccountIds
            BY <1>1, <1>3, <2>2, <3>1 DEF PremiumOK, ClaimsOK, OneClaimEach, ClaimCall
        <3>3. ledger'.byKey[ReferralKey(call[j].by)] = ledger.byKey[ReferralKey(call[j].by)]
            BY <1>12, <3>2, KeysApart DEF LedgerKeys
        <3>4. QED
            BY <1>1, <1>10, <3>1, <3>3 DEF ClaimCall, ReferralKey
    <2>3. CASE j # k /\ call[j].op # "claim"
        BY <1>9, <2>3 DEF ClaimCall
    <2>4. QED
        BY <2>1, <2>2, <2>3
<1>19. OneClaimEach'
    BY <1>16 DEF OneClaimEach, PremiumOK, ClaimsOK
<1>20. ASSUME NEW x \in AccountIds, ledger'.byKey[ReferralKey(x)] # 0
       PROVE  x \in claims
    <2>1. CASE x = a
        BY <1>7, <2>1
    <2>2. CASE x # a
        <3>1. ledger'.byKey[ReferralKey(x)] = ledger.byKey[ReferralKey(x)]
            BY <1>12, <2>2, KeysApart DEF LedgerKeys
        <3>2. QED
            BY <1>20, <3>1 DEF PremiumOK, ClaimsOK
    <2>3. QED
        BY <2>1, <2>2
<1>21. failed = 0 => \A x \in claims :
        \/ \E i \in DOMAIN rewards : rewards[i].referred = x
        \/ \E j \in Slots : call'[j].op = "claim" /\ call'[j].by = x
    BY <1>17 DEF PremiumOK, ClaimsOK
<1>22. ClaimsOK'
    BY <1>1, <1>9, <1>10, <1>18, <1>19, <1>20, <1>21 DEF PremiumOK, ClaimsOK, ReferralKey
<1>23. QED
    BY <1>10, <1>22 DEF PremiumOK

(* The reward is recorded: the ledger has just that credit, and it is the first of its account. *)
LEMMA RewardRecorded ==
    ASSUME CallsOK, PremiumOK, NEW k \in Slots, RecordReward(k)
    PROVE  PremiumOK'
<1>1. call[k].op = "claim" /\ call[k].pc = "record" /\ Answer(k)
      /\ UNCHANGED <<ledger, room, unlocks, claims>>
    BY DEF RecordReward, At
<1>2. PICK a \in AccountIds, b \in AccountIds : call[k].by = a /\ call[k].for = b
    BY <1>1 DEF PremiumOK, ClaimsOK, ClaimCall
<1>3. a \in claims /\ Credited(b, a) /\ \A i \in DOMAIN rewards : rewards[i].referred # a
    BY <1>1, <1>2 DEF PremiumOK, ClaimsOK, ClaimCall
<1>4. PICK row : row = [referrer |-> b, referred |-> a]
    OBVIOUS
<1>5. PICK S : S = [referrer : AccountIds, referred : AccountIds]
    OBVIOUS
<1>6. rewards \in Seq(S) /\ row \in S /\ rewards' = Append(rewards, row)
    BY <1>2, <1>4, <1>5 DEF RecordReward, PremiumOK, ClaimsOK
<1>7. PICK n \in Nat : n = Len(rewards)
    BY <1>6
<1>8. rewards' \in Seq(S)
    BY <1>6
<1>9. /\ DOMAIN rewards = 1..n /\ DOMAIN rewards' = 1..(n + 1) /\ rewards'[n + 1] = row
      /\ \A i \in 1..n : rewards'[i] = rewards[i]
    BY <1>6, <1>7
<1>10. /\ failed' = failed /\ Moves({"claim"}) /\ call'[k] = Idle
       /\ \A j \in Slots \ {k} : call'[j] = call[j]
    BY <1>1, AnswerMoves
<1>11. /\ LedgerSolid' /\ UnlocksOK' /\ room' \in [host : AccountIds, price : Nat]
       /\ \A x, y : Credited(x, y) => Credited(x, y)'
    BY <1>1, <1>10, NoCharge DEF CallsOK
<1>12. row.referrer = b /\ row.referred = a
    BY <1>4
<1>13. \A i \in 1..(n + 1) : i \in 1..n \/ i = n + 1
    BY <1>7
<1>14. ASSUME NEW j \in Slots
       PROVE  ClaimCall(call[j])'
    <2>1. CASE j # k /\ call[j].op = "claim"
        <3>1. call'[j] = call[j] /\ ClaimCall(call[j])
            BY <1>10, <2>1 DEF PremiumOK, ClaimsOK
        <3>2. call[j].by # a
            BY <1>1, <1>2, <2>1 DEF PremiumOK, ClaimsOK, OneClaimEach
        <3>3. \A i \in DOMAIN rewards' : rewards'[i].referred # call[j].by
            BY <1>9, <1>12, <1>13, <2>1, <3>1, <3>2 DEF ClaimCall
        <3>4. QED
            BY <1>1, <1>11, <3>1, <3>3 DEF ClaimCall, ReferralKey
    <2>2. CASE j = k \/ call[j].op # "claim"
        BY <1>10, <2>2, IdleFields DEF ClaimCall
    <2>3. QED
        BY <2>1, <2>2
<1>15. OneClaimEach'
    BY <1>10, IdleFields DEF OneClaimEach, PremiumOK, ClaimsOK
<1>16. \A i \in DOMAIN rewards' :
        rewards'[i].referred \in claims /\ Credited(rewards'[i].referrer, rewards'[i].referred)
    <2>1. \A i \in 1..n : rewards[i].referred \in claims /\ Credited(rewards[i].referrer, rewards[i].referred)
        BY <1>9 DEF PremiumOK, ClaimsOK
    <2>2. QED
        BY <1>3, <1>9, <1>12, <1>13, <2>1
<1>17. ASSUME NEW i \in DOMAIN rewards', NEW j \in DOMAIN rewards',
              rewards'[i].referred = rewards'[j].referred
       PROVE  i = j
    <2>1. \A x \in 1..n, y \in 1..n : rewards[x].referred = rewards[y].referred => x = y
        BY <1>9 DEF PremiumOK, ClaimsOK
    <2>2. QED
        BY <1>3, <1>9, <1>12, <1>13, <1>17, <2>1
<1>18. ASSUME failed = 0, NEW x \in claims
       PROVE  \/ \E i \in DOMAIN rewards' : rewards'[i].referred = x
              \/ \E j \in Slots : call'[j].op = "claim" /\ call'[j].by = x
    <2>1. CASE x = a
        BY <1>9, <1>12, <2>1
    <2>2. CASE \E i \in DOMAIN rewards : rewards[i].referred = x
        BY <1>9, <2>2
    <2>3. CASE x # a /\ \E j \in Slots : call[j].op = "claim" /\ call[j].by = x
        BY <1>2, <1>10, <2>3
    <2>4. QED
        BY <1>18, <2>1, <2>2, <2>3 DEF PremiumOK, ClaimsOK
<1>19. ClaimsOK'
    <2>1. \A x \in AccountIds : ledger'.byKey[ReferralKey(x)] # 0 => x \in claims'
        BY <1>1 DEF PremiumOK, ClaimsOK
    <2>2. \A i \in DOMAIN rewards' :
            rewards'[i].referred \in claims' /\ (Credited(rewards[i].referrer, rewards[i].referred))'
        BY <1>1, <1>11, <1>16
    <2>3. QED
        BY <1>1, <1>5, <1>8, <1>10, <1>14, <1>15, <1>17, <1>18, <2>1, <2>2 DEF ClaimsOK, ReferralKey
<1>20. QED
    BY <1>11, <1>19 DEF PremiumOK

(* Unlocks and claims are recorded as they are posted. *)
LEMMA PremiumKeeps ==
    ASSUME CallsOK, PremiumOK, PremiumNext
    PROVE  PremiumOK'
<1>1. ASSUME NEW p \in Prices \cup {0}, SetRoomPremium(p)
      PROVE  PremiumOK'
    <2>1. /\ UNCHANGED <<call, ledger, unlocks, claims, rewards>> /\ failed' = failed
          /\ room' = [room EXCEPT !.price = p]
        BY <1>1 DEF SetRoomPremium, Serve
    <2>2. Moves({"unlock"}) /\ Moves({})
        BY <2>1, NoMove DEF CallsOK
    <2>3. LedgerSolid' /\ ClaimsOK' /\ (\A b : Charged(b)' <=> Charged(b))
        BY <2>1, <2>2, NoPost DEF CallsOK
    <2>4. Spares({"unlock"})
        BY <2>2, OthersSpared
    <2>5. UnlocksOK'
        BY <2>1, <2>3, <2>4, UnlocksStay DEF PremiumOK, CallsOK
    <2>6. p \in Nat
        BY PremiumAssumption
    <2>7. room' \in [host : AccountIds, price : Nat]
        BY <2>1, <2>6 DEF PremiumOK
    <2>8. QED
        BY <2>3, <2>5, <2>7 DEF PremiumOK
<1>2. QED
    BY <1>1, UnlockBegun, UnlockCharged, UnlockRecorded, ClaimBegun, ReferrerCredited, RewardRecorded
    DEF PremiumNext

(* No step of any service does less. *)
LEMMA PremiumStep ==
    ASSUME CallsOK, PremiumOK, [Next]_vars
    PROVE  PremiumOK'
<1>1. CASE UNCHANGED premiumVars /\ Spares(PremiumOps)
    <2>1. UNCHANGED <<ledger, room, unlocks, claims, rewards>>
        BY <1>1 DEF premiumVars
    <2>2. Spares({"unlock"}) /\ Spares({"claim"})
        BY <1>1 DEF Spares, PremiumOps
    <2>3. Txs' = Txs /\ LedgerKeys' = LedgerKeys /\ (M!Wallets)' = M!Wallets
        BY <2>1 DEF Txs, LedgerKeys, UnlockKey, ReferralKey, M!Wallets, M!Coins, M!Diamonds
    <2>4. LedgerSolid'
        BY <2>1, <2>3 DEF PremiumOK, LedgerSolid
    <2>5. /\ \A a : Charged(a)' <=> Charged(a)
          /\ \A a, b : Credited(a, b) => Credited(a, b)'
        BY <2>3 DEF Charged, Credited, ReferralKey, M!Coins, M!CreditEntries, M!Liability
    <2>6. UnlocksOK'
        BY <2>1, <2>2, <2>5, UnlocksStay DEF PremiumOK, CallsOK
    <2>7. ClaimsOK'
        BY <2>1, <2>2, <2>5, ClaimsStay DEF PremiumOK, CallsOK
    <2>8. QED
        BY <2>1, <2>4, <2>6, <2>7 DEF PremiumOK
<1>2. QED
    BY <1>1, PremiumKeeps, PremiumFrame

(* At first there is nothing in the ledger. *)
LEMMA PremiumInitially ==
    ASSUME Init
    PROVE  PremiumOK
<1>1. /\ call = [k \in Slots |-> Idle] /\ ledger = M!NewMemLedger
      /\ room \in [host : AccountIds, price : {0}]
      /\ unlocks = {} /\ claims = {} /\ rewards = <<>>
    BY DEF Init, CallsInit, PremiumInit
<1>2. /\ ledger.seq = 0 /\ ledger.byKey = [key \in LedgerKeys |-> 0]
      /\ ledger.balances = [w \in M!Accounts |-> 0]
    BY <1>1 DEF M!NewMemLedger
<1>3. Txs = {}
    <2>1. \A i \in 1..ledger.seq : FALSE
        BY <1>2
    <2>2. QED
        BY <2>1 DEF Txs
<1>4. LedgerSolid
    BY <1>2, WalletsApart DEF LedgerSolid
<1>5. \A k \in Slots : call[k].op = "none"
    BY <1>1, IdleFields
<1>6. UnlocksOK
    BY <1>1, <1>2, <1>3, <1>5 DEF UnlocksOK, UnlockCall, LedgerKeys, Charged
<1>7. ClaimsOK
    <2>1. rewards \in Seq([referrer : AccountIds, referred : AccountIds]) /\ DOMAIN rewards = {}
        BY <1>1
    <2>2. QED
        BY <1>1, <1>2, <1>5, <2>1 DEF ClaimsOK, ClaimCall, OneClaimEach, LedgerKeys
<1>8. room \in [host : AccountIds, price : Nat]
    BY <1>1
<1>9. QED
    BY <1>4, <1>6, <1>7, <1>8 DEF PremiumOK

(* Records and money agree, however claims and unlocks overlap and wherever one is cut
   short (feedsvc UnlockRoom, referralsvc ClaimCode): a request that is to record has
   posted, the key of a post stands for the account it is of, and a claim that is not
   credited yet finds its key unused - so its own post is the one the record names. *)
THEOREM RecordsAreOfMoney == Spec => []RecordedIsPosted
<1>1. Init => CallsOK /\ PremiumOK
    BY InitCalls, PremiumInitially
<1>2. CallsOK /\ PremiumOK /\ [Next]_vars => (CallsOK /\ PremiumOK)'
    BY PremiumFrame, PremiumStep
<1>3. ASSUME PremiumOK PROVE RecordedIsPosted
    <2>1. /\ \A a \in unlocks : Charged(a)
          /\ \A i \in DOMAIN rewards : Credited(rewards[i].referrer, rewards[i].referred)
          /\ \A i, j \in DOMAIN rewards : rewards[i].referred = rewards[j].referred => i = j
        BY <1>3 DEF PremiumOK, UnlocksOK, ClaimsOK
    <2>2. ASSUME failed = 0, NEW a \in AccountIds
          PROVE  /\ Charged(a) /\ ~InHand("unlock", a) => a \in unlocks
                 /\ a \in claims /\ ~InHand("claim", a)
                        => \E i \in DOMAIN rewards : rewards[i].referred = a
        BY <1>3, <2>2 DEF PremiumOK, UnlocksOK, ClaimsOK, InHand, At
    <2>3. QED
        BY <2>1, <2>2 DEF RecordedIsPosted
<1>4. QED
    BY <1>1, <1>2, <1>3, PTL DEF Spec

-----------------------------------------------------------------------------
(* Spend limits *)

(* The steps of orders leave the limits, and changes under way, alone. *)
LEMMA PurchasesSpareLimits ==
    ASSUME CallsOK, PurchasesNext
    PROVE  /\ UNCHANGED limitsVars
           /\ \A k \in Slots : call'[k].op = "limits" => call'[k] = call[k]
<1>1. ASSUME NEW k \in Slots, NEW key, NEW coins, CreateOrder(k, key, coins)
      PROVE  UNCHANGED limitsVars /\ \A j \in Slots : call'[j].op = "limits" => call'[j] = call[j]
    <2>1. PICK row, missed :
            Begin("orders", k, [op |-> "order", pc |-> "sum", key |-> key, coins |-> coins,
                                row |-> row, unchecked |-> Caps, missed |-> missed])
        BY <1>1 DEF CreateOrder
    <2>2. call'[k].op = "order" /\ \A j \in Slots \ {k} : call'[j] = call[j]
        BY <2>1 DEF Begin, CallsOK
    <2>3. UNCHANGED limitsVars
        BY <1>1 DEF CreateOrder
    <2>4. QED
        BY <2>2, <2>3
<1>2. ASSUME NEW k \in Slots, NEW c, CheckSpendLimit(k, c)
      PROVE  UNCHANGED limitsVars /\ \A j \in Slots : call'[j].op = "limits" => call'[j] = call[j]
    <2>1. PICK rec : call' = [call EXCEPT ![k] = rec] /\ (rec = Idle \/ rec.op = call[k].op)
        <3>1. call[k].op = [call[k] EXCEPT !.unchecked = @ \ {c}].op
            BY DEF CallsOK, IsRequest
        <3>2. QED
            BY <1>2, <3>1 DEF CheckSpendLimit, Answer, GoOn
    <2>2. call[k].op = "order" /\ UNCHANGED limitsVars
        BY <1>2 DEF CheckSpendLimit, At
    <2>3. call'[k].op # "limits" /\ \A j \in Slots \ {k} : call'[j] = call[j]
        BY <2>1, <2>2, IdleFields DEF CallsOK
    <2>4. QED
        BY <2>2, <2>3
<1>3. ASSUME NEW k \in Slots, StoreOrder(k)
      PROVE  UNCHANGED limitsVars /\ \A j \in Slots : call'[j].op = "limits" => call'[j] = call[j]
    <2>1. UNCHANGED limitsVars /\ call[k].op = "order"
        BY <1>3 DEF StoreOrder, At
    <2>2. ASSUME NEW j \in Slots
          PROVE  \/ call'[j] = [call[j] EXCEPT !.pc = "remember"] /\ call[j].op = "order"
                 \/ call'[j] = [call[j] EXCEPT !.missed = TRUE] /\ call[j].op = "order"
                 \/ call'[j] = call[j]
        BY <1>3, <2>1 DEF StoreOrder
    <2>3. \A j \in Slots : call[j].op = [call[j] EXCEPT !.pc = "remember"].op
                            /\ call[j].op = [call[j] EXCEPT !.missed = TRUE].op
        BY DEF CallsOK, IsRequest
    <2>4. QED
        BY <2>1, <2>2, <2>3
<1>4. ASSUME NEW k \in Slots, RememberKey(k)
      PROVE  UNCHANGED limitsVars /\ \A j \in Slots : call'[j].op = "limits" => call'[j] = call[j]
    <2>1. call' = [call EXCEPT ![k] = Idle] /\ UNCHANGED limitsVars
        BY <1>4 DEF RememberKey, Answer, GoOn
    <2>2. QED
        BY <2>1, IdleFields DEF CallsOK
<1>5. QED
    BY <1>1, <1>2, <1>3, <1>4, IdleFields DEF PurchasesNext, OrderFails, Restart

(* Only changes of limits, and days, change the limits. *)
LEMMA LimitsFrame ==
    ASSUME CallsOK, [Next]_vars
    PROVE  /\ CallsOK'
           /\ \/ LimitsNext
              \/ /\ UNCHANGED limitsVars
                 /\ \A k \in Slots : call'[k].op = "limits" => call'[k] = call[k]
<1>1. ASSUME UNCHANGED moneyVars, Spares(MoneyOps)
      PROVE  UNCHANGED limitsVars /\ \A k \in Slots : call'[k].op = "limits" => call'[k] = call[k]
    BY <1>1, IdleFields DEF Spares, moneyVars, MoneyOps
<1>2. CASE UNCHANGED vars /\ Moves({})
    <2>1. UNCHANGED moneyVars
        BY <1>2 DEF vars, moneyVars
    <2>2. QED
        BY <1>1, <1>2, <2>1, StepMoves, GroupsSpared
<1>3. CASE MoneyNext
    <2>1. CASE PremiumNext /\ UNCHANGED limitsVars
        <3>1. Moves(PremiumOps) /\ "limits" \notin PremiumOps
            BY <2>1, PremiumMoves DEF PremiumOps
        <3>2. QED
            BY <2>1, <3>1, StepMoves, IdleFields DEF Moves
    <2>2. QED
        BY <1>3, <2>1, StepMoves, PurchasesSpareLimits DEF MoneyNext
<1>4. QED
    BY <1>1, <1>2, <1>3, StepMoves, GroupsSpared DEF ContactNext, StandingNext, ApartNext, CutShort

Values == CapValues \cup {Unset}

LimitRow == [cap : [Caps -> Values], pending : [Caps -> Values], due : Nat, coolingUntil : Nat]

(* A row that is to be stored was made today.  Its caps are no higher than those that
   hold, unless another row was stored since it was read. *)
LimitCall(r) ==
    r.op = "limits" =>
        /\ {"want", "row", "missed"} \subseteq DOMAIN r
        /\ r.want \in [Caps -> Values] /\ r.row \in LimitRow
        /\ r.row.due \in {Never, day + RaiseDelay}
        /\ ~r.missed => \A c \in Caps : Cap(c) # Unset => r.row.cap[c] <= Cap(c)

(* What is pending is due no sooner than its time after anything was asked for last. *)
LimitsOK ==
    /\ day \in Nat /\ limits \in LimitRow
    /\ asked \in [Caps \X CapValues -> 0..day]
    /\ limits.due # Never => \A x \in Caps \X CapValues : asked[x] + RaiseDelay <= limits.due
    /\ \A k \in Slots : LimitCall(call[k])

(* What a row has are numbers, and what is pending in it was asked for. *)
LEMMA RowValues ==
    ASSUME NEW l \in LimitRow, NEW c \in Caps
    PROVE  /\ l.cap[c] \in Nat /\ l.due \in Nat
           /\ l.pending[c] # Unset => l.pending[c] \in CapValues
<1>1. l.cap[c] \in Values /\ l.pending[c] \in Values /\ l.due \in Nat
    BY DEF LimitRow
<1>2. Values \subseteq Nat
    BY LimitsAssumption DEF Values, Unset
<1>3. QED
    BY <1>1, <1>2 DEF Values

(* The caps that hold are those of the row, or those that were pending and are due. *)
LEMMA CapsThatHold ==
    ASSUME day \in Nat, NEW l \in LimitRow, NEW c \in Caps
    PROVE  LET r == Resolved(l) IN
           /\ r \in LimitRow
           /\ \/ r.cap[c] = l.cap[c]
              \/ /\ l.due # Never /\ l.due <= day
                 /\ l.pending[c] # Unset /\ r.cap[c] = l.pending[c]
<1>1. CASE l.due = Never \/ day < l.due
    BY <1>1 DEF Resolved
<1>2. CASE ~(l.due = Never \/ day < l.due)
    <2>1. /\ l.cap \in [Caps -> Values] /\ l.pending \in [Caps -> Values]
          /\ l = [l EXCEPT !.due = @] /\ Never \in Nat /\ Unset \in Values
        BY DEF LimitRow, Never, Values
    <2> DEFINE cap == [x \in Caps |-> IF l.pending[x] # Unset THEN l.pending[x] ELSE l.cap[x]]
    <2> DEFINE none == [x \in Caps |-> Unset]
    <2>2. cap \in [Caps -> Values] /\ none \in [Caps -> Values]
        BY <2>1
    <2>3. Resolved(l) = [l EXCEPT !.cap = cap, !.pending = none, !.due = Never]
        BY <1>2 DEF Resolved
    <2>4. cap[c] = IF l.pending[c] # Unset THEN l.pending[c] ELSE l.cap[c]
        OBVIOUS
    <2>5. l.due \in Nat /\ l.due <= day /\ l.due # Never
        BY <1>2 DEF LimitRow
    <2> HIDE DEF cap, none
    <2>6. Resolved(l) \in LimitRow /\ Resolved(l).cap = cap
        BY <2>1, <2>2, <2>3 DEF LimitRow
    <2>7. QED
        BY <1>2, <2>4, <2>5, <2>6
<1>3. QED
    BY <1>1, <1>2

(* A cap that holds is a number. *)
LEMMA CapsAreNumbers == LimitsOK => \A c \in Caps : Cap(c) \in Nat
<1>1. ASSUME LimitsOK, NEW c \in Caps PROVE Cap(c) \in Nat
    <2>1. Resolved(limits) \in LimitRow
        BY <1>1, CapsThatHold DEF LimitsOK
    <2>2. QED
        BY <2>1, RowValues DEF Cap
<1>2. QED
    BY <1>1

(* What a request makes of the row: no cap that holds goes up. *)
LEMMA ChangedRow ==
    ASSUME LimitsOK, NEW want \in [Caps -> Values]
    PROVE  LET r == ApplyCapChange(limits, want) IN
           /\ r \in LimitRow /\ r.due \in {Never, day + RaiseDelay}
           /\ \A c \in Caps : Cap(c) # Unset => r.cap[c] <= Cap(c)
<1> DEFINE l == Resolved(limits)
<1> DEFINE pending == [c \in Caps |-> IF Keeps(l.cap[c], want[c]) THEN l.pending[c]
                                      ELSE IF Raises(l.cap[c], want[c]) THEN want[c] ELSE Unset]
<1> DEFINE cap == [c \in Caps |-> IF Keeps(l.cap[c], want[c]) \/ Raises(l.cap[c], want[c])
                                  THEN l.cap[c] ELSE want[c]]
<1> DEFINE due == IF \A c \in Caps : pending[c] = Unset THEN Never ELSE day + RaiseDelay
<1>1. day \in Nat /\ limits \in LimitRow
    BY DEF LimitsOK
<1>2. l \in LimitRow
    <2>1. CASE Caps = {}
        <3>1. Resolved(limits) \in LimitRow
            BY <1>1, <2>1 DEF Resolved, LimitRow, Never
        <3>2. QED
            BY <3>1
    <2>2. QED
        BY <1>1, <2>1, CapsThatHold
<1>3. ApplyCapChange(limits, want) = [l EXCEPT !.cap = cap, !.pending = pending, !.due = due]
    BY <1>2 DEF ApplyCapChange, LimitRow
<1>4. /\ l.cap \in [Caps -> Values] /\ l.pending \in [Caps -> Values]
      /\ Values \subseteq Nat /\ Unset \in Values
    BY <1>2, LimitsAssumption DEF LimitRow, Values, Unset
<1>5. cap \in [Caps -> Values] /\ pending \in [Caps -> Values]
    BY <1>4
<1>6. due \in {Never, day + RaiseDelay} /\ due \in Nat
    BY <1>1, LimitsAssumption DEF Never
<1>7. ASSUME NEW c \in Caps, l.cap[c] # Unset
      PROVE  cap[c] <= l.cap[c]
    <2>1. PICK x \in Nat, w \in Nat : x = l.cap[c] /\ w = want[c]
        BY <1>4
    <2>2. cap[c] = IF Keeps(x, w) \/ Raises(x, w) THEN x ELSE w
        BY <2>1
    <2>3. QED
        BY <1>7, <2>1, <2>2 DEF Raises
<1> HIDE DEF cap, pending, due
<1>8. \A c \in Caps : Cap(c) = l.cap[c]
    BY DEF Cap
<1> HIDE DEF l
<1>9. [l EXCEPT !.cap = cap, !.pending = pending, !.due = due] \in LimitRow
    BY <1>2, <1>5, <1>6 DEF LimitRow
<1>10. /\ [l EXCEPT !.cap = cap, !.pending = pending, !.due = due].cap = cap
       /\ [l EXCEPT !.cap = cap, !.pending = pending, !.due = due].due = due
    BY <1>2 DEF LimitRow
<1>11. QED
    BY <1>3, <1>6, <1>7, <1>8, <1>9, <1>10

(* In the beginning there are no limits. *)
LEMMA LimitsInitially == Init => LimitsOK
<1> SUFFICES ASSUME Init PROVE LimitsOK
    OBVIOUS
<1>1. day = 1 /\ limits = NewLimits /\ asked = [x \in Caps \X CapValues |-> Never]
    BY DEF Init, LimitsInit
<1>2. \A k \in Slots : call[k] = Idle
    BY DEF Init, CallsInit
<1>3. NewLimits \in LimitRow /\ NewLimits.due = Never
    BY DEF NewLimits, LimitRow, Never, Values
<1>4. asked \in [Caps \X CapValues -> 0..day]
    BY <1>1 DEF Never
<1>5. \A k \in Slots : LimitCall(call[k])
    BY <1>2, IdleFields DEF LimitCall
<1>6. QED
    BY <1>1, <1>3, <1>4, <1>5 DEF LimitsOK

(* A request begins: it made its row of the one that is there. *)
LEMMA BeginLimits ==
    ASSUME CallsOK, LimitsOK, NEW k \in Slots, NEW want \in [Caps -> Values], NEW cooling,
           UpdateSpendLimits(k, want, cooling)
    PROVE  LimitsOK' /\ UNCHANGED limitsVars
<1> DEFINE made == ApplyCapChange(limits, want)
<1>1. PICK part, row :
        /\ Begin(part, k, [op |-> "limits", pc |-> "set", missed |-> FALSE, want |-> want, row |-> row])
        /\ \/ row = made
           \/ row = [made EXCEPT !.coolingUntil = day + 1]
           \/ row = [made EXCEPT !.coolingUntil = Never]
        /\ UNCHANGED limitsVars
    BY DEF UpdateSpendLimits
<1>2. /\ made \in LimitRow /\ made.due \in {Never, day + RaiseDelay}
      /\ \A c \in Caps : Cap(c) # Unset => made.cap[c] <= Cap(c)
    BY ChangedRow
<1> HIDE DEF made
<1>3. row \in LimitRow /\ row.due = made.due /\ row.cap = made.cap
    <2>1. day + 1 \in Nat /\ Never \in Nat
        BY DEF LimitsOK, Never
    <2>2. QED
        BY <1>1, <1>2, <2>1 DEF LimitRow
<1> DEFINE rec == [op |-> "limits", pc |-> "set", missed |-> FALSE, want |-> want, row |-> row]
<1>4. LimitCall(rec)
    BY <1>2, <1>3 DEF LimitCall
<1>5. call' = [call EXCEPT ![k] = rec]
    BY <1>1 DEF Begin
<1> HIDE DEF rec
<1>6. call'[k] = rec /\ \A j \in Slots \ {k} : call'[j] = call[j]
    BY <1>5 DEF CallsOK
<1>7. \A j \in Slots : LimitCall(call'[j])
    BY <1>4, <1>6 DEF LimitsOK
<1>8. \A c \in Caps : Cap(c)' = Cap(c)
    BY <1>1 DEF Cap, Resolved, limitsVars
<1>9. \A j \in Slots : LimitCall(call[j])'
    BY <1>1, <1>7, <1>8 DEF LimitCall, limitsVars
<1>10. QED
    BY <1>1, <1>9 DEF LimitsOK, limitsVars

(* A row is stored: what is pending in it is due RaiseDelay from today. *)
LEMMA SetLimitsKeeps ==
    ASSUME CallsOK, LimitsOK, NEW k \in Slots, SetLimits(k)
    PROVE  LimitsOK' /\ RaiseWaits
<1>1. PICK row : row = call[k].row
    OBVIOUS
<1>2. PICK want : want = call[k].want
    OBVIOUS
<1>3. /\ limits' = row /\ day' = day
      /\ asked' = [x \in Caps \X CapValues |-> IF want[x[1]] = x[2] THEN day ELSE asked[x]]
      /\ call[k].op = "limits" /\ call[k].pc = "set" /\ call'[k] = Idle
      /\ \A j \in Slots \ {k} : call'[j] = IF call[j].op \in {"limits", "order"}
                                            THEN [call[j] EXCEPT !.missed = TRUE] ELSE call[j]
    BY <1>1, <1>2 DEF SetLimits, At
<1>4. /\ row \in LimitRow /\ row.due \in {Never, day + RaiseDelay}
      /\ ~call[k].missed => \A c \in Caps : Cap(c) # Unset => row.cap[c] <= Cap(c)
    BY <1>1, <1>3 DEF LimitsOK, LimitCall
<1>5. day \in Nat /\ asked \in [Caps \X CapValues -> 0..day]
    BY DEF LimitsOK
<1>6. asked' \in [Caps \X CapValues -> 0..day]
    BY <1>3, <1>5
<1>7. row.due # Never => \A x \in Caps \X CapValues : asked'[x] + RaiseDelay <= row.due
    <2>1. SUFFICES ASSUME row.due # Never, NEW x \in Caps \X CapValues
                   PROVE  asked'[x] + RaiseDelay <= row.due
        OBVIOUS
    <2>2. asked'[x] \in 0..day /\ row.due = day + RaiseDelay
        BY <1>4, <1>6, <2>1
    <2>3. QED
        BY <1>5, <2>2, LimitsAssumption
<1>8. ASSUME NEW j \in Slots PROVE LimitCall(call[j])'
    <2>1. CASE j = k
        BY <1>3, <2>1, IdleFields DEF LimitCall
    <2>2. CASE j # k /\ call[j].op = "limits"
        <3>1. LimitCall(call[j]) /\ call'[j] = [call[j] EXCEPT !.missed = TRUE]
            BY <1>3, <2>2 DEF LimitsOK
        <3>2. {"want", "row", "missed"} \subseteq DOMAIN call[j]
            BY <2>2, <3>1 DEF LimitCall
        <3>3. /\ {"want", "row", "missed"} \subseteq DOMAIN call'[j] /\ call'[j].missed = TRUE
              /\ call'[j].want = call[j].want /\ call'[j].row = call[j].row
            BY <3>1, <3>2
        <3>4. QED
            BY <1>3, <2>2, <3>1, <3>3 DEF LimitCall
    <2>3. CASE j # k /\ call[j].op # "limits"
        <3>1. call'[j].op = call[j].op
            <4>1. [call[j] EXCEPT !.missed = TRUE].op = call[j].op
                BY DEF CallsOK, IsRequest
            <4>2. QED
                BY <1>3, <2>3, <4>1
        <3>2. QED
            BY <2>3, <3>1 DEF LimitCall
    <2>4. QED
        BY <2>1, <2>2, <2>3
<1>9. LimitsOK'
    BY <1>3, <1>4, <1>5, <1>6, <1>7, <1>8 DEF LimitsOK
<1>10. ASSUME NEW c \in Caps, Cap(c) # Unset, Cap(c)' > Cap(c), ~StoredOverAnother
       PROVE  asked[<<c, Cap(c)'>>] + RaiseDelay <= day'
    <2>1. ~call[k].missed
        BY <1>1, <1>3, <1>10 DEF StoredOverAnother, At
    <2>2. row.cap[c] <= Cap(c)
        BY <1>4, <1>10, <2>1
    <2>3. Cap(c)' = Resolved(row).cap[c]
        BY <1>3 DEF Cap, Resolved
    <2>4. Cap(c) \in Nat /\ row.cap[c] \in Nat
        BY <1>4, RowValues, CapsAreNumbers
    <2>5. /\ row.due # Never /\ row.due <= day
          /\ row.pending[c] # Unset /\ Cap(c)' = row.pending[c]
        <3>1. Cap(c)' # row.cap[c]
            BY <1>10, <2>2, <2>4
        <3>2. QED
            BY <1>4, <1>5, <2>3, <3>1, CapsThatHold
    <2>6. Cap(c)' \in CapValues /\ row.due = day + RaiseDelay
        BY <1>4, <2>5, RowValues
    <2>7. asked[<<c, Cap(c)'>>] \in 0..day
        BY <1>5, <2>6
    <2>8. QED
        BY <1>3, <1>5, <2>5, <2>6, <2>7, LimitsAssumption
<1>11. QED
    BY <1>9, <1>10 DEF RaiseWaits

(* A day passes: what holds now was due already, or is due today. *)
LEMMA TickKeeps ==
    ASSUME CallsOK, LimitsOK, Tick
    PROVE  LimitsOK' /\ RaiseWaits
<1>1. /\ limits' = limits /\ asked' = asked /\ day' = day + 1
      /\ \A k \in Slots : call'[k] = Idle
    BY DEF Tick, callVars
<1>2. /\ day \in Nat /\ limits \in LimitRow /\ asked \in [Caps \X CapValues -> 0..day]
      /\ limits.due # Never => \A x \in Caps \X CapValues : asked[x] + RaiseDelay <= limits.due
    BY DEF LimitsOK
<1>3. asked' \in [Caps \X CapValues -> 0..day']
    BY <1>1, <1>2
<1>4. \A k \in Slots : LimitCall(call[k])'
    BY <1>1, IdleFields DEF LimitCall
<1>5. LimitsOK'
    BY <1>1, <1>2, <1>3, <1>4 DEF LimitsOK
<1>6. ASSUME NEW c \in Caps, Cap(c) # Unset, Cap(c)' > Cap(c)
      PROVE  asked[<<c, Cap(c)'>>] + RaiseDelay <= day'
    <2> DEFINE cap == [x \in Caps |-> IF limits.pending[x] # Unset THEN limits.pending[x]
                                      ELSE limits.cap[x]]
    <2>1. /\ limits.due \in Nat /\ limits.cap[c] \in Nat
          /\ limits.pending[c] # Unset => limits.pending[c] \in CapValues
        BY <1>2, RowValues
    <2>2. CASE limits.due = Never \/ day < limits.due
        <3>1. Cap(c) = limits.cap[c]
            BY <2>2 DEF Cap, Resolved
        <3>2. Cap(c)' = IF limits.due = Never \/ day' < limits.due THEN limits.cap[c] ELSE cap[c]
            BY <1>1, <1>2 DEF Cap, Resolved, LimitRow
        <3>3. cap[c] = IF limits.pending[c] # Unset THEN limits.pending[c] ELSE limits.cap[c]
            OBVIOUS
        <3> HIDE DEF cap
        <3>4. /\ limits.due # Never /\ ~(day' < limits.due)
              /\ limits.pending[c] # Unset /\ Cap(c)' = limits.pending[c]
            BY <1>6, <2>1, <3>1, <3>2, <3>3
        <3>5. PICK x \in Caps \X CapValues : x = <<c, Cap(c)'>>
            BY <2>1, <3>4
        <3>6. asked[x] + RaiseDelay <= limits.due /\ asked[x] \in Nat
            BY <1>2, <3>4, <3>5
        <3>7. QED
            BY <1>1, <1>2, <2>1, <3>4, <3>5, <3>6, LimitsAssumption
    <2>3. CASE ~(limits.due = Never \/ day < limits.due)
        <3>1. ~(limits.due = Never \/ day' < limits.due)
            BY <1>1, <1>2, <2>1, <2>3
        <3>2. Cap(c)' = Cap(c)
            BY <1>1, <2>3, <3>1 DEF Cap, Resolved
        <3>3. Cap(c) \in Nat
            BY CapsAreNumbers
        <3>4. QED
            BY <1>6, <3>2, <3>3
    <2>4. QED
        BY <2>2, <2>3
<1>7. QED
    BY <1>5, <1>6 DEF RaiseWaits

(* While the row is as it is, its caps hold, and so does what is known of changes. *)
LEMMA LimitsRest ==
    ASSUME LimitsOK, UNCHANGED limitsVars
    PROVE  /\ RaiseWaits
           /\ (\A k \in Slots : call'[k].op = "limits" => call'[k] = call[k]) => LimitsOK'
<1>1. \A c \in Caps : Cap(c)' = Cap(c)
    BY DEF Cap, Resolved, limitsVars
<1>2. \A c \in Caps : Cap(c) \in Nat
    BY CapsAreNumbers
<1>3. RaiseWaits
    BY <1>1, <1>2 DEF RaiseWaits
<1>4. ASSUME \A k \in Slots : call'[k].op = "limits" => call'[k] = call[k]
      PROVE  \A k \in Slots : LimitCall(call[k])'
    BY <1>1, <1>4 DEF LimitsOK, LimitCall, limitsVars
<1>5. QED
    BY <1>3, <1>4 DEF LimitsOK, limitsVars

(* No cap goes up sooner than RaiseDelay after its value was asked for last, however other
   changes, days and orders come between (RaiseWaits: ApplyCapChange, resolvePendingIfDue):
   every change moves the date of all that is pending, and so the date is never sooner than
   that after any request. *)
THEOREM RaisesHaveWaited == Spec => RaisesWait
<1>1. Init => CallsOK /\ LimitsOK
    BY InitCalls, LimitsInitially
<1>2. ASSUME CallsOK, LimitsOK, [Next]_vars
      PROVE  (CallsOK /\ LimitsOK)' /\ [RaiseWaits]_vars
    <2>1. CASE LimitsNext
        <3>1. ASSUME NEW k \in Slots, NEW want \in [Caps -> Values], NEW cooling,
                     UpdateSpendLimits(k, want, cooling)
              PROVE  LimitsOK' /\ RaiseWaits
            BY <1>2, <3>1, BeginLimits, LimitsRest
        <3>2. \A want \in Wants : want \in [Caps -> Values]
            BY DEF Wants, Values
        <3>3. [c \in Caps |-> Unset] \in [Caps -> Values]
            BY DEF Values
        <3>4. QED
            BY <1>2, <2>1, <3>1, <3>2, <3>3, LimitsFrame, SetLimitsKeeps, TickKeeps DEF LimitsNext
    <2>2. QED
        BY <1>2, <2>1, LimitsFrame, LimitsRest
<1>3. QED
    BY <1>1, <1>2, PTL DEF Spec, RaisesWait
=============================================================================
