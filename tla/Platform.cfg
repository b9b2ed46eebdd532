SPECIFICATION Spec
CONSTANTS
    a1 = a1
    a2 = a2
    a3 = a3
    k1 = k1
    k2 = k2
    AccountIds = {a1, a2, a3}
    Slots = {k1, k2}
    Loads <- MCLoads
    ClientMsgIds = {m1, m2}
    RateLimitMax = 2
    RepeatOffenderThreshold = 1
    Actions = {"warn", "restrict_broadcast", "suspend"}
    Devices = {d1}
    Phones = {p1}
    Emails = {e1}
    MaxSends = 2
    MaxAttempts = 2
    DeviceHashes = {d1}
    ClientKeys = {c1, c2}
    Prices = {50, 100}
    RewardCoins = 100
    Caps = {"daily", "weekly"}
    CapValues = {100, 600}
    RaiseDelay = 2
    LastDay = 3
    OrderKeys = {o1, o2}
    Packs = {100, 500}
    LastRoom = 3
    Tabs = {"for_you"}
    PageSize = 2
    HistoryLimit = 2
    PageBuffer = 1
    Audience = {v1, v2}
    EventsKept = 4
    Parts <- MCParts
SYMMETRY Symmetry
INVARIANTS
    TypeOK
    DeliveredOnceInOrder
    MatchedIffMutual
    RevokedStaysOut
    UpheldIsNotReinstated
    RecordedIsPosted
    PagesMakeOneRanking
    SavedIsKept
    SharedConductIsSeen
    StatusShowsWhoseTurn
    CodesWorkOnce
    ViewersAreOffered
    StoresAgree
PROPERTIES
    ContactsAreOpen
    AnsweredAreOnTheirWay
    EndingsAreKept
    RaisesWait
    PurchasesKeepToLimits
CHECK_DEADLOCK FALSE
