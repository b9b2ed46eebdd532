SPECIFICATION GatewaySpec
CONSTANTS
  h = h
  v = v
  c1 = c1
  c2 = c2

  NoConn = NoConn
  Accounts <- MCAccounts
  Host = h
  Conns <- MCConns
  BackfillLimit = 2
  SeenCap = 4
  ChanCap = 1
  SendCap = 3
  MaxSeq = 3
  MaxFrames = 1
  Chatter = {"GIFT_SENT", "MUTE_USER"}
SYMMETRY ConnSymmetry
INVARIANTS InOrder NoGapSinceTheAck CountIsSubscribers
CHECK_DEADLOCK FALSE
