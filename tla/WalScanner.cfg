SPECIFICATION Spec
CONSTANTS
  NoTxn = "none"
  NoChannel = ""
  Msg <- FullMsg
  Meta <- FullMeta
  TxnID <- OneTxn
  Channels <- None
  Keepalive = 4
  BuildMayFail = TRUE
  FilterFunc <- FullMsg
  ReadVChannel = ""
  PendingLimit = 1
  Limit = 3
  WalMayFail = FALSE
  MaxRead = 6
INVARIANTS
  DeliveredInOrder
  NothingUnconfirmed
  NoRepeat
  WatermarkComplete
  TxnAtomic
  NoStaleBuilder
  BytesExact
PROPERTY
  PromiseSpec
