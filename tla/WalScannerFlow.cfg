SPECIFICATION FairSpec
CONSTANTS
  NoTxn = "none"
  NoChannel = ""
  TxnID <- OneTxn
  Keepalive = 4
  BuildMayFail = FALSE
  Msg <- FlowMsg
  Meta <- FlowMeta
  Channels <- VChannels
  FilterFunc <- FlowFilter
  ReadVChannel = "v1"
  PendingLimit = 0
  Limit = 4
  WalMayFail = TRUE
  MaxRead = 6
INVARIANTS
  OnlySelected
  ReleaseAfterStop
PROPERTIES
  CloseCompletes
  ConfirmedDelivered
  BackPressure
