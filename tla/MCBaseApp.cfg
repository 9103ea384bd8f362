SPECIFICATION Spec
CONSTANTS
  a = a
  b = b
  c = c
  Accts = {a, b, c}
  Txs <- SomeTxs
  NoAcc = NoAcc
  None = None
  Genesis <- GenesisState
  Empty <- NoAccounts
  Queriers = {q1}
  HasPreChecker = TRUE
  MsgCacheSize = 1
  AccCacheSize = 1
  MaxHeight = 2
INVARIANTS NoReplay CachesFresh
PROPERTY RefinesLedger
