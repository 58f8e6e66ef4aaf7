SPECIFICATION Spec
CONSTANTS
  Ctx = 11
  LoopT = 3
  CtxSwitch = 4
  Layers = 2
  Drivers = {"batch", "chat", "session", "spec"}
  Prompts <- MCPrompts
  SessionPrompts <- MCAnyPrompts
  Budgets <- MCBudgets
  SysLen = 2
  HdrLen = 1
  CloseLen = 2
  ChainLen = 2
  HybridT = 4
  AnyRewind = FALSE
  MaxFaults = 1
INVARIANTS TypeOK ContextExact FedExactlyOnce TailReadsFinishedRows
PROPERTIES TurnKeepsHistory CallsEnd
CHECK_DEADLOCK FALSE
