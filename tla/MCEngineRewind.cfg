SPECIFICATION Spec
CONSTANTS
  Ctx = 11
  LoopT = 3
  CtxSwitch = 4
  Layers = 2
  Drivers = {"session"}
  Prompts <- MCPrompts
  SessionPrompts <- MCAnyPrompts
  Budgets <- MCBudgets
  SysLen = 2
  HdrLen = 1
  CloseLen = 2
  ChainLen = 2
  HybridT = 4
  AnyRewind = TRUE
  MaxFaults = 0
INVARIANT PromptLenSound
CHECK_DEADLOCK FALSE
