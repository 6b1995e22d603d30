SPECIFICATION FairSpec
CONSTANTS
  Opcodes = {a, b}
  NOP = nop
  QueueDepth = 2
  IdleResync = 2
  Timeouts = {1}
  DefaultTimeout = 1
  CreditMax = 1
  Grants = {0, 1}
  MaxDrain = 1
  MaxAge = 2
  MaxCmds = 2
  MaxLine = 1
INVARIANTS CompletionOrder OutcomeHonest CreditConserved StaleReplyOnlyForRetry
PROPERTIES TimeoutIsReal ResyncNeedsQuiet EveryCommandFinishes
