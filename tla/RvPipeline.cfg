CONSTANTS
  NumWords = 3
  RegIds <- MCRegs
  DataWords = {0}
  IrqVector = 2
  ResetVector = 0
  Programs <- AllPrograms
SPECIFICATION FairSpec
INVARIANTS BusMatchesPending InOrder OperandsFresh
PROPERTIES PreciseSteps IrqNotIgnored
