SPECIFICATION Spec
CONSTANTS
  Invocations <- MCInvocations
  Inputs <- MCInputs
  Disk <- MCDisk
  Said <- MCSaid
  Atoi <- MCAtoi
INVARIANTS
  GateOpensOnlyWhenClean
  EveryReadableFileIsReported
  StatusAgreesWithReports
\* The process exits.
CHECK_DEADLOCK FALSE
