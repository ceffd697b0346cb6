CONSTANTS
  Schemas <- MCSchemas
  Values <- MCValues
  Depth <- MCDepth
  Misfit = Misfit
  Hosts <- MCHosts
  OtherHosts <- MCOtherHosts
  Folders <- MCFolders
  Others <- MCOthers
  Times <- MCTimes
  Retries <- MCRetries
  Vendored <- MCVendored
  Chars <- MCChars
  Fields = {"f", "g"}
  ExactDigits = 2
  MaxDigits = 4
  Configs <- MCConfigs
  Inputs <- MCInputs
  MaxExec = 2
  Outputs <- MCOutputs
  Caps <- MCCaps
  Runs <- MCRuns
  Codes = {0, 1}
SPECIFICATION Spec
INVARIANTS GateMeansContract VerifiedToolsLoad PinsHoldTools SandboxInterpreterVetted PreflightTellsSandbox DirectToolIsAwaited ShimFlagsAreTheAuthors ShimReadsDeclared
  ShimCapExact ShimAnswerFaithful
CHECK_DEADLOCK FALSE
