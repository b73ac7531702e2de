SPECIFICATION Spec
CONSTANTS
  r1 = r1
  r2 = r2
  i0 = i0
  i1 = i1
  i2 = i2
  vm = vm
  strings = strings
  generic = generic
  raw = raw
  broken = broken
  tidy = tidy
  clean = clean
  bloated = bloated
  None = None
  Outputs <- MCOutputs
  score <- MCscore
  validSyntax <- MCvalid
  converged <- MCconverged
  size <- MCsize
  cleanup <- MCcleanup
  nestedBest <- MCnested
  confidenceGains <- MCgains
  cacheSize = 1
  Runs = {r1, r2}
  Inputs = {i0, i1, i2}
  Engines = {vm, strings, generic}
  place <- MCplace
  detectScore <- MCdetectScore
  engineResult <- MCengineResult
  Requests <- MCRequests
INVARIANTS LateAnswersDropped SelectionPrefersValid ReportIsOfItsOutput
PROPERTIES DeepOnlyImproves Termination
