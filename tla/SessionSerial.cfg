\* No init() overlaps a term(); otherwise as SessionOverlap.cfg.
CONSTANTS
  c1 = c1
  c2 = c2
  c3 = c3
  Callers = {c1, c2, c3}
  NoCaller = NoCaller
  OpenOutcomes = {"ok", "configError", "openError"}
  OverlapAllowed = FALSE
  MaxOpens = 2
SPECIFICATION Spec
INVARIANTS HolderHasOpenSession CopyNotStale
PROPERTY SharesOneSession
