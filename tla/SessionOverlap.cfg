\* Any two calls of init() and term() may overlap.
CONSTANTS
  c1 = c1
  c2 = c2
  c3 = c3
  Callers = {c1, c2, c3}
  NoCaller = NoCaller
  OpenOutcomes = {"ok", "configError", "openError"}
  OverlapAllowed = TRUE
  MaxOpens = 2
SYMMETRY Symmetry
SPECIFICATION Spec
INVARIANTS TypeOK RefCountExact NoSessionLeak ClosedWhenUnused
