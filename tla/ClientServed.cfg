\* Is a client in use always connected? Every session opens.
CONSTANTS
  t1 = t1
  t2 = t2
  Threads = {t1, t2}
  NoOne = NoOne
  OpenOutcomes = {"ok"}
  MaxClients = 2
SYMMETRY Symmetry
SPECIFICATION Spec
INVARIANT HandleServed
