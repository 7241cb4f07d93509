\* Can a constructor throw? Sessions may fail to open.
CONSTANTS
  t1 = t1
  t2 = t2
  Threads = {t1, t2}
  NoOne = NoOne
  OpenOutcomes = {"ok", "openError"}
  MaxClients = 2
SYMMETRY Symmetry
SPECIFICATION Spec
INVARIANT NeverThrows
