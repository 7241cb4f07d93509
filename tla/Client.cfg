\* Two threads, three clients one after the other, sessions that may fail to open.
CONSTANTS
  t1 = t1
  t2 = t2
  Threads = {t1, t2}
  NoOne = NoOne
  OpenOutcomes = {"ok", "openError"}
  MaxClients = 3
SPECIFICATION Spec
INVARIANTS TypeOK OneClient DestroyedAlone NothingLeft ValueStays BothBasesServed RequestHasSession
PROPERTY ConstructionEnds
