\* Three threads publish on two topics, with five declarations.
CONSTANTS
  t1 = t1
  t2 = t2
  t3 = t3
  Threads = {t1, t2, t3}
  NoOne = NoOne
  u1 = u1
  u2 = u2
  Uris = {u1, u2}
  MaxDeclares = 5
SYMMETRY Symmetry
SPECIFICATION Spec
INVARIANTS TypeOK PutDeclared LeakBounded NoPublisherLost
