\* Does a listener that unregistered stay silent? Calls may overlap freely.
CONSTANTS
  t1 = t1
  t2 = t2
  Threads = {t1, t2}
  NoOne = NoOne
  topic = topic
  Topics = {topic}
  Methods = {}
  l1 = l1
  l2 = l2
  Listeners = {l1, l2}
  Messages = {}
  RacesAllowed = TRUE
  MaxDeclares = 2
SYMMETRY Symmetry
SPECIFICATION Spec
INVARIANT UnregisteredNotServed
