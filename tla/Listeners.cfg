\* Two threads, three listeners, a topic and a method; one message.
CONSTANTS
  t1 = t1
  t2 = t2
  Threads = {t1, t2}
  NoOne = NoOne
  topic = topic
  method = method
  Topics = {topic}
  Methods = {method}
  l1 = l1
  l2 = l2
  l3 = l3
  Listeners = {l1, l2, l3}
  m1 = m1
  Messages = {m1}
  RacesAllowed = FALSE
  MaxDeclares = 3
SYMMETRY Symmetry
SPECIFICATION Spec
INVARIANTS TypeOK RegistryMatchesZenoh NoSubscriberOutlives
PROPERTY Linearizable
