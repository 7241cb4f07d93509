\* One request, two listeners that answer it in two threads.
CONSTANTS
  Requests = {r1}
  Ids = {i1}
  Queryables = {q1, q2}
  Responders = {p1, p2}
  MaxAnswers = 2
SPECIFICATION Spec
SYMMETRY Symmetry
INVARIANT RepliedOnce
CHECK_DEADLOCK FALSE
