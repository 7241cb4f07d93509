\* Two requests, which may share an id, two listeners, two responders, three responses.
CONSTANTS
  Requests = {r1, r2}
  Ids = {i1, i2}
  Queryables = {q1, q2}
  Responders = {p1, p2}
  MaxAnswers = 3
SPECIFICATION Spec
SYMMETRY Symmetry
INVARIANTS TypeOK RepliedOnceAlone QueriesLive NoQueryStranded OneAnswerable AnswerMatches
CHECK_DEADLOCK FALSE
