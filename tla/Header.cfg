\* Every set of attributes, with an empty or a short token and three sinks.
CONSTANTS
  Width = 8
  ValueBytes <- Sizes
  TokenBytes = {0, 5}
  SinkBytes = {0, 8, 36}
SPECIFICATION Spec
INVARIANTS TypeOK WritesInBounds HeaderFilled ReadsInBounds RoundTrip SinkDecides
