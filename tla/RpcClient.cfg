\* Two requests, one pool thread, channels of one reply, four replies.
CONSTANTS
  Requests = {r1, r2}
  Workers = 1
  ChannelSize = 1
  MaxReplies = 4
SPECIFICATION Spec
INVARIANTS TypeOK PrefixDecides
PROPERTY FutureCompletes
CHECK_DEADLOCK FALSE
