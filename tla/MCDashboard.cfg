SPECIFICATION FairSpec
CONSTANTS
  Commands = {c1, c2}
  Silent = {c2}
  Streams = {s1, s2}
  Capacity = 1
  Fetches = {f1, f2}
  Failing = {f1, f2}
  None = None
INVARIANTS
  NeverDeaf
  OneStream
PROPERTY FallbackConverges
