SPECIFICATION Spec
CONSTANTS
  f = f
  g = g
  u = u
  v = v
  p1 = p1
  p3 = p3
  m1 = m1
  m2 = m2
  m3 = m3
  c1 = c1
  Files = {f, g}
  Users = {u, v}
  Contents = {"base", "x", "y", "d", "e"}
  Pushes = {p1, p3}
  PushUser <- MCPushUser
  PushFiles <- MCPushFiles
  Merges = {m1, m2, m3}
  MergeFile <- MCMergeFile
  Decided <- MCDecided
  Commits = {c1}
  CommitPush <- MCCommitPush
  Awaited = {f, g}
  MaxListed = 2
  None = None
CHECK_DEADLOCK FALSE
INVARIANTS
  HeadIsMerged
  RegisteredPushesAreComplete
  ResolvedCommitsAreDecided
PROPERTIES
  NodesLeaveWithTheirFile
  PromotionsExtendTheHead
