\* Two users: two requests of one and one of the other, or three of one alone.
SPECIFICATION MCSpec
CONSTANTS
  Users = {u1, u2}
  First = u1
  Shared = 2
  Others = 1
  TTL = 0
  Delay = 0
  Deadline = 1
  MaxCalls = 3
INVARIANT WorkspaceInv
 
PROPERTY KeepsLifecycle
PROPERTY ZeroTrace
