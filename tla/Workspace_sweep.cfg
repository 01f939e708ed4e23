\* One user; RunLeftAlone.
SPECIFICATION Spec
CONSTANTS
  Users = {u1}
  TTL = 1
  Delay = 1
  Deadline = 3
  MaxCalls = 4
PROPERTY RunLeftAlone
