SPECIFICATION MembershipSpec
CONSTANTS
  Users = {u1, u2}
  Addresses = {a1, a2}
  Invites = {i1, i2}
  Founder = u1
  FirstAddress = a1
INVARIANT
  AlwaysAnOwner
CHECK_DEADLOCK FALSE
