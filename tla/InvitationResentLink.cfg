\* An invitation that is sent again off the full second.
SPECIFICATION Spec
CONSTANTS
    u1 = u1  u2 = u2  w1 = w1  w2 = w2  i1 = i1  i2 = i2  s1 = s1  s2 = s2
    Users = {u1, u2}
    Workspaces = {w1, w2}
    Invitations = {i1, i2}
    Invitees = {u2}
    Owner <- OneOwner
    Slots = {s1, s2}
    Commands <- InvitationCommands
    MaxWork = 5
    Second = 2
    Lifetime = 2
    MaxTime = 3
    MaxGeneration = 2
    MaxAttempts = 2
    None = None
INVARIANT CurrentLinkOpens
CHECK_DEADLOCK FALSE
