\* An owner and two users, two invitations, two requests at a time.
CONSTANTS
  Owner = owner
  Users = {owner, ann, bob}
  Invitations = {i1, i2}
  Requests = {p, q}
SYMMETRY RequestsAreAlike
SPECIFICATION Spec
INVARIANTS
  OnePendingInvitation
PROPERTIES
  JoinsConsumeInvitations
  RemovalsRespectRank
CHECK_DEADLOCK FALSE
