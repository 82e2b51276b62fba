SPECIFICATION Spec
CONSTANTS
  Users = {u1, u2, u3}
  Teams = {t1}
  Calls = {c1, c2, c3}
  MaxTeamSize = 2
  NotEnrolled = NotEnrolled
  NoTeam = NoTeam
  NoUser = NoUser
CHECK_DEADLOCK FALSE
SYMMETRY Symmetry
INVARIANTS
  TypeOK
  TeamSizeBound
  MembersBelong
PROPERTIES
  LastOutClosesTeam
