SPECIFICATION Spec
CONSTANTS
  Session = {s1, s2}
  User = {u1, u2}
  Password = {w1, w2}
  First = u1
  Secret = w1
  None = None
  Junk = Junk
  Retries = 1
  Careful = {"one_session_per_user", "no_repeated_change", "auth_only"}
INVARIANTS
  SessionsKeepTheirUser
  NoForgottenUser
  PasswordKnown
  SuccessMeansDone
SYMMETRY Symmetry
