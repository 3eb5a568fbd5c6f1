SPECIFICATION Spec
CONSTANTS
  u1 = u1
  u2 = u2
  lower = lower
  upper = upper
  stranger = stranger
  Actors = {a1, a2}
  Accounts = {u1, u2}
  Tokens = {k1, k2}
  Nobody = Nobody
  Sessions = {s1, s2}
  Titles = {1, 2}
  Cases = {lower, upper}
  Strangers = {stranger}
  Texts <- MCTexts
  InChannel = TRUE
  PageSize = 2
  MaxLabels = 1
  MaxFaults = 1
  MaxOverlaps = 1
  MaxCommands = 2
CHECK_DEADLOCK FALSE
SYMMETRY Symmetry
INVARIANTS
  TypeOK
  ActsAsOwnAccount
  LoneReplyToggles
  ReportIsHonest
  LabelsStayUnique
