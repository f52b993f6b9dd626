SPECIFICATION Spec
CONSTANTS
  Pair = {x1, x2}
  Servers = {s1, s2}
  Lone = {s3}
  Vault = {e1}
  Machines = {g1}
  Savers = {k1}
  Dialers = {k2}
  MaxLimit = 2
  FewCalls = 2
  MoreCalls = 3
  Direct = Direct
  None = None
SYMMETRY Symmetry
CHECK_DEADLOCK FALSE
INVARIANTS RoutesAreSound ProfilesAreSound   HistoryIsSound SuggestionsAreSound
PROPERTIES  SettingsAreKept
