SPECIFICATION Spec
CONSTANT
  LegacyCompletion = TRUE
CHECK_DEADLOCK FALSE
INVARIANT
  SettingsLoad
