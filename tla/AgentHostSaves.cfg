SPECIFICATION Spec
CONSTANTS
  Providers = {"codex", "openai", "unknown"}
  MaxPrompts = 3
  MaxStarts = 3
INVARIANT SavedAfterSuccess
CHECK_DEADLOCK FALSE
