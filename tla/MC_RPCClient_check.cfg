CONSTANTS
  Methods <- MCMethods
  Known <- MCKnown
  Typed <- MCTyped
  ParamForms = {"json", "badjson", "wrongtype"}
  MaxParams = 2
  Outcomes <- MCOutcomes
  Creds = {"unset", "wrong", "ok"}
  Hosts = {"local", "refused", "down"}
SPECIFICATION Spec
\* The call ends: the process exits.
CHECK_DEADLOCK FALSE
INVARIANTS TypeOK CLIExitFollowsReply
