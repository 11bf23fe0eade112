CONSTANTS
  NoHook = NoHook
  Hooks = {h1, h2, h3}
  Types = {"timer", "command_run", "command"}
  Priorities = {1, 2}
  CommandNames = {1, 2}
  MaxCallsValues = {0, 2}
  MaxDepth = 3
  HOOK_COMMAND_MAX_CALLS = 2
  TopLevelCommands = FALSE
SPECIFICATION Spec
SYMMETRY Symmetry
INVARIANTS
  TypeOK
  NoDanglingWalk
  WalkIsExact
  TimerWithinLimit
  NothingLeftDeleted
