CONSTANTS
  NoHook = NoHook
  Hooks = {h1, h2, h3}
  Types = {"info", "command_run", "command"}
  Priorities = {1, 2}
  CommandNames = {1, 2}
  MaxCallsValues = {0}
  MaxDepth = 3
  HOOK_COMMAND_MAX_CALLS = 2
  TopLevelCommands = TRUE
SPECIFICATION Spec
INVARIANT NoDanglingWalk
