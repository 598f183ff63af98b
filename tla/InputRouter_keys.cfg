CONSTANTS
  Codes = {"lctrl", "a", "b", "c"}
  Logical <- MCLogical
  FunctionIds <- MCFunctionIds
  HoldFunctions = {"previous"}
  RepeatFunctions = {"volume"}
  AppFunctions = {"toggle_passthrough"}
  AppTogglePassthrough = "toggle_passthrough"
  Apps = {"app"}
  NoApp = NoApp
  Configs <- MCConfigs
  MappingLists <- MCMappingLists
  Rules <- MCRules
  MaxRevision = 1
  Function = {"toggle", "mute", "next"}
  AppFunction = {"toggle"}
  Id = {"m1", "m2"}
  Shortcut = {"s"}
  Group = {"g", "h"}
  App = {"p", "q"}
  RuleSets <- MCRuleSets
  Drafts <- MCDrafts
SPECIFICATION PartsSpec
INVARIANTS
  TypeOK
  OneOwner
  NothingStuck
  OutputsHeld
  Unambiguous
  ChecksAgree
PROPERTIES
  Authorized
  OneGesture
  FollowsPress
