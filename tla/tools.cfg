SPECIFICATION ToolsSpec
CONSTANTS
  MaxEntries = 3
  Libraries <- MCLibraries
  MaxLibs = 3
INVARIANTS TypeOK ReportsWhatWasThere NothingElseReported ToolTypeOK SearchExact TargetRestored
CHECK_DEADLOCK FALSE
