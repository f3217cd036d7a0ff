CONSTANTS
  Top = 5
  MaxNodes = 3
  Width = 64
  ReplayedStarts <- OneStart
SPECIFICATION Spec
INVARIANTS   OverlapIsExact
CHECK_DEADLOCK FALSE
