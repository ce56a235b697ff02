SPECIFICATION Spec
CONSTANTS
  Debounce = 2
  LongPress = 3
  MaxGap = 2
  OkCount = 1
  Patterns <- SomePatterns
INVARIANTS
  PatternShown
PROPERTIES
  Debounces
  LedFollows
