SPECIFICATION Spec
CONSTANTS
  Keys = {plain, dot}
  LegacyKeys = {plain}
  Values = {v1, v2, v3}
  Nothing = Nothing
  MaxCuts = 2
INVARIANTS OneCutRevivesNothing
