SPECIFICATION Spec
CONSTANTS
  day = day
  meals = meals
  lunch = lunch
  food = food
  blank = blank
  s1 = s1
  s2 = s2
  Slots = {s1, s2}
  Lines <- MCLines
  Blank = blank
  LevelOf <- MCLevelOf
  Calls <- MCCalls
  Starts <- MCStarts
  MaxCalls = 3
  MaxFaults = 1
INVARIANTS
  TypeOK
  AppendsKeepTheNote
PROPERTIES
  ImplementsNote
