SPECIFICATION TextSpec
CONSTANTS
  Values <- MCValues
  MaxHours = 41
INVARIANTS
  DayEarlyOrRight
  TruncatedAtMost
