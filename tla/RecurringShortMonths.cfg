\* A schedule pinned to the 31st.
SPECIFICATION DatesSpec
CONSTANTS
  FirstYear = 2024
  LastYear = 2025
  Intervals = {1}
  RepeatDays = {31}
CHECK_DEADLOCK FALSE
PROPERTIES
  EveryPeriodHasItsRun
