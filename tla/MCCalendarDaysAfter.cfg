SPECIFICATION CalendarSpec
CONSTANTS
  HOUR = 1
  Zone = 9
  SummerMonths = {4, 5, 6, 7, 8, 9}
  LastYear = 2101
  MaxAdded = 62
  Starts <- MCStarts
  Steps <- MCSteps
PROPERTY
  DaysAfterIsDate
