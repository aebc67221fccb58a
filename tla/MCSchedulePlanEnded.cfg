CONSTANTS
    LastDate = 3
    FirstDay = 1
    WeekLength = 2
    Rows <- MCRows
    Ends <- MCEnds
    Spots <- MCSpots
    HorizonDays = 1
    MaxSeries = 3
    MaxEdits = 1
SPECIFICATION Spec
INVARIANTS EndedIsQuiet
CHECK_DEADLOCK FALSE
