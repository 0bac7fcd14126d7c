SPECIFICATION BatchFairSpec
CONSTANTS Devices = {d1, d2}
 MaxRounds = 3
INVARIANTS ShownStands EarlyCancelIsQuiet
PROPERTY RoundsAndCancelsEnd
CHECK_DEADLOCK FALSE
