SPECIFICATION FairSpec
CONSTANTS
    Scheduled = sched
    Buttons = {b1}
    Day = 3
    Times = {0, 2}
    None = None
    MaxUpsets = 1
    Faults = {"open", "hang", "shield", "off", "dbread", "dbwrite", "race", "clock", "crash"}
INVARIANT TypeOK
INVARIANT WakesOnSchedule
INVARIANT RecordedIsTold
PROPERTY KeepsRunning
