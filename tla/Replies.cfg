SPECIFICATION ReplySpec
CONSTANTS
    MaxSteps = 9
    MaxShots = 3
    MaxActs = 1
    MaxSettle = 2
    MaxProbes = 2
    MaxOwn = 4
INVARIANTS NoBrowserLeft HaltedForGood NoStepRunsTwice
    CapturesInPlace CompleteUnlessLate CapturedAfterItsSteps ResultsUnderTheirNames
CHECK_DEADLOCK FALSE
