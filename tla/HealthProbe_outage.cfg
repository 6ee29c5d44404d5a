SPECIFICATION ProbeSpec
CONSTANTS
    Period = 4  MaxLate = 1  MaxOutages = 1
PROPERTY OutageNoticed
CHECK_DEADLOCK FALSE
