SPECIFICATION Spec
CONSTANTS
    Apps <- MCApps
    Lines <- MCLines
    Stores <- MCStores
    MaxLines = 3
    MaxFaults = 1
    MaxStarts = 1
    Absent = Absent
INVARIANTS
    StatesUsable
    WorkspacesLoaded
PROPERTIES
    LineReturns
CHECK_DEADLOCK FALSE
