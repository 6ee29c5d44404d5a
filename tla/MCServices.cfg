SPECIFICATION ServicesSpec
CONSTANTS
    i1 = i1  i2 = i2  i3 = i3  k1 = k1  k2 = k2
    NoLease = NoLease  Outsider = Outsider  Instance = {i1, i2}
    TTL = 2  NumStores = 1  MaxClock = 5  MaxCrashes = 1
    Faults = {}  Timely = TRUE  PromptStart = TRUE  Outsiders = TRUE
    None = None  Task = {t1, t2, t3}  Key = {s1, s2}  Entry = {e1, e2, e3}
    Caller = {r1, r2}  Doc <- MCDoc  SignKid <- MCSignKid
    Debounce = 2  MaxFaults = 1  NoKid = NoKid
    Period = 4  MaxLate = 5  MaxOutages = 2
    Server = {p1}  Command = {q1}  Nobody = Nobody  MaxRequests = 1
INVARIANTS
    ServicesTypesOK
PROPERTIES
    ImplementsMutex WaiterEnters
    DeadLeaseReplaced SupersededReportsUnready
    RotationHandled CleanHandover
CHECK_DEADLOCK FALSE
