SPECIFICATION ControlSpec
CONSTANTS
    i1 = i1  i2 = i2  i3 = i3  k1 = k1  k2 = k2
    NoLease = NoLease  Outsider = Outsider  Instance = {i1, i2, i3}
    TTL = 2  NumStores = 1  MaxClock = 4  MaxCrashes = 1
    Faults <- AllButRenewals  Timely = TRUE  PromptStart = TRUE  Outsiders = FALSE
    Absent = Absent  MaxKey = 4  Value = {v, w}  MaxHead = 1
    Caller = {r1, r2}  Doc <- MCDoc  SignKid <- MCSignKid
    Debounce = 1  MaxFaults = 0  NoKid = NoKid
    None = None  Keep = Keep  Path = Path  BadPath = BadPath
    Malformed = Malformed  Junk = Junk  Denied = Denied
    Tenant = {"home", "other"}  AllowedTenants = {"home"}  HomeTenant = "home"
    Deployments = {"templated"}
    Op = {"login", "callback", "refresh", "logout", "me"}  MaxFlow = 1  MaxToken = 2
INVARIANTS
    AtMostOneHolder OwnerHoldsLease
    ExactWhenAligned
    TenantGate RefreshCookieLive
    ControlTypesOK
PROPERTIES SessionEstablished
CHECK_DEADLOCK FALSE
