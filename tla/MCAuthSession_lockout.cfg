SPECIFICATION AuthSpec
CONSTANTS
    k1 = k1  k2 = k2
    Caller = {r1, r2}  Doc <- MCDoc  SignKid <- MCSignKid
    Debounce = 1  MaxFaults = 0  NoKid = NoKid
    None = None  Keep = Keep  Path = Path  BadPath = BadPath
    Malformed = Malformed  Junk = Junk  Denied = Denied
    Tenant = {"home", "other"}  AllowedTenants = {"home"}  HomeTenant = "home"
    Deployments = {"single", "templated"}
    Op = {"login", "callback", "refresh", "logout", "me"}  MaxFlow = 1  MaxToken = 2
INVARIANT LoginReachable
CHECK_DEADLOCK FALSE
