SPECIFICATION Spec
CONSTANTS
    Loggers = {l1, l2}
    Trades = {a, b}
    NoTrade = none
    MaxQueue = 2
    MaxLogged = 3
INVARIANTS LoggedInOrder StopDrains
PROPERTIES LoggedEventually LoggerStops
