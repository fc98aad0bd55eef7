SPECIFICATION Spec
CONSTANTS
    Callers = {c1, c2}
    Keys = {user, lists}
    SessionKeys = {user}
    Busted = {user}
    Rows = {old, new, out}
    LockedOut = out
    Ttl = 2
    None = None
    Tabs = {b1, b2}
    Tokens = {t1, t2, t3}
    NoToken = NoToken
    MaxExcuses = 2
    Tasks = 5
    Concurrency = 3
CHECK_DEADLOCK FALSE
INVARIANT StraysExplained
INVARIANT PoolWhole
PROPERTY EditsTakeHold
PROPERTY EveryoneIsAnswered
