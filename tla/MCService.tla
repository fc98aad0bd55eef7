----------------------------- MODULE MCService -----------------------------
(* The parts of the API process that share no state: a behaviour is the    *)
(* cached reads, the tokens of a browser, or one pool of queries.          *)
EXTENDS ReadCache, Sessions, QueryPool

VARIABLE part
vars == <<part, cacheVars, sessionVars, poolVars>>

NoCalls ==
    /\ row = [k \in Keys |-> LockedOut] /\ editing = {} /\ cache = [k \in Keys |-> NoEntry]
    /\ load = [k \in Keys |-> NoLoad] /\ call = [c \in Callers |-> Idle]
NoBrowser ==
    /\ active = FALSE /\ tokens = [t \in Tokens |-> "none"] /\ cookie = NoToken
    /\ tab = [b \in Tabs |-> Quiet] /\ sweeps = FALSE /\ excuses = 0
NoPool == next = Tasks + 1 /\ worker = [w \in Workers |-> 0] /\ results = {} /\ settled = "rejected"

Init ==
    \/ part = "cache" /\ CacheInit /\ NoBrowser /\ NoPool
    \/ part = "browser" /\ NoCalls /\ SessionsInit /\ NoPool
    \/ part = "pool" /\ NoCalls /\ NoBrowser /\ PoolInit
Next ==
    \/ part = "cache" /\ CacheNext /\ UNCHANGED <<part, sessionVars, poolVars>>
    \/ part = "browser" /\ SessionsNext /\ UNCHANGED <<part, cacheVars, poolVars>>
    \/ part = "pool" /\ PoolNext /\ UNCHANGED <<part, cacheVars, sessionVars>>
Spec == Init /\ [][Next]_vars /\ CacheFair /\ PoolFair

(* Whoever joined a load, and whoever waits for a pool of queries, is      *)
(* answered (InflightMap.run, poolAll).                                    *)
EveryoneIsAnswered == CallsAnswered /\ PoolSettles
=============================================================================
