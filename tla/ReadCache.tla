----------------------------- MODULE ReadCache -----------------------------
(***************************************************************************)
(* The cached reads of the API process: the session of a user, the user    *)
(* list, the lookups, the status counts and the overview all go through    *)
(* one pattern, TtlCache in front of InflightMap.  Between two awaits the  *)
(* process does one thing at a time, so a get with the join or start of a  *)
(* load that follows it is one action.                                     *)
(***************************************************************************)
EXTENDS Integers

CONSTANTS
    Callers,    \* requests being served
    Keys,       \* cache keys
    SessionKeys, \* the keys of sessions: the row of a user who is locked out is refused
    Busted,     \* the keys whose writer deletes the entry afterwards
    Rows,       \* what a row may be
    LockedOut,  \* the row of a user with is_active = FALSE
    Ttl,        \* ticks an entry lives
    None

ASSUME KeysAssumption == SessionKeys \subseteq Keys /\ Busted \subseteq Keys
ASSUME TtlAssumption == Ttl \in Nat \ {0}
ASSUME RowsAssumption == LockedOut \in Rows /\ None \notin Rows

VARIABLES
    row,        \* the database
    editing,    \* keys written whose entry the writer has still to delete
    cache,      \* TtlCache: the value and the ticks it has left, 0 when expired but not swept
    load,       \* InflightMap: a pending load, and the row it read once it has
    call        \* what each caller waits for or was told
cacheVars == <<row, editing, cache, load, call>>

Refused(k, value) == k \in SessionKeys /\ value = LockedOut
Idle == [at |-> "idle", key |-> None, value |-> None]
NoEntry == [value |-> None, left |-> 0]
NoLoad == [at |-> "none", value |-> None]

CacheTypeOK ==
    /\ row \in [Keys -> Rows] /\ editing \subseteq Busted
    /\ cache \in [Keys -> [value : Rows \cup {None}, left : 0..Ttl]]
    /\ load \in [Keys -> [at : {"none", "asked", "read"}, value : Rows \cup {None}]]
    /\ call \in [Callers ->
         [at : {"idle", "waiting", "told"}, key : Keys \cup {None}, value : Rows \cup {None}]]

CacheInit ==
    /\ row \in [Keys -> Rows] /\ editing = {}
    /\ cache = [k \in Keys |-> NoEntry] /\ load = [k \in Keys |-> NoLoad]
    /\ call = [c \in Callers |-> Idle]

AnyEntry(k) == cache[k].value # None
LiveEntry(k) == cache[k].left > 0

(* A request finds the entry, joins the load under way or starts one.  The *)
(* second look into the cache, inside the load, comes in the same turn.    *)
Get(c, k) ==
    /\ call[c].at = "idle"
    /\ IF LiveEntry(k)
       THEN /\ call' = [call EXCEPT ![c] = [at |-> "told", key |-> k, value |-> cache[k].value]]
            /\ UNCHANGED <<cache, load>>
       ELSE /\ call' = [call EXCEPT ![c] = [at |-> "waiting", key |-> k, value |-> None]]
            /\ cache' = [cache EXCEPT ![k] = NoEntry]
            /\ load' = IF load[k].at = "none"
                       THEN [load EXCEPT ![k] = [at |-> "asked", value |-> None]] ELSE load
    /\ UNCHANGED <<row, editing>>

(* The database answers the load.                                          *)
Read(k) ==
    /\ load[k].at = "asked"
    /\ load' = [load EXCEPT ![k] = [at |-> "read", value |-> row[k]]]
    /\ UNCHANGED <<row, editing, cache, call>>

OneWaiting(k) ==
    LET waiting == {c \in Callers : call[c].at = "waiting" /\ call[c].key = k}
    IN  {c \in waiting : c = CHOOSE d \in waiting : TRUE}
Waiting(k) == {c \in Callers : call[c].at = "waiting" /\ call[c].key = k}

(* The answer arrives: kept unless refused, the load forgotten either way, *)
(* everybody who joined it told.  A refusal is told as the locked row.     *)
Settle(k) ==
    /\ load[k].at = "read"
    /\ cache' = IF Refused(k, load[k].value) THEN cache
                ELSE [cache EXCEPT ![k] = [value |-> load[k].value, left |-> Ttl]]
    /\ load' = [load EXCEPT ![k] = NoLoad]
    /\ call' = [c \in Callers |-> IF c \in Waiting(k)
                 THEN [at |-> "told", key |-> k, value |-> load[k].value] ELSE call[c]]
    /\ UNCHANGED <<row, editing>>

(* The connection to the database fails: nothing is kept, everybody who    *)
(* joined the load gets its error.                                         *)
LoadFails(k) ==
    /\ load[k].at = "asked"
    /\ load' = [load EXCEPT ![k] = NoLoad]
    /\ call' = [c \in Callers |-> IF c \in Waiting(k)
                 THEN [at |-> "told", key |-> k, value |-> None] ELSE call[c]]
    /\ UNCHANGED <<row, editing, cache>>

Close(c) ==
    /\ call[c].at = "told"
    /\ call' = [call EXCEPT ![c] = Idle]
    /\ UNCHANGED <<row, editing, cache, load>>

(* A writer commits the row, and only after further awaits (the edit log)  *)
(* deletes the entry, where it does at all.                                *)
Update(k, value) ==
    /\ k \notin editing /\ value # row[k]
    /\ row' = [row EXCEPT ![k] = value]
    /\ editing' = editing \cup ({k} \cap Busted)
    /\ UNCHANGED <<cache, load, call>>
Bust(k) ==
    /\ k \in editing
    /\ cache' = [cache EXCEPT ![k] = NoEntry] /\ editing' = editing \ {k}
    /\ UNCHANGED <<row, load, call>>

Tick ==
    /\ \E k \in Keys : cache[k].left > 0
    /\ cache' = [k \in Keys |->
         [cache[k] EXCEPT !.left = IF @ > 0 THEN @ - 1 ELSE 0]]
    /\ UNCHANGED <<row, editing, load, call>>

CacheNext ==
    \/ \E k \in Keys : \/ \E c \in Callers : Get(c, k)
                       \/ \E value \in Rows : Update(k, value)
                       \/ Read(k) \/ Settle(k) \/ LoadFails(k) \/ Bust(k)
    \/ \E c \in Callers : Close(c)
    \/ Tick

(* The driver answers every query or fails it, the event loop runs every   *)
(* continuation that is ready, and time passes.                            *)
CacheFair ==
    /\ \A k \in Keys : WF_cacheVars(Read(k) \/ LoadFails(k)) /\ WF_cacheVars(Settle(k))
    /\ \A k \in Keys : WF_cacheVars(Bust(k))
    /\ \A c \in Callers : WF_cacheVars(Close(c))
    /\ WF_cacheVars(Tick)

(* Whoever joins a load is answered, however many joined and whatever      *)
(* became of it (InflightMap.run).                                         *)
CallsAnswered == \A c \in Callers : call[c].at = "waiting" ~> call[c].at = "told"

(* Once nobody edits a row any more, from some moment on every answer is   *)
(* that row: a locked-out user is refused, one let in again is served, a   *)
(* new role counts.  A load begun before the edit may put the old row back *)
(* after bustSession; it cannot stay (validateJwtPayload, users.update).   *)
EditsTakeHold == \A k \in Keys, value \in Rows :
    <>[](row[k] = value) =>
    <>[](\A c \in Callers : call[c].at = "told" /\ call[c].key = k => call[c].value \in {value, None})
=============================================================================
