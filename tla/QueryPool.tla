----------------------------- MODULE QueryPool -----------------------------
(***************************************************************************)
(* poolAll: the queries of one page, at most so many at a time.            *)
(***************************************************************************)
EXTENDS Integers, FiniteSets

CONSTANTS
    Tasks,          \* number of queries
    Concurrency     \* how many may run at once

ASSUME PoolAssumption == Tasks \in Nat \ {0} /\ Concurrency \in Nat

VARIABLES
    next,       \* the next task to be taken
    worker,     \* the task each worker runs, 0 when it is over
    results,    \* tasks whose result is in the array
    settled     \* the promise of the caller
poolVars == <<next, worker, results, settled>>

(* Math.min(Math.max(1, concurrency), tasks.length)                        *)
Limit == LET atLeast == IF Concurrency < 1 THEN 1 ELSE Concurrency
         IN  IF atLeast > Tasks THEN Tasks ELSE atLeast
Workers == 1..Limit

PoolTypeOK ==
    /\ next \in 1..(Tasks + 1) /\ worker \in [Workers -> 0..Tasks]
    /\ results \subseteq 1..Tasks /\ settled \in {"open", "resolved", "rejected"}

(* Every worker takes its first task at once.                              *)
PoolInit ==
    /\ next = Limit + 1 /\ worker = [w \in Workers |-> w]
    /\ results = {} /\ settled = "open"

MoreButOne == next < Tasks
More == next <= Tasks

Over(workers) == \A w \in Workers : workers[w] = 0

(* A task ends: its worker takes the next one, or is over; the last worker *)
(* resolves the promise if no task has failed.                             *)
TaskDone(w) ==
    /\ worker[w] # 0
    /\ results' = results \cup {worker[w]}
    /\ worker' = [worker EXCEPT ![w] = IF More THEN next ELSE 0]
    /\ next' = IF More THEN next + 1 ELSE next
    /\ settled' = IF settled = "open" /\ Over(worker') THEN "resolved" ELSE settled

(* A task fails: its worker is over and the promise rejected at once; the  *)
(* others go on taking tasks nobody waits for any more.                    *)
TaskFails(w) ==
    /\ worker[w] # 0
    /\ worker' = [worker EXCEPT ![w] = 0]
    /\ settled' = "rejected"
    /\ UNCHANGED <<next, results>>

PoolNext == \E w \in Workers : TaskDone(w) \/ TaskFails(w)
PoolFair == \A w \in Workers : WF_poolVars(TaskDone(w) \/ TaskFails(w))

(* A page is built only from all of its queries, and no query runs twice   *)
(* at a time: a caller who gets an answer gets every result (poolAll).     *)
PoolWhole ==
    /\ settled = "resolved" => results = 1..Tasks
    /\ \A v, w \in Workers : v # w /\ worker[v] # 0 => worker[v] # worker[w]
    /\ settled = "open" => \A t \in 1..Tasks :
           t \in results \/ t >= next \/ \E w \in Workers : worker[w] = t

(* The caller of a pool is answered.                                       *)
PoolSettles == settled = "open" ~> settled # "open"
=============================================================================
