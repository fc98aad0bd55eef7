--------------------------- MODULE Service_proofs ---------------------------
(***************************************************************************)
(* Theorems about the parts of the API process: the pool of queries, the   *)
(* refresh tokens and the cached reads.                                    *)
(***************************************************************************)
EXTENDS ReadCache, Sessions, QueryPool, FiniteSetTheorems, TLAPS

(* What a pool keeps besides PoolWhole: tasks are taken in order, a worker *)
(* stops only when none is left, or because its task failed.               *)
PoolInv ==
    /\ PoolTypeOK /\ PoolWhole
    /\ \A w \in Workers : worker[w] < next
    /\ \A t \in results : t < next
    /\ settled = "open" => \A w \in Workers : worker[w] = 0 => next = Tasks + 1
    /\ settled = "resolved" => Over(worker)

(* Math.min and Math.max keep the number of workers between one and the    *)
(* number of tasks.                                                        *)
LEMMA LimitOK == Limit \in 1..Tasks /\ Workers = 1..Limit
BY PoolAssumption DEF Limit, Workers

(* The start of a pool.                                                    *)
LEMMA PoolStarts == PoolInit => PoolInv
BY LimitOK, PoolAssumption DEF PoolInit, PoolInv, PoolTypeOK, PoolWhole, Over

(* A task that ends.                                                       *)
LEMMA TaskDoneKeeps ==
    ASSUME PoolInv, NEW w \in Workers, TaskDone(w)
    PROVE  PoolInv'
<1> DEFINE t == worker[w]
<1>1. t \in 1..Tasks /\ t < next /\ next \in 1..(Tasks + 1) /\ Tasks \in Nat
    BY PoolAssumption DEF PoolInv, PoolTypeOK, TaskDone
<1>2. results' = results \cup {t} /\ results \subseteq 1..Tasks /\ worker \in [Workers -> 0..Tasks]
    BY DEF PoolInv, PoolTypeOK, TaskDone
<1>3. CASE next <= Tasks
  <2>1. next' = next + 1 /\ worker' = [worker EXCEPT ![w] = next] /\ worker'[w] = next
      BY <1>2, <1>3 DEF TaskDone, More
  <2>2. ~Over(worker') /\ settled' = settled
      BY <1>1, <1>2, <2>1 DEF TaskDone, Over
  <2>3. PoolTypeOK'
    <3>1. worker' \in [Workers -> 0..Tasks]
        BY <1>1, <1>2, <1>3, <2>1
    <3>2. results' \subseteq 1..Tasks
        BY <1>1, <1>2
    <3>3. next' \in 1..(Tasks + 1)
        BY <1>1, <1>3, <2>1
    <3> QED
        BY <2>2, <3>1, <3>2, <3>3 DEF PoolInv, PoolTypeOK
  <2>4. settled # "resolved"
      BY <1>1 DEF PoolInv, Over
  <2>5. settled = "open" => \A s \in 1..Tasks :
            s \in results' \/ s >= next' \/ \E v \in Workers : worker'[v] = s
    <3> SUFFICES ASSUME settled = "open", NEW s \in 1..Tasks, s \notin results', ~(s >= next')
                 PROVE  \E v \in Workers : worker'[v] = s
        OBVIOUS
    <3>1. CASE s = next
        BY <3>1, <2>1
    <3>2. CASE s # next
      <4>1. PICK v \in Workers : worker[v] = s
          BY <3>2, <1>1, <1>2, <2>1 DEF PoolInv, PoolWhole
      <4> QED
          BY <4>1, <1>2, <2>1
    <3> QED
        BY <3>1, <3>2
  <2>6. \A u, v \in Workers : u # v /\ worker'[u] # 0 => worker'[u] # worker'[v]
      BY <1>1, <1>2, <1>3, <2>1 DEF PoolInv, PoolWhole
  <2>7. PoolWhole'
      BY <2>2, <2>4, <2>5, <2>6 DEF PoolWhole
  <2> QED
      BY <1>1, <1>2, <1>3, <2>1, <2>2, <2>3, <2>4, <2>7 DEF PoolInv
<1>4. CASE ~(next <= Tasks)
  <2>1. next = Tasks + 1 /\ next' = next /\ worker' = [worker EXCEPT ![w] = 0] /\ worker'[w] = 0
      BY <1>1, <1>2, <1>4 DEF TaskDone, More
  <2>2. /\ settled' = settled \/ (settled = "open" /\ settled' = "resolved" /\ Over(worker'))
        /\ settled \in {"open", "rejected"}
      BY <1>1 DEF TaskDone, PoolInv, PoolTypeOK, Over
  <2>3. PoolTypeOK'
    <3>1. worker' \in [Workers -> 0..Tasks]
        BY <1>1, <1>2, <2>1
    <3>2. results' \subseteq 1..Tasks
        BY <1>1, <1>2
    <3> QED
        BY <1>1, <2>1, <2>2, <3>1, <3>2 DEF PoolTypeOK
  <2>4. settled = "open" => \A s \in 1..Tasks :
            s \in results' \/ \E v \in Workers : worker'[v] = s
    <3> SUFFICES ASSUME settled = "open", NEW s \in 1..Tasks, s \notin results'
                 PROVE  \E v \in Workers : worker'[v] = s
        OBVIOUS
    <3>1. PICK v \in Workers : worker[v] = s
        BY <1>1, <1>2, <2>1 DEF PoolInv, PoolWhole
    <3> QED
        BY <3>1, <1>2, <2>1
  <2>5. settled = "open" /\ settled' = "resolved" => results' = 1..Tasks
    <3> SUFFICES ASSUME settled = "open", settled' = "resolved" PROVE results' = 1..Tasks
        OBVIOUS
    <3>1. \A s \in 1..Tasks : s \in results'
        BY <1>1, <2>2, <2>4 DEF Over
    <3>2. results' \subseteq 1..Tasks
        BY <1>1, <1>2
    <3> QED
        BY <3>1, <3>2
  <2>6. PoolWhole'
    <3>1. \A u, v \in Workers : u # v /\ worker'[u] # 0 => worker'[u] # worker'[v]
        BY <1>1, <1>2, <2>1 DEF PoolInv, PoolWhole
    <3> QED
        BY <2>1, <2>2, <2>4, <2>5, <3>1 DEF PoolWhole
  <2> QED
      BY <1>1, <1>2, <2>1, <2>2, <2>3, <2>6 DEF PoolInv
<1> QED
    BY <1>3, <1>4

(* A task that fails.                                                      *)
LEMMA TaskFailsKeeps ==
    ASSUME PoolInv, NEW w \in Workers, TaskFails(w)
    PROVE  PoolInv'
BY PoolAssumption, LimitOK DEF PoolInv, PoolTypeOK, PoolWhole, TaskFails, Over

(* poolAll: whatever the number of tasks and of workers, and in whatever   *)
(* order the tasks end or fail, a caller who is answered has the results   *)
(* of all of them.                                                         *)
THEOREM PoolIsWhole == PoolInit /\ [][PoolNext]_poolVars => []PoolWhole
<1>1. ASSUME PoolInv, [PoolNext]_poolVars PROVE PoolInv'
  <2>1. CASE UNCHANGED poolVars
      BY <1>1, <2>1 DEF poolVars, PoolInv, PoolTypeOK, PoolWhole, Over
  <2> QED
      BY <1>1, <2>1, TaskDoneKeeps, TaskFailsKeeps DEF PoolNext
<1>2. PoolInv => PoolWhole
    BY DEF PoolInv
<1> QED
    BY PoolStarts, <1>1, <1>2, PTL

-----------------------------------------------------------------------------
(* The cached reads.                                                       *)
Calls == [at : {"idle", "waiting", "told"}, key : Keys \cup {None}, value : Rows \cup {None}]

(* Only rows that are not refused, and only rows, are ever kept or told.   *)
THEOREM CacheTypeCorrect == CacheInit /\ [][CacheNext]_cacheVars => []CacheTypeOK
<1> USE DEF CacheTypeOK, NoEntry, NoLoad, Idle
<1>1. CacheInit => CacheTypeOK
    BY TtlAssumption, KeysAssumption DEF CacheInit
<1>2. ASSUME CacheTypeOK, [CacheNext]_cacheVars PROVE CacheTypeOK'
  <2>1. ASSUME NEW c \in Callers, NEW k \in Keys, Get(c, k) PROVE CacheTypeOK'
    <3>1. cache' \in [Keys -> [value : Rows \cup {None}, left : 0..Ttl]]
        BY <1>2, <2>1, TtlAssumption DEF Get
    <3>2. load' \in [Keys -> [at : {"none", "asked", "read"}, value : Rows \cup {None}]]
        BY <1>2, <2>1 DEF Get
    <3>3. call' \in [Callers -> Calls]
        BY <1>2, <2>1 DEF Get, Calls
    <3> QED
        BY <1>2, <2>1, <3>1, <3>2, <3>3 DEF Get, Calls
  <2>2. ASSUME NEW k \in Keys, NEW value \in Rows, Update(k, value) PROVE CacheTypeOK'
      BY <1>2, <2>2 DEF Update
  <2>3. ASSUME NEW k \in Keys, Read(k) PROVE CacheTypeOK'
      BY <1>2, <2>3 DEF Read
  <2>4. ASSUME NEW k \in Keys, Settle(k) PROVE CacheTypeOK'
    <3>1. cache' \in [Keys -> [value : Rows \cup {None}, left : 0..Ttl]]
        BY <1>2, <2>4, TtlAssumption DEF Settle
    <3>2. call' \in [Callers -> Calls]
        BY <1>2, <2>4 DEF Settle, Calls
    <3> QED
        BY <1>2, <2>4, <3>1, <3>2 DEF Settle, Calls
  <2>5. ASSUME NEW k \in Keys, LoadFails(k) PROVE CacheTypeOK'
    <3>1. call' \in [Callers -> Calls]
        BY <1>2, <2>5 DEF LoadFails, Calls
    <3> QED
        BY <1>2, <2>5, <3>1 DEF LoadFails, Calls
  <2>6. ASSUME NEW k \in Keys, Bust(k) PROVE CacheTypeOK'
      BY <1>2, <2>6, TtlAssumption DEF Bust
  <2>7. ASSUME NEW c \in Callers, Close(c) PROVE CacheTypeOK'
      BY <1>2, <2>7 DEF Close
  <2>8. ASSUME Tick PROVE CacheTypeOK'
    <3>1. ASSUME NEW k \in Keys PROVE cache'[k] \in [value : Rows \cup {None}, left : 0..Ttl]
        BY <1>2, <2>8, TtlAssumption DEF Tick
    <3> QED
        BY <1>2, <2>8, <3>1 DEF Tick
  <2>9. CASE UNCHANGED cacheVars
      BY <1>2, <2>9 DEF cacheVars
  <2> QED
      BY <1>2, <2>1, <2>2, <2>3, <2>4, <2>5, <2>6, <2>7, <2>8, <2>9 DEF CacheNext
<1> QED
    BY <1>1, <1>2, PTL

-----------------------------------------------------------------------------
(* The refresh tokens.                                                     *)
Requests == [at : States, old : Tokens \cup {NoToken}, revoked : BOOLEAN, made : Tokens \cup {NoToken}]

(* The history of a step is counted within its bound.                      *)
LEMMA ExcuseOK ==
    ASSUME SessionsTypeOK, NEW n \in Nat, Excuse(n)
    PROVE  excuses' \in 0..MaxExcuses
BY TokensAssumption DEF SessionsTypeOK, Excuse

(* Rows, cookies and requests in hand keep their types, restarts of the    *)
(* API included.                                                           *)
THEOREM SessionsTypeCorrect == SessionsInit /\ [][SessionsNext]_sessionVars => []SessionsTypeOK
<1>1. SessionsInit => SessionsTypeOK
  <2>1. SessionsInit => active \in BOOLEAN /\ sweeps \in BOOLEAN
      BY Zenon DEF SessionsInit
  <2>2. Quiet \in Requests
      BY DEF Quiet, Requests, States
  <2>3. SessionsInit => /\ tokens \in [Tokens -> {"none", "live", "dead"}]
                        /\ cookie \in Tokens \cup {NoToken}
                        /\ excuses \in 0..MaxExcuses
      BY TokensAssumption DEF SessionsInit
  <2>4. SessionsInit => tab \in [Tabs -> Requests]
      BY <2>2 DEF SessionsInit
  <2> QED
      BY <2>1, <2>3, <2>4 DEF SessionsTypeOK, Requests
<1>2. ASSUME SessionsTypeOK, [SessionsNext]_sessionVars PROVE SessionsTypeOK'
  <2> USE <1>2
  <2> DEFINE Typed == active' \in BOOLEAN /\ tokens' \in [Tokens -> {"none", "live", "dead"}]
                     /\ cookie' \in Tokens \cup {NoToken} /\ sweeps' \in BOOLEAN
  <2>0. ASSUME Typed, tab' \in [Tabs -> Requests], excuses' \in 0..MaxExcuses PROVE SessionsTypeOK'
      BY <2>0 DEF SessionsTypeOK, Requests
  <2>00. Quiet \in Requests
      BY DEF Quiet, Requests, States
  <2>1. ASSUME NEW b \in Tabs, NEW to \in States, Send(b, to) PROVE SessionsTypeOK'
    <3>1. tab' \in [Tabs -> Requests]
        BY <2>1 DEF Send, SessionsTypeOK, Requests, Quiet
    <3>2. excuses' \in 0..MaxExcuses
        BY <2>1, ExcuseOK DEF Send
    <3> QED
        BY <2>0, <2>1, <3>1, <3>2 DEF Send, SessionsTypeOK
  <2>2. ASSUME NEW b \in Tabs, Refuse(b) PROVE SessionsTypeOK'
      BY <2>0, <2>00, <2>2 DEF Refuse, SessionsTypeOK, Requests
  <2>3. ASSUME NEW b \in Tabs, LoginCheck(b) PROVE SessionsTypeOK'
    <3>1. CASE Refuse(b)
        BY <2>2, <3>1
    <3>2. CASE ~Refuse(b)
      <4>1. tab' \in [Tabs -> Requests]
          BY <2>3, <3>2 DEF LoginCheck, SessionsTypeOK, Requests, States
      <4> QED
          BY <2>0, <2>3, <3>2, <4>1 DEF LoginCheck, SessionsTypeOK
    <3> QED
        BY <3>1, <3>2
  <2>4. ASSUME NEW b \in Tabs, RefreshCheck(b) PROVE SessionsTypeOK'
    <3>1. CASE Refuse(b)
        BY <2>2, <3>1
    <3>2. CASE ~Refuse(b)
      <4>1. tab' \in [Tabs -> Requests]
          BY <2>4, <3>2 DEF RefreshCheck, SessionsTypeOK, Requests, States
      <4> QED
          BY <2>0, <2>4, <3>2, <4>1 DEF RefreshCheck, SessionsTypeOK
    <3> QED
        BY <3>1, <3>2
  <2>5. ASSUME NEW b \in Tabs, IssueTokens(b) PROVE SessionsTypeOK'
    <3>1. PICK t \in Tokens : tokens' = [tokens EXCEPT ![t] = "live"] /\ tab' = [tab EXCEPT ![b].made = t]
        BY <2>5 DEF IssueTokens, Free
    <3>2. tab' \in [Tabs -> Requests]
        BY <3>1 DEF SessionsTypeOK, Requests
    <3> QED
        BY <2>0, <2>5, <3>1, <3>2 DEF IssueTokens, SessionsTypeOK
  <2>6. ASSUME NEW b \in Tabs, RevokeOld(b) PROVE SessionsTypeOK'
    <3>0. \/ tab' = [tab EXCEPT ![b].at = "failed"]
          \/ tab' = [tab EXCEPT ![b].revoked = TRUE]
        BY <2>6 DEF RevokeOld
    <3>1. tab' \in [Tabs -> Requests]
      <4>1. CASE tab' = [tab EXCEPT ![b].at = "failed"]
          BY <4>1 DEF SessionsTypeOK, Requests, States
      <4>2. CASE tab' = [tab EXCEPT ![b].revoked = TRUE]
          BY <4>2 DEF SessionsTypeOK, Requests
      <4> QED
          BY <3>0, <4>1, <4>2
    <3>2. tokens' = tokens \/ tokens' = Dead(tab[b].old)
        BY <2>6 DEF RevokeOld
    <3>3. tokens' \in [Tokens -> {"none", "live", "dead"}]
        BY <3>2 DEF SessionsTypeOK, Dead
    <3> QED
        BY <2>0, <2>6, <3>1, <3>3 DEF RevokeOld, SessionsTypeOK
  <2>7. ASSUME NEW b \in Tabs, Answered(b) \/ LogoutAnswered(b) PROVE SessionsTypeOK'
    <3>1. tab' \in [Tabs -> Requests]
        BY <2>00, <2>7 DEF Answered, LogoutAnswered, SessionsTypeOK, Requests
    <3>2. cookie' \in Tokens \cup {NoToken}
        BY <2>7 DEF Answered, LogoutAnswered, SessionsTypeOK
    <3> QED
        BY <2>0, <2>7, <3>1, <3>2 DEF Answered, LogoutAnswered, SessionsTypeOK
  <2>8. ASSUME NEW b \in Tabs, LogoutRevoke(b) PROVE SessionsTypeOK'
    <3>1. tab' \in [Tabs -> Requests]
        BY <2>8 DEF LogoutRevoke, SessionsTypeOK, Requests, States
    <3>2. tokens' \in [Tokens -> {"none", "live", "dead"}]
        BY <2>8 DEF LogoutRevoke, SessionsTypeOK, Dead
    <3> QED
        BY <2>0, <2>8, <3>1, <3>2 DEF LogoutRevoke, SessionsTypeOK
  <2>9. ASSUME NEW t \in Tokens, Expire(t) PROVE SessionsTypeOK'
    <3>1. excuses' \in 0..MaxExcuses
        BY <2>9, ExcuseOK DEF Expire
    <3>2. tokens' \in [Tokens -> {"none", "live", "dead"}]
        BY <2>9 DEF Expire, SessionsTypeOK, Dead
    <3> QED
        BY <2>0, <2>9, <3>1, <3>2 DEF Expire, SessionsTypeOK, Requests
  <2>10. ASSUME Sweep \/ SetActive PROVE SessionsTypeOK'
      BY <2>0, <2>10 DEF Sweep, SetActive, SessionsTypeOK, Requests
  <2>11. ASSUME Restart PROVE SessionsTypeOK'
    <3>1. Busy \subseteq Tabs /\ IsFiniteSet(Busy)
        BY TabsAssumption, FS_Subset DEF Busy
    <3>2. Cardinality(Busy) \in Nat
        BY <3>1, FS_CardinalityType
    <3>3. excuses' \in 0..MaxExcuses
        BY <2>11, <3>2, ExcuseOK DEF Restart
    <3> QED
        BY <2>0, <2>00, <2>11, <3>3 DEF Restart, SessionsTypeOK
  <2>12. CASE UNCHANGED sessionVars
      BY <2>12 DEF sessionVars, SessionsTypeOK
  <2>13. ASSUME NEW b \in Tabs, Login(b) \/ Refresh(b) \/ Logout(b) PROVE SessionsTypeOK'
      BY <2>1, <2>13 DEF Login, Refresh, Logout, States
  <2> QED
      BY <2>3, <2>4, <2>5, <2>6, <2>7, <2>8, <2>9, <2>10, <2>11, <2>12, <2>13 DEF SessionsNext
<1> QED
    BY <1>1, <1>2, PTL

-----------------------------------------------------------------------------
(* The strays.  A token that leaves the cookie, or that its request drops, *)
(* is live with nobody; what is proved counts it before that happens.      *)

(* The requests that stand between their token and its becoming a stray:   *)
(* a login carries one as well, but never touches it.                      *)
Carriers == {b \in Tabs : tab[b].at \in {"refreshing", "rotating", "loggingOut"}}
LiveTokens == {t \in Tokens : tokens[t] = "live"}
Abandoned == {t \in Tokens : /\ tokens[t] = "live" /\ cookie # t
                             /\ \A b \in Tabs : tab[b].made # t
                             /\ \A b \in Carriers : tab[b].old # t}

(* What the requests in flight may still leave behind, beyond one each:    *)
(* the token of the cookie, when no request of its own ends it, a token    *)
(* carried that the cookie has left, and the new token of a refresh whose  *)
(* old one somebody else has ended, when no other answer is to come.       *)
Exposed == Open(cookie) /\ \A b \in Carriers : tab[b].old # cookie
LeftBehind == \E b \in Carriers : tab[b].old # cookie /\ Open(tab[b].old)
Killers == {b \in Tabs : (tab[b].at = "rotating" /\ tab[b].revoked) \/ tab[b].at = "loggedOut"}
Doomed == {b \in Tabs : \/ tab[b].at = "rotating" /\ ~tab[b].revoked /\ tokens[tab[b].old] # "live"
                        \/ tab[b].at = "failed"}
Owing == Exposed \/ LeftBehind \/ (Doomed # {} /\ Killers = {})
Debt == IF Owing THEN 1 ELSE 0

(* What a request has in hand at each of its steps.                        *)
Hands ==
    \A b \in Tabs :
        /\ tab[b].at \in {"quiet", "loggingIn", "refreshing", "loggingOut", "loggedOut"} => tab[b].made = NoToken
        /\ b \in Killers \/ tab[b].at = "failed" => ~Open(tab[b].old)
        /\ tab[b].at \in {"refreshing", "rotating"} => tab[b].old # NoToken
        /\ tab[b].at # "rotating" => ~tab[b].revoked

Counted ==
    /\ IsFiniteSet(LiveTokens)
    /\ Busy = {} => Cardinality(Abandoned) <= excuses
    /\ Busy # {} => Cardinality(Abandoned) + Cardinality(Busy) + Debt <= excuses + 1

StrayInv == SessionsTypeOK /\ Hands /\ Counted

(* The sets counted are finite.                                            *)
LEMMA StrayCounts ==
    ASSUME StrayInv
    PROVE  /\ IsFiniteSet(Abandoned) /\ Cardinality(Abandoned) \in Nat
           /\ IsFiniteSet(Busy) /\ Cardinality(Busy) \in Nat
           /\ Busy # {} => Cardinality(Busy) >= 1
           /\ Debt \in {0, 1} /\ excuses \in Nat
<1>1. Abandoned \subseteq LiveTokens /\ IsFiniteSet(LiveTokens)
    BY DEF StrayInv, Counted, Abandoned, LiveTokens
<1>2. IsFiniteSet(Abandoned) /\ Cardinality(Abandoned) \in Nat
    BY <1>1, FS_Subset, FS_CardinalityType
<1>3. Busy \subseteq Tabs /\ IsFiniteSet(Tabs)
    BY TabsAssumption DEF Busy
<1>4. IsFiniteSet(Busy) /\ Cardinality(Busy) \in Nat
    BY <1>3, FS_Subset, FS_CardinalityType
<1>5. Busy # {} => Cardinality(Busy) >= 1
    BY <1>4, FS_EmptySet
<1>6. Debt \in {0, 1}
    BY DEF Debt
<1>7. excuses \in Nat
    BY TokensAssumption DEF StrayInv, SessionsTypeOK
<1> QED
    BY <1>2, <1>4, <1>5, <1>6, <1>7

(* A step on the way abandons nothing and owes nothing new.                *)
LEMMA StaysCounted ==
    ASSUME StrayInv, IsFiniteSet(LiveTokens'), Abandoned' \subseteq Abandoned, Busy' = Busy,
           Owing' => Owing, excuses' = excuses
    PROVE  Counted'
<1>1. Cardinality(Abandoned') \in Nat /\ Cardinality(Abandoned') <= Cardinality(Abandoned)
    BY StrayCounts, FS_Subset, FS_CardinalityType
<1>2. Debt' \in {0, 1} /\ Debt' <= Debt
    BY DEF Debt
<1>3. /\ Busy = {} => Cardinality(Abandoned) <= excuses
      /\ Busy # {} => Cardinality(Abandoned) + Cardinality(Busy) + Debt <= excuses + 1
    BY DEF StrayInv, Counted
<1>4. /\ Busy' = {} => Cardinality(Abandoned') <= excuses'
      /\ Busy' # {} => Cardinality(Abandoned') + Cardinality(Busy') + Debt' <= excuses' + 1
    BY <1>1, <1>2, <1>3, StrayCounts
<1> QED
    BY <1>4 DEF Counted

(* One element more counts one more at most.                               *)
LEMMA OneMoreCounts ==
    ASSUME NEW S, IsFiniteSet(S), NEW x
    PROVE  /\ IsFiniteSet(S \cup {x}) /\ Cardinality(S \cup {x}) \in Nat
           /\ Cardinality(S \cup {x}) <= Cardinality(S) + 1
<1>1. Cardinality(S) \in Nat
    BY FS_CardinalityType
<1>2. IsFiniteSet(S \cup {x})
    BY FS_AddElement
<1>3. Cardinality(S \cup {x}) = IF x \in S THEN Cardinality(S) ELSE Cardinality(S) + 1
    BY FS_AddElement, Zenon
<1>4. Cardinality(S \cup {x}) \in Nat
    BY <1>2, FS_CardinalityType
<1> QED
    BY <1>1, <1>2, <1>3, <1>4

(* An answer may leave one token behind if that was owed.                  *)
LEMMA LeavesCounted ==
    ASSUME StrayInv, IsFiniteSet(LiveTokens'), NEW b \in Busy, Busy' = Busy \ {b}, excuses' = excuses,
           NEW x, Abandoned' \subseteq Abandoned \cup {x},
           x \in Abandoned' => Owing
    PROVE  Counted'
<1>1. IsFiniteSet(Abandoned \cup {x}) /\ Cardinality(Abandoned \cup {x}) <= Cardinality(Abandoned) + 1
    BY StrayCounts, OneMoreCounts
<1>2. Cardinality(Abandoned') \in Nat /\ Cardinality(Abandoned') <= Cardinality(Abandoned) + Debt
  <2>1. CASE x \in Abandoned'
    <3>1. Debt = 1
        BY <2>1 DEF Debt
    <3>2. Cardinality(Abandoned') \in Nat /\ Cardinality(Abandoned') <= Cardinality(Abandoned \cup {x})
        BY <1>1, FS_Subset, FS_CardinalityType
    <3>3. Cardinality(Abandoned \cup {x}) \in Nat
        BY <1>1, FS_CardinalityType
    <3> QED
        BY <1>1, <3>1, <3>2, <3>3, StrayCounts
  <2>2. CASE x \notin Abandoned'
    <3>1. Abandoned' \subseteq Abandoned
        BY <2>2
    <3>2. Cardinality(Abandoned') \in Nat /\ Cardinality(Abandoned') <= Cardinality(Abandoned)
        BY <3>1, StrayCounts, FS_Subset, FS_CardinalityType
    <3> QED
        BY <3>2, StrayCounts
  <2> QED
      BY <2>1, <2>2
<1>3. Cardinality(Busy') = Cardinality(Busy) - 1
    BY StrayCounts, FS_RemoveElement
<1>4. Debt' \in {0, 1}
    BY DEF Debt
<1>5. Busy # {} /\ Cardinality(Abandoned) + Cardinality(Busy) + Debt <= excuses + 1
    BY DEF StrayInv, Counted
<1>6. /\ Cardinality(Abandoned') <= excuses'
      /\ Cardinality(Abandoned') + Cardinality(Busy') + Debt' <= excuses' + 1
    BY <1>2, <1>3, <1>4, <1>5, StrayCounts
<1> QED
    BY <1>6 DEF Counted

(* The rows that are live after a step: those that were, or one more.      *)
LEMMA LiveStaysFinite ==
    ASSUME StrayInv, NEW t, LiveTokens' \subseteq LiveTokens \cup {t}
    PROVE  IsFiniteSet(LiveTokens')
<1>1. IsFiniteSet(LiveTokens)
    BY DEF StrayInv, Counted
<1>2. IsFiniteSet(LiveTokens \cup {t})
    BY <1>1, FS_AddElement
<1> QED
    BY <1>2, FS_Subset

(* A request is sent: it takes the token of the cookie in hand.            *)
LEMMA SendKeepsCount ==
    ASSUME StrayInv, NEW b \in Tabs, NEW to \in {"loggingIn", "refreshing", "loggingOut"}, Send(b, to),
           to = "refreshing" => cookie # NoToken
    PROVE  Hands' /\ Counted'
<1>1. /\ \A c \in Tabs : c # b => tab'[c] = tab[c]
      /\ tab'[b].at = to /\ tab'[b].old = cookie /\ tab'[b].made = NoToken /\ ~tab'[b].revoked
      /\ tab[b].at = "quiet" /\ tab[b].made = NoToken
      /\ tokens' = tokens /\ cookie' = cookie
    BY DEF StrayInv, SessionsTypeOK, Hands, Send, Quiet
<1>2. /\ Busy' = Busy \cup {b} /\ b \notin Busy
      /\ Killers' = Killers /\ Doomed' = Doomed
      /\ Carriers' = IF to = "loggingIn" THEN Carriers ELSE Carriers \cup {b}
    BY <1>1 DEF Busy, Killers, Doomed, Carriers
<1>3. Hands'
    BY <1>1 DEF StrayInv, Hands, Killers, Open
<1>4. Abandoned' \subseteq Abandoned
    BY <1>1, <1>2 DEF Abandoned, Carriers
<1>5. /\ Exposed' => Exposed /\ (to = "loggingIn" /\ Open(cookie))
      /\ LeftBehind' => LeftBehind
    BY <1>1, <1>2 DEF Exposed, LeftBehind, Open, Carriers
<1>6. Owing' => Owing
    BY <1>2, <1>5 DEF Owing
<1>7. Busy = {} /\ ~(to = "loggingIn" /\ Open(cookie)) => ~Owing'
    BY <1>1, <1>2, <1>5 DEF Owing, LeftBehind, Doomed, Carriers, Busy
<1>8. IsFiniteSet(LiveTokens')
    BY <1>1 DEF StrayInv, Counted, LiveTokens
<1>9. Cardinality(Abandoned') \in Nat /\ Cardinality(Abandoned') <= Cardinality(Abandoned)
    BY <1>4, StrayCounts, FS_Subset, FS_CardinalityType
<1>10. Cardinality(Busy') = Cardinality(Busy) + 1
  <2>1. IsFiniteSet(Busy)
      BY StrayCounts
  <2> QED
      BY <1>2, <2>1, FS_AddElement
<1>11. Debt' \in {0, 1} /\ Debt' <= Debt
    BY <1>6 DEF Debt
<1>12. CASE Busy # {}
  <2>1. excuses' = excuses + 1
      BY <1>12 DEF Send, Excuse
  <2>2. Cardinality(Abandoned) + Cardinality(Busy) + Debt <= excuses + 1
      BY <1>12 DEF StrayInv, Counted
  <2>3. Cardinality(Abandoned') + Cardinality(Busy') + Debt' <= excuses' + 1
      BY <1>9, <1>10, <1>11, <2>1, <2>2, StrayCounts
  <2>4. Busy' # {}
      BY <1>2
  <2> QED
      BY <1>3, <1>8, <2>3, <2>4 DEF Counted
<1>13. CASE Busy = {}
  <2>1. Cardinality(Abandoned) <= excuses /\ Cardinality(Busy) = 0
      BY <1>13, FS_EmptySet DEF StrayInv, Counted
  <2>2. Debt' <= excuses' - excuses /\ excuses' \in Nat
    <3>1. CASE to = "loggingIn" /\ Open(cookie)
      <4>1. excuses' = excuses + 1
          BY <3>1 DEF Send, Excuse
      <4> QED
          BY <4>1, <1>11, StrayCounts
    <3>2. CASE ~(to = "loggingIn" /\ Open(cookie))
      <4>1. excuses' = excuses + 0
          BY <1>13, <3>2 DEF Send, Excuse
      <4>2. Debt' = 0
          BY <1>7, <1>13, <3>2 DEF Debt
      <4> QED
          BY <4>1, <4>2, StrayCounts
    <3> QED
        BY <3>1, <3>2
  <2>3. Cardinality(Abandoned') + Cardinality(Busy') + Debt' <= excuses' + 1
      BY <1>9, <1>10, <1>11, <2>1, <2>2, StrayCounts
  <2>4. Busy' # {}
      BY <1>2
  <2> QED
      BY <1>3, <1>8, <2>3, <2>4 DEF Counted
<1> QED
    BY <1>12, <1>13

(* A request is refused, before anything is made for it.                   *)
LEMMA RefuseKeepsCount ==
    ASSUME StrayInv, NEW b \in Tabs, Refuse(b),
           tab[b].at = "loggingIn" \/ (tab[b].at = "refreshing" /\ ~Refreshable(tab[b].old))
    PROVE  Hands' /\ Counted'
<1>1. /\ \A c \in Tabs : c # b => tab'[c] = tab[c]
      /\ tab'[b] = Quiet /\ tab[b].made = NoToken
      /\ tokens' = tokens /\ cookie' = cookie /\ excuses' = excuses
    BY DEF StrayInv, SessionsTypeOK, Hands, Refuse
<1>2. Busy' = Busy \ {b} /\ b \in Busy /\ Carriers' = Carriers \ {b}
    BY <1>1 DEF Busy, Carriers, Quiet
<1>3. Hands'
    BY <1>1 DEF StrayInv, Hands, Killers, Open, Quiet
<1>4. ASSUME NEW t \in Abandoned', t \notin Abandoned PROVE b \in Carriers /\ t = tab[b].old
  <2>1. /\ t \in Tokens /\ tokens[t] = "live" /\ cookie # t
        /\ \A c \in Tabs : tab'[c].made # t
        /\ \A c \in Carriers' : tab'[c].old # t
      BY <1>1, <1>4 DEF Abandoned
  <2>2. \A c \in Tabs : tab[c].made # t
    <3>1. tab[b].made # t
        BY <1>1, <2>1, TokensAssumption
    <3> QED
        BY <1>1, <2>1, <3>1
  <2>3. PICK c \in Carriers : tab[c].old = t
      BY <1>4, <2>1, <2>2 DEF Abandoned
  <2>4. c = b
      BY <1>1, <1>2, <2>1, <2>3 DEF Carriers
  <2> QED
      BY <2>3, <2>4
<1>5. ASSUME tab[b].old \in Abandoned', tab[b].old \notin Abandoned PROVE Owing
  <2>1. tab[b].old \in Tokens /\ Open(tab[b].old) /\ tab[b].old # cookie
      BY <1>1, <1>5, TokensAssumption DEF Abandoned, Open
  <2>2. b \in Carriers
      BY <1>4, <1>5
  <2> QED
      BY <2>1, <2>2 DEF Owing, LeftBehind
<1>6. IsFiniteSet(LiveTokens')
    BY <1>1 DEF StrayInv, Counted, LiveTokens
<1>7. CASE tab[b].old \in Abandoned
  <2>1. Abandoned' \subseteq Abandoned \cup {NoToken}
    <3>1. ASSUME NEW t \in Abandoned' PROVE t \in Abandoned
        BY <1>4, <1>7
    <3> QED
        BY <3>1
  <2>2. NoToken \notin Abandoned'
      BY TokensAssumption DEF Abandoned
  <2>3. Counted'
      BY <1>1, <1>2, <1>6, <2>1, <2>2, LeavesCounted
  <2> QED
      BY <1>3, <2>3
<1>8. CASE tab[b].old \notin Abandoned
  <2>1. Abandoned' \subseteq Abandoned \cup {tab[b].old}
    <3>1. ASSUME NEW t \in Abandoned', t \notin Abandoned PROVE t = tab[b].old
        BY <1>4, <3>1
    <3> QED
        BY <3>1
  <2>2. Counted'
      BY <1>1, <1>2, <1>5, <1>6, <1>8, <2>1, LeavesCounted
  <2> QED
      BY <1>3, <2>2
<1> QED
    BY <1>7, <1>8

(* The checks of login and refresh that pass.                              *)
LEMMA CheckKeepsCount ==
    ASSUME StrayInv, NEW b \in Tabs,
           \/ /\ tab[b].at = "loggingIn"
              /\ tab' = [tab EXCEPT ![b].at = "checked", ![b].old = NoToken]
           \/ /\ tab[b].at = "refreshing" /\ Refreshable(tab[b].old)
              /\ tab' = [tab EXCEPT ![b].at = "rotating"],
           UNCHANGED <<active, tokens, cookie, sweeps, excuses>>
    PROVE  Hands' /\ Counted'
<1>1. /\ \A c \in Tabs : c # b => tab'[c] = tab[c]
      /\ tab'[b].made = NoToken /\ ~tab'[b].revoked /\ tab[b].made = NoToken /\ ~tab[b].revoked
      /\ \/ tab[b].at = "loggingIn" /\ tab'[b].at = "checked" /\ tab'[b].old = NoToken
         \/ tab[b].at = "refreshing" /\ tab'[b].at = "rotating" /\ tab'[b].old = tab[b].old
            /\ Open(tab[b].old)
      /\ tokens' = tokens /\ cookie' = cookie /\ excuses' = excuses
    BY DEF StrayInv, SessionsTypeOK, Hands, Refreshable
<1>2. Busy' = Busy /\ Carriers' = Carriers /\ Killers' = Killers /\ Doomed' = Doomed
    BY <1>1 DEF Busy, Carriers, Killers, Doomed, Open
<1>3. Hands'
    BY <1>1 DEF StrayInv, Hands, Killers, Open
<1>4. Abandoned' \subseteq Abandoned
    BY <1>1, <1>2 DEF Abandoned, Carriers
<1>5. Owing' => Owing
    BY <1>1, <1>2 DEF Owing, Exposed, LeftBehind, Open, Carriers
<1>6. IsFiniteSet(LiveTokens')
    BY <1>1 DEF StrayInv, Counted, LiveTokens
<1>7. Counted'
    BY <1>1, <1>2, <1>4, <1>5, <1>6, StaysCounted
<1> QED
    BY <1>3, <1>7

(* A token is made: nobody had it before.                                  *)
LEMMA IssueKeepsCount ==
    ASSUME StrayInv, NEW b \in Tabs, IssueTokens(b)
    PROVE  Hands' /\ Counted'
<1>1. PICK t \in Free : tokens' = [tokens EXCEPT ![t] = "live"] /\ tab' = [tab EXCEPT ![b].made = t]
    BY DEF IssueTokens
<1>2. /\ t \in Tokens /\ tokens[t] = "none" /\ cookie # t
      /\ \A c \in Tabs : tab[c].old # t /\ tab[c].made # t
    BY <1>1 DEF Free
<1>3. /\ \A c \in Tabs : c # b => tab'[c] = tab[c]
      /\ tab'[b].at = tab[b].at /\ tab'[b].old = tab[b].old /\ tab'[b].revoked = tab[b].revoked
      /\ tab'[b].made = t /\ tab[b].at \in {"checked", "rotating", "failed"} /\ tab[b].made = NoToken
      /\ cookie' = cookie /\ excuses' = excuses
      /\ tokens'[t] = "live" /\ \A u \in Tokens : u # t => tokens'[u] = tokens[u]
      /\ cookie \in Tokens \cup {NoToken} /\ \A c \in Tabs : tab[c].old \in Tokens \cup {NoToken}
  <2>1. /\ tab \in [Tabs -> Requests] /\ tokens \in [Tokens -> {"none", "live", "dead"}]
        /\ cookie \in Tokens \cup {NoToken}
      BY DEF StrayInv, SessionsTypeOK, Requests
  <2>2. /\ tab[b].at \in {"checked", "rotating", "failed"} /\ tab[b].made = NoToken
        /\ cookie' = cookie /\ excuses' = excuses
      BY DEF IssueTokens
  <2>3. /\ \A c \in Tabs : c # b => tab'[c] = tab[c]
        /\ tab'[b].at = tab[b].at /\ tab'[b].old = tab[b].old /\ tab'[b].revoked = tab[b].revoked
        /\ tab'[b].made = t
      BY <1>1, <2>1 DEF Requests
  <2>4. tokens'[t] = "live" /\ \A u \in Tokens : u # t => tokens'[u] = tokens[u]
      BY <1>1, <1>2, <2>1
  <2>5. \A c \in Tabs : tab[c].old \in Tokens \cup {NoToken}
      BY <2>1 DEF Requests
  <2> QED
      BY <2>1, <2>2, <2>3, <2>4, <2>5
<1>4. /\ Open(cookie)' = Open(cookie)
      /\ \A c \in Tabs : Open(tab[c].old)' = Open(tab[c].old) /\ tab'[c].old = tab[c].old
    BY <1>2, <1>3 DEF Open
<1>5. Busy' = Busy /\ Carriers' = Carriers /\ Killers' = Killers
    BY <1>3 DEF Busy, Carriers, Killers
<1>6. Doomed' = Doomed
    BY <1>2, <1>3 DEF Doomed, StrayInv, Hands
<1>7. Hands'
    BY <1>3, <1>4, <1>5 DEF StrayInv, Hands
<1>8. Abandoned' \subseteq Abandoned
    BY <1>2, <1>3, <1>5, TokensAssumption DEF Abandoned, Carriers
<1>9. Owing' => Owing
    BY <1>3, <1>4, <1>5, <1>6 DEF Owing, Exposed, LeftBehind, Carriers
<1>10. IsFiniteSet(LiveTokens')
  <2>1. LiveTokens' \subseteq LiveTokens \cup {t}
      BY <1>3 DEF LiveTokens
  <2> QED
      BY <2>1, LiveStaysFinite
<1>11. Counted'
    BY <1>3, <1>5, <1>8, <1>9, <1>10, StaysCounted
<1> QED
    BY <1>7, <1>11

(* A row ends: nothing else about the rows changes.                        *)
LEMMA DeadEnds ==
    ASSUME SessionsTypeOK, NEW t \in Tokens, tokens' = Dead(t)
    PROVE  /\ tokens'[t] # "live"
           /\ \A u \in Tokens : u # t => tokens'[u] = tokens[u]
           /\ \A u \in Tokens : tokens'[u] = "live" => tokens[u] = "live"
           /\ LiveTokens' \subseteq LiveTokens
BY DEF SessionsTypeOK, Dead, LiveTokens

(* The other half of a refresh.                                            *)
LEMMA RevokeKeepsCount ==
    ASSUME StrayInv, NEW b \in Tabs, RevokeOld(b)
    PROVE  Hands' /\ Counted'
<1>1. PICK t : t = tab[b].old
    OBVIOUS
<1>2. /\ t \in Tokens /\ t # NoToken /\ tab[b].at = "rotating" /\ ~tab[b].revoked
      /\ cookie' = cookie /\ excuses' = excuses /\ SessionsTypeOK
      /\ cookie \in Tokens \cup {NoToken} /\ \A c \in Tabs : tab[c].old \in Tokens \cup {NoToken}
    BY <1>1, TokensAssumption DEF StrayInv, SessionsTypeOK, Hands, RevokeOld
<1>3. CASE tokens[t] = "none"
  <2>1. /\ \A c \in Tabs : c # b => tab'[c] = tab[c]
        /\ tab'[b].at = "failed" /\ tab'[b].old = t /\ tab'[b].made = tab[b].made /\ ~tab'[b].revoked
        /\ tokens' = tokens
      BY <1>1, <1>2, <1>3 DEF RevokeOld, SessionsTypeOK
  <2>2. /\ Busy' = Busy /\ Carriers' = Carriers \ {b} /\ Killers' = Killers /\ b \in Carriers
        /\ Doomed' = Doomed
      BY <1>1, <1>2, <1>3, <2>1 DEF Busy, Carriers, Killers, Doomed
  <2>3. Hands'
      BY <1>1, <1>2, <1>3, <2>1, <2>2 DEF StrayInv, Hands, Open, Killers
  <2>4. Abandoned' \subseteq Abandoned
      BY <1>1, <1>2, <1>3, <2>1, <2>2 DEF Abandoned, Carriers
  <2>5. Owing' => Owing
      BY <1>1, <1>2, <1>3, <2>1, <2>2 DEF Owing, Exposed, LeftBehind, Open, Carriers
  <2>6. IsFiniteSet(LiveTokens')
      BY <2>1 DEF StrayInv, Counted, LiveTokens
  <2>7. Counted'
      BY <1>2, <2>2, <2>4, <2>5, <2>6, StaysCounted
  <2> QED
      BY <2>3, <2>7
<1>4. CASE tokens[t] # "none"
  <2>1. /\ \A c \in Tabs : c # b => tab'[c] = tab[c]
        /\ tab'[b].at = "rotating" /\ tab'[b].old = t /\ tab'[b].made = tab[b].made /\ tab'[b].revoked
        /\ tokens' = Dead(t)
      BY <1>1, <1>2, <1>4 DEF RevokeOld, SessionsTypeOK
  <2>2. /\ tokens'[t] # "live" /\ LiveTokens' \subseteq LiveTokens
        /\ \A u \in Tokens : u # t => tokens'[u] = tokens[u]
        /\ \A u \in Tokens : tokens'[u] = "live" => tokens[u] = "live"
      BY <1>2, <2>1, DeadEnds
  <2>3. Busy' = Busy /\ Carriers' = Carriers /\ Killers' = Killers \cup {b}
      BY <1>2, <2>1 DEF Busy, Carriers, Killers
  <2>4. Hands'
      BY <1>1, <1>2, <2>1, <2>2, <2>3 DEF StrayInv, Hands, Open, Killers
  <2>5. Abandoned' \subseteq Abandoned
      BY <1>1, <1>2, <2>1, <2>2, <2>3 DEF Abandoned, Carriers
  <2>6. Owing' => Owing
      BY <1>1, <1>2, <2>1, <2>2, <2>3 DEF Owing, Exposed, LeftBehind, Open, Carriers
  <2>7. IsFiniteSet(LiveTokens')
      BY <2>2, LiveStaysFinite
  <2>8. Counted'
      BY <1>2, <2>3, <2>5, <2>6, <2>7, StaysCounted
  <2> QED
      BY <2>4, <2>8
<1> QED
    BY <1>3, <1>4

(* The answer of a login or a refresh.                                     *)
LEMMA AnswerKeepsCount ==
    ASSUME StrayInv, NEW b \in Tabs, Answered(b)
    PROVE  Hands' /\ Counted'
<1>1. /\ \A c \in Tabs : c # b => tab'[c] = tab[c]
      /\ tab'[b] = Quiet /\ tab[b].made # NoToken /\ tab[b].made \in Tokens
      /\ tokens' = tokens /\ excuses' = excuses /\ tab[b].at # "quiet"
      /\ cookie \in Tokens \cup {NoToken} /\ tab[b].old \in Tokens \cup {NoToken}
    BY DEF StrayInv, SessionsTypeOK, Hands, Answered
<1>2. Busy' = Busy \ {b} /\ b \in Busy /\ Carriers' = Carriers \ {b}
    BY <1>1 DEF Busy, Carriers, Quiet
<1>3. Hands'
    BY <1>1 DEF StrayInv, Hands, Killers, Open, Quiet
<1>4. IsFiniteSet(LiveTokens')
    BY <1>1 DEF StrayInv, Counted, LiveTokens
<1>5. CASE cookie' = tab[b].made /\ (tab[b].at = "checked" \/ (tab[b].at = "rotating" /\ tab[b].revoked))
  <2>1. b \in Carriers => ~Open(tab[b].old)
      BY <1>5 DEF StrayInv, Hands, Killers, Carriers
  <2>2. Abandoned' \subseteq Abandoned \cup {cookie}
    <3>1. ASSUME NEW t \in Abandoned', t \notin Abandoned, t # cookie PROVE FALSE
      <4>1. /\ t \in Tokens /\ t # NoToken /\ tokens[t] = "live" /\ cookie' # t
            /\ \A c \in Tabs : tab'[c].made # t
            /\ \A c \in Carriers' : tab'[c].old # t
          BY <1>1, <3>1, TokensAssumption DEF Abandoned
      <4>2. cookie # t /\ tab[b].made # t
          BY <1>5, <3>1, <4>1
      <4>3. \A c \in Tabs : tab[c].made # t
          BY <1>1, <4>1, <4>2
      <4>4. PICK c \in Carriers : tab[c].old = t
          BY <3>1, <4>1, <4>2, <4>3 DEF Abandoned
      <4>5. c = b
          BY <1>1, <1>2, <4>1, <4>4 DEF Carriers
      <4> QED
          BY <2>1, <4>1, <4>4, <4>5 DEF Open
    <3> QED
        BY <3>1
  <2>3. cookie \in Abandoned' => Owing
      BY <1>1, <1>2, <2>1, TokensAssumption DEF Abandoned, Owing, Exposed, Open, Carriers
  <2>4. Counted'
      BY <1>1, <1>2, <1>4, <2>2, <2>3, LeavesCounted
  <2> QED
      BY <1>3, <2>4
<1>6. CASE tab[b].at = "failed" /\ cookie' = cookie
  <2>1. ~Open(tab[b].old) /\ b \in Doomed /\ b \notin Carriers /\ b \notin Killers
      BY <1>6 DEF StrayInv, Hands, Doomed, Carriers, Killers
  <2>2. Abandoned' \subseteq Abandoned \cup {tab[b].made}
    <3>1. ASSUME NEW t \in Abandoned', t \notin Abandoned, t # tab[b].made PROVE FALSE
      <4>1. /\ t \in Tokens /\ t # NoToken /\ tokens[t] = "live" /\ cookie' # t
            /\ \A c \in Tabs : tab'[c].made # t
            /\ \A c \in Carriers' : tab'[c].old # t
          BY <1>1, <3>1, TokensAssumption DEF Abandoned
      <4>2. cookie # t /\ tab[b].made # t
          BY <1>6, <3>1, <4>1
      <4>3. \A c \in Tabs : tab[c].made # t
          BY <1>1, <4>1, <4>2
      <4>4. PICK c \in Carriers : tab[c].old = t
          BY <3>1, <4>1, <4>2, <4>3 DEF Abandoned
      <4>5. c = b
          BY <1>1, <1>2, <4>1, <4>4 DEF Carriers
      <4> QED
          BY <2>1, <4>1, <4>4, <4>5 DEF Open
    <3> QED
        BY <3>1
  <2>3. CASE Killers = {}
    <3>1. Owing
        BY <2>1, <2>3 DEF Owing
    <3>2. Counted'
        BY <1>1, <1>2, <1>4, <2>2, <3>1, LeavesCounted
    <3> QED
        BY <1>3, <3>2
  <2>4. CASE Killers # {}
    <3>1. Killers' = Killers
        BY <1>1, <2>1 DEF Killers, Quiet
    <3>2. Owing' => Owing
        BY <1>1, <1>2, <1>6, <2>1, <2>4, <3>1 DEF Owing, Exposed, LeftBehind, Open, Carriers
    <3>3. Busy' # {} /\ Busy # {}
        BY <1>2, <2>1, <2>4 DEF Killers, Busy
    <3>4. Debt' \in {0, 1} /\ Debt' <= Debt
        BY <3>2 DEF Debt
    <3>5. Cardinality(Busy') = Cardinality(Busy) - 1
        BY <1>2, StrayCounts, FS_RemoveElement
    <3>6. IsFiniteSet(Abandoned \cup {tab[b].made}) /\ Cardinality(Abandoned \cup {tab[b].made}) \in Nat
          /\ Cardinality(Abandoned \cup {tab[b].made}) <= Cardinality(Abandoned) + 1
        BY OneMoreCounts, StrayCounts
    <3>7. Cardinality(Abandoned') \in Nat /\ Cardinality(Abandoned') <= Cardinality(Abandoned \cup {tab[b].made})
        BY <2>2, <3>6, FS_Subset, FS_CardinalityType
    <3>8. Cardinality(Abandoned) + Cardinality(Busy) + Debt <= excuses + 1
        BY <3>3 DEF StrayInv, Counted
    <3>9. Cardinality(Abandoned') + Cardinality(Busy') + Debt' <= excuses' + 1
        BY <1>1, <3>4, <3>5, <3>6, <3>7, <3>8, StrayCounts
    <3>10. Counted'
        BY <1>4, <3>3, <3>9 DEF Counted
    <3> QED
        BY <1>3, <3>10
  <2> QED
      BY <2>3, <2>4
<1> QED
    BY <1>5, <1>6 DEF Answered

(* logout revokes the token it came with.                                  *)
LEMMA LogoutKeepsCount ==
    ASSUME StrayInv, NEW b \in Tabs, LogoutRevoke(b)
    PROVE  Hands' /\ Counted'
<1>1. PICK t : t = tab[b].old
    OBVIOUS
<1>2. /\ t \in Tokens \cup {NoToken} /\ tab[b].at = "loggingOut" /\ ~tab[b].revoked
      /\ cookie' = cookie /\ excuses' = excuses /\ SessionsTypeOK
      /\ \A c \in Tabs : tab[c].old \in Tokens \cup {NoToken}
    BY <1>1 DEF StrayInv, SessionsTypeOK, Hands, LogoutRevoke
<1>3. /\ \A c \in Tabs : c # b => tab'[c] = tab[c]
      /\ tab'[b].at = "loggedOut" /\ tab'[b].old = t /\ tab'[b].made = tab[b].made
      /\ tab'[b].revoked = tab[b].revoked
    BY <1>1, <1>2 DEF LogoutRevoke, SessionsTypeOK
<1>4. /\ t # NoToken => tokens'[t] # "live"
      /\ LiveTokens' \subseteq LiveTokens
      /\ \A u \in Tokens : tokens'[u] = "live" => tokens[u] = "live"
  <2>1. CASE t = NoToken
    <3>1. tokens' = tokens
        BY <1>1, <2>1 DEF LogoutRevoke
    <3> QED
        BY <2>1, <3>1 DEF LiveTokens
  <2>2. CASE t # NoToken
    <3>1. tokens' = Dead(t) /\ t \in Tokens
        BY <1>1, <1>2, <2>2 DEF LogoutRevoke
    <3> QED
        BY <1>2, <3>1, DeadEnds
  <2> QED
      BY <2>1, <2>2
<1>5. Busy' = Busy /\ Carriers' = Carriers \ {b} /\ b \in Killers'
      /\ \A c \in Tabs : c # b => (c \in Killers' <=> c \in Killers)
    BY <1>2, <1>3 DEF Busy, Carriers, Killers
<1>6. \A c \in Tabs : Open(tab[c].old)' => Open(tab[c].old)
    BY <1>1, <1>2, <1>3, <1>4, TokensAssumption DEF Open
<1>7. Hands'
  <2>1. ~Open(tab[b].old)'
      BY <1>3, <1>4 DEF Open
  <2>2. ASSUME NEW c \in Tabs PROVE ~Open(tab[c].old)' \/ ~(c \in Killers' \/ tab'[c].at = "failed")
      BY <1>3, <1>5, <1>6, <2>1 DEF StrayInv, Hands
  <2>3. ASSUME NEW c \in Tabs
        PROVE  /\ tab'[c].at \in {"quiet", "loggingIn", "refreshing", "loggingOut", "loggedOut"}
                      => tab'[c].made = NoToken
               /\ tab'[c].at \in {"refreshing", "rotating"} => tab'[c].old # NoToken
               /\ tab'[c].at # "rotating" => ~tab'[c].revoked
      BY <1>2, <1>3 DEF StrayInv, Hands
  <2> QED
      BY <2>2, <2>3 DEF Hands
<1>8. Abandoned' \subseteq Abandoned
  <2>1. ASSUME NEW u \in Abandoned' PROVE u \in Abandoned
    <3>1. /\ u \in Tokens /\ u # NoToken /\ tokens'[u] = "live" /\ cookie # u
          /\ \A c \in Tabs : tab'[c].made # u
          /\ \A c \in Carriers' : tab'[c].old # u
        BY <1>2, <2>1, TokensAssumption DEF Abandoned
    <3>2. tokens[u] = "live" /\ t # u
        BY <1>4, <3>1
    <3>3. \A c \in Tabs : tab[c].made # u
        BY <1>3, <3>1
    <3>4. \A c \in Carriers : tab[c].old # u
        BY <1>1, <1>3, <1>5, <3>1, <3>2 DEF Carriers
    <3> QED
        BY <3>1, <3>2, <3>3, <3>4 DEF Abandoned
  <2> QED
      BY <2>1
<1>9. Owing' => Owing
  <2>1. Exposed' => Exposed
    <3>1. Open(cookie)' => Open(cookie) /\ t # cookie
        BY <1>2, <1>4 DEF StrayInv, SessionsTypeOK, Open
    <3> QED
        BY <1>1, <1>2, <1>3, <1>5, <3>1 DEF Exposed, Carriers
  <2>2. LeftBehind' => LeftBehind
      BY <1>2, <1>3, <1>5, <1>6 DEF LeftBehind, Carriers
  <2> QED
      BY <1>5, <2>1, <2>2 DEF Owing
<1>10. IsFiniteSet(LiveTokens')
    BY <1>4, LiveStaysFinite
<1>11. Counted'
    BY <1>2, <1>5, <1>8, <1>9, <1>10, StaysCounted
<1> QED
    BY <1>7, <1>11

(* Its answer clears the cookie.                                           *)
LEMMA LoggedOutKeepsCount ==
    ASSUME StrayInv, NEW b \in Tabs, LogoutAnswered(b)
    PROVE  Hands' /\ Counted'
<1>1. /\ \A c \in Tabs : c # b => tab'[c] = tab[c]
      /\ tab'[b] = Quiet /\ tab[b].at = "loggedOut" /\ tab[b].made = NoToken
      /\ tokens' = tokens /\ excuses' = excuses /\ cookie' = NoToken
      /\ cookie \in Tokens \cup {NoToken}
    BY DEF StrayInv, SessionsTypeOK, Hands, LogoutAnswered
<1>2. Busy' = Busy \ {b} /\ b \in Busy /\ Carriers' = Carriers /\ b \notin Carriers
    BY <1>1 DEF Busy, Carriers, Quiet
<1>3. Hands'
    BY <1>1 DEF StrayInv, Hands, Killers, Open, Quiet
<1>4. IsFiniteSet(LiveTokens')
    BY <1>1 DEF StrayInv, Counted, LiveTokens
<1>5. ASSUME NEW t \in Abandoned', t # cookie PROVE t \in Abandoned
  <2>1. /\ t \in Tokens /\ t # NoToken /\ tokens[t] = "live"
        /\ \A c \in Tabs : tab'[c].made # t
        /\ \A c \in Carriers : tab'[c].old # t
      BY <1>1, <1>2, <1>5, TokensAssumption DEF Abandoned
  <2>2. \A c \in Tabs : tab[c].made # t
      BY <1>1, <2>1
  <2>3. \A c \in Carriers : tab[c].old # t
      BY <1>1, <1>2, <2>1 DEF Carriers
  <2> QED
      BY <1>5, <2>1, <2>2, <2>3 DEF Abandoned
<1>6. ASSUME cookie \in Abandoned' PROVE Owing
  <2>1. cookie \in Tokens /\ tokens[cookie] = "live" /\ \A c \in Carriers : tab'[c].old # cookie
      BY <1>1, <1>2, <1>6 DEF Abandoned
  <2>2. \A c \in Carriers : tab[c].old # cookie
      BY <1>1, <1>2, <2>1 DEF Carriers
  <2> QED
      BY <2>1, <2>2, TokensAssumption DEF Owing, Exposed, Open
<1>7. Abandoned' \subseteq Abandoned \cup {cookie}
    BY <1>5
<1>8. Counted'
    BY <1>1, <1>2, <1>4, <1>6, <1>7, LeavesCounted
<1> QED
    BY <1>3, <1>8

(* A row expires, perhaps while a request replaces it.                     *)
LEMMA ExpireKeepsCount ==
    ASSUME StrayInv, NEW t \in Tokens, Expire(t)
    PROVE  Hands' /\ Counted'
<1>1. /\ tokens' = Dead(t) /\ tab' = tab /\ cookie' = cookie /\ SessionsTypeOK
      /\ cookie \in Tokens \cup {NoToken} /\ \A c \in Tabs : tab[c].old \in Tokens \cup {NoToken}
    BY DEF StrayInv, SessionsTypeOK, Expire
<1>2. /\ tokens'[t] # "live" /\ LiveTokens' \subseteq LiveTokens
      /\ \A u \in Tokens : u # t => tokens'[u] = tokens[u]
      /\ \A u \in Tokens : tokens'[u] = "live" => tokens[u] = "live"
    BY <1>1, DeadEnds
<1>3. Busy' = Busy /\ Carriers' = Carriers /\ Killers' = Killers
    BY <1>1 DEF Busy, Carriers, Killers
<1>4. /\ Open(cookie)' => Open(cookie)
      /\ \A c \in Tabs : Open(tab[c].old)' => Open(tab[c].old)
    BY <1>1, <1>2 DEF Open
<1>5. Hands'
    BY <1>1, <1>3, <1>4 DEF StrayInv, Hands
<1>6. Abandoned' \subseteq Abandoned
    BY <1>1, <1>2, <1>3 DEF Abandoned
<1>7. Exposed' => Exposed
    BY <1>1, <1>3, <1>4 DEF Exposed
<1>8. LeftBehind' => LeftBehind
    BY <1>1, <1>3, <1>4 DEF LeftBehind, Carriers
<1>9. IsFiniteSet(LiveTokens')
    BY <1>2, LiveStaysFinite
<1>10. CASE \E c \in Tabs : tab[c].at = "rotating" /\ tab[c].old = t
  <2>1. excuses' = excuses + 1
      BY <1>10 DEF Expire, Excuse
  <2>2. Debt' \in {0, 1}
      BY DEF Debt
  <2>3. Cardinality(Abandoned') \in Nat /\ Cardinality(Abandoned') <= Cardinality(Abandoned)
      BY <1>6, StrayCounts, FS_Subset, FS_CardinalityType
  <2>4. /\ Busy' = {} => Cardinality(Abandoned') <= excuses'
        /\ Busy' # {} => Cardinality(Abandoned') + Cardinality(Busy') + Debt' <= excuses' + 1
      BY <1>3, <2>1, <2>2, <2>3, StrayCounts DEF StrayInv, Counted
  <2> QED
      BY <1>5, <1>9, <2>4 DEF Counted
<1>11. CASE ~\E c \in Tabs : tab[c].at = "rotating" /\ tab[c].old = t
  <2>1. excuses' = excuses + 0
      BY <1>11 DEF Expire, Excuse
  <2>2. excuses' = excuses
      BY <2>1, StrayCounts
  <2>3. Doomed' = Doomed
      BY <1>1, <1>2, <1>11 DEF Doomed, StrayInv, Hands
  <2>4. Owing' => Owing
      BY <1>3, <1>7, <1>8, <2>3 DEF Owing
  <2>5. Counted'
      BY <1>3, <1>6, <1>9, <2>2, <2>4, StaysCounted
  <2> QED
      BY <1>5, <2>5
<1> QED
    BY <1>10, <1>11

(* Dead rows go, an account is switched off or on, nothing happens.        *)
LEMMA SweepKeepsCount ==
    ASSUME StrayInv, Sweep \/ SetActive \/ UNCHANGED sessionVars
    PROVE  Hands' /\ Counted'
<1>1. /\ tab' = tab /\ cookie' = cookie /\ excuses' = excuses
      /\ \A u \in Tokens : tokens'[u] = "live" <=> tokens[u] = "live"
    BY DEF StrayInv, SessionsTypeOK, Sweep, SetActive, sessionVars
<1>2. Busy' = Busy /\ Carriers' = Carriers /\ Killers' = Killers
    BY <1>1 DEF Busy, Carriers, Killers
<1>3. /\ Open(cookie)' <=> Open(cookie)
      /\ \A c \in Tabs : Open(tab[c].old)' <=> Open(tab[c].old)
    BY <1>1 DEF Open, StrayInv, SessionsTypeOK
<1>4. Hands'
    BY <1>1, <1>2, <1>3 DEF StrayInv, Hands
<1>5. Abandoned' \subseteq Abandoned
    BY <1>1, <1>2 DEF Abandoned
<1>6. Doomed' = Doomed
  <2>1. \A c \in Tabs : tab[c].at = "rotating" => tab[c].old \in Tokens
      BY DEF StrayInv, SessionsTypeOK, Hands
  <2> QED
      BY <1>1, <2>1 DEF Doomed
<1>7. Owing' => Owing
    BY <1>1, <1>2, <1>3, <1>6 DEF Owing, Exposed, LeftBehind, Carriers
<1>8. IsFiniteSet(LiveTokens')
  <2>1. LiveTokens' \subseteq LiveTokens \cup {NoToken}
      BY <1>1 DEF LiveTokens
  <2> QED
      BY <2>1, LiveStaysFinite
<1>9. Counted'
    BY <1>1, <1>2, <1>5, <1>7, <1>8, StaysCounted
<1> QED
    BY <1>4, <1>9

(* What the requests hold is no more than there are requests.              *)
LEMMA HeldCounts ==
    ASSUME StrayInv, NEW f \in [Busy -> Tokens \cup {NoToken}]
    PROVE  /\ IsFiniteSet({f[b] : b \in Busy}) /\ Cardinality({f[b] : b \in Busy}) \in Nat
           /\ Cardinality({f[b] : b \in Busy}) <= Cardinality(Busy)
<1>1. PICK T : T = {f[b] : b \in Busy}
    OBVIOUS
<1>2. f \in Surjection(Busy, T)
    BY <1>1 DEF Surjection
<1>3. IsFiniteSet(T) /\ Cardinality(T) <= Cardinality(Busy)
    BY <1>2, StrayCounts, FS_Surjection
<1>4. Cardinality(T) \in Nat
    BY <1>3, FS_CardinalityType
<1> QED
    BY <1>1, <1>3, <1>4

(* The union of two finite sets counts no more than both.                  *)
LEMMA UnionCounts ==
    ASSUME NEW S, IsFiniteSet(S), NEW T, IsFiniteSet(T)
    PROVE  /\ IsFiniteSet(S \cup T) /\ Cardinality(S \cup T) \in Nat
           /\ Cardinality(S \cup T) <= Cardinality(S) + Cardinality(T)
<1>1. /\ IsFiniteSet(S \cup T)
      /\ Cardinality(S \cup T) = Cardinality(S) + Cardinality(T) - Cardinality(S \cap T)
    BY FS_Union
<1>2. IsFiniteSet(S \cap T)
    BY FS_Subset
<1>3. Cardinality(S \cap T) \in Nat /\ Cardinality(S) \in Nat /\ Cardinality(T) \in Nat /\ Cardinality(S \cup T) \in Nat
    BY <1>1, <1>2, FS_CardinalityType
<1> QED
    BY <1>1, <1>3

(* A restart cuts off every request: it may leave behind what each came    *)
(* with and what was made for it.                                          *)
LEMMA RestartKeepsCount ==
    ASSUME StrayInv, Restart
    PROVE  Hands' /\ Counted'
<1>1. /\ \A c \in Tabs : tab'[c] = Quiet
      /\ tokens' = tokens /\ cookie' = cookie /\ excuses' = excuses + Cardinality(Busy)
      /\ \A c \in Tabs : tab[c].old \in Tokens \cup {NoToken} /\ tab[c].made \in Tokens \cup {NoToken}
    BY DEF StrayInv, SessionsTypeOK, Restart, Excuse
<1>2. Busy' = {}
    BY <1>1 DEF Busy, Quiet
<1>3. Hands'
    BY <1>1 DEF Hands, Killers, Open, Quiet
<1>4. IsFiniteSet(LiveTokens')
    BY <1>1 DEF StrayInv, Counted, LiveTokens
<1>5. ASSUME NEW t \in Abandoned', t \notin Abandoned
      PROVE  \/ \E c \in Busy : tab[c].made = t
             \/ \E c \in Busy : tab[c].old = t /\ c \in Carriers /\ Open(t) /\ t # cookie
  <2>1. t \in Tokens /\ t # NoToken /\ tokens[t] = "live" /\ cookie # t
      BY <1>1, <1>5, TokensAssumption DEF Abandoned
  <2>2. CASE \E c \in Tabs : tab[c].made = t
    <3>1. PICK c \in Tabs : tab[c].made = t
        BY <2>2
    <3>2. c \in Busy
        BY <2>1, <3>1 DEF StrayInv, Hands, Busy
    <3> QED
        BY <3>1, <3>2
  <2>3. CASE \A c \in Tabs : tab[c].made # t
    <3>1. PICK c \in Carriers : tab[c].old = t
        BY <1>5, <2>1, <2>3 DEF Abandoned
    <3>2. c \in Busy
        BY <3>1 DEF Carriers, Busy
    <3> QED
        BY <2>1, <3>1, <3>2 DEF Open
  <2> QED
      BY <2>2, <2>3
<1>6. PICK made : made = [b \in Busy |-> tab[b].made]
    OBVIOUS
<1>7. PICK old : old = [b \in Busy |-> tab[b].old]
    OBVIOUS
<1>8. PICK M : M = {made[b] : b \in Busy}
    OBVIOUS
<1>9. PICK O : O = {old[b] : b \in Busy}
    OBVIOUS
<1>10. /\ made \in [Busy -> Tokens \cup {NoToken}] /\ old \in [Busy -> Tokens \cup {NoToken}]
       /\ \A c \in Busy : tab[c].made \in M /\ tab[c].old \in O
    BY <1>1, <1>6, <1>7, <1>8, <1>9 DEF Busy
<1>11. IsFiniteSet(M) /\ Cardinality(M) \in Nat /\ Cardinality(M) <= Cardinality(Busy)
    BY <1>8, <1>10, HeldCounts
<1>12. IsFiniteSet(O) /\ Cardinality(O) \in Nat /\ Cardinality(O) <= Cardinality(Busy)
    BY <1>9, <1>10, HeldCounts
<1>13. /\ IsFiniteSet(Abandoned \cup M) /\ Cardinality(Abandoned \cup M) \in Nat
       /\ Cardinality(Abandoned \cup M) <= Cardinality(Abandoned) + Cardinality(Busy)
  <2>1. IsFiniteSet(Abandoned)
      BY StrayCounts
  <2>2. /\ IsFiniteSet(Abandoned \cup M) /\ Cardinality(Abandoned \cup M) \in Nat
        /\ Cardinality(Abandoned \cup M) <= Cardinality(Abandoned) + Cardinality(M)
      BY <1>11, <2>1, UnionCounts
  <2> QED
      BY <1>11, <2>2, StrayCounts
<1>14. /\ IsFiniteSet((Abandoned \cup M) \cup O) /\ Cardinality((Abandoned \cup M) \cup O) \in Nat
       /\ Cardinality((Abandoned \cup M) \cup O) <= Cardinality(Abandoned) + Cardinality(Busy) + Cardinality(Busy)
  <2>1. /\ IsFiniteSet((Abandoned \cup M) \cup O) /\ Cardinality((Abandoned \cup M) \cup O) \in Nat
        /\ Cardinality((Abandoned \cup M) \cup O) <= Cardinality(Abandoned \cup M) + Cardinality(O)
      BY <1>12, <1>13, UnionCounts
  <2> QED
      BY <1>12, <1>13, <2>1, StrayCounts
<1>15. Cardinality(Abandoned') <= excuses'
  <2>1. CASE Busy = {}
    <3>1. Abandoned' \subseteq Abandoned
        BY <1>5, <2>1
    <3>2. Cardinality(Abandoned') \in Nat /\ Cardinality(Abandoned') <= Cardinality(Abandoned)
        BY <3>1, StrayCounts, FS_Subset, FS_CardinalityType
    <3>3. Cardinality(Abandoned) <= excuses
        BY <2>1 DEF StrayInv, Counted
    <3> QED
        BY <1>1, <3>2, <3>3, StrayCounts
  <2>2. CASE Busy # {} /\ LeftBehind
    <3>1. Abandoned' \subseteq (Abandoned \cup M) \cup O
        BY <1>5, <1>10
    <3>2. Cardinality(Abandoned') \in Nat /\ Cardinality(Abandoned') <= Cardinality((Abandoned \cup M) \cup O)
        BY <1>14, <3>1, FS_Subset, FS_CardinalityType
    <3>3. Debt = 1
        BY <2>2 DEF Debt, Owing
    <3>4. Cardinality(Abandoned) + Cardinality(Busy) + 1 <= excuses + 1
        BY <2>2, <3>3 DEF StrayInv, Counted
    <3> QED
        BY <1>1, <1>14, <3>2, <3>4, StrayCounts
  <2>3. CASE Busy # {} /\ ~LeftBehind
    <3>1. Abandoned' \subseteq Abandoned \cup M
      <4>1. ASSUME NEW t \in Abandoned', t \notin Abandoned PROVE t \in M
        <5>1. ~\E c \in Busy : tab[c].old = t /\ c \in Carriers /\ Open(t) /\ t # cookie
            BY <2>3 DEF LeftBehind
        <5> QED
            BY <1>5, <1>10, <4>1, <5>1
      <4> QED
          BY <4>1
    <3>2. Cardinality(Abandoned') \in Nat /\ Cardinality(Abandoned') <= Cardinality(Abandoned \cup M)
        BY <1>13, <3>1, FS_Subset, FS_CardinalityType
    <3>3. Cardinality(Abandoned) + Cardinality(Busy) + Debt <= excuses + 1
        BY <2>3 DEF StrayInv, Counted
    <3> QED
        BY <1>1, <1>13, <2>3, <3>2, <3>3, StrayCounts
  <2> QED
      BY <2>1, <2>2, <2>3
<1> QED
    BY <1>2, <1>3, <1>4, <1>15 DEF Counted

(* At the start nobody has a token.                                        *)
LEMMA StraysStart == SessionsInit => Hands /\ Counted
<1> SUFFICES ASSUME SessionsInit PROVE Hands /\ Counted
    OBVIOUS
<1>1. /\ \A c \in Tabs : tab[c] = Quiet
      /\ \A t \in Tokens : tokens[t] = "none"
      /\ cookie = NoToken /\ excuses = 0
    BY DEF SessionsInit
<1>2. Hands
    BY <1>1 DEF Hands, Killers, Open, Quiet
<1>3. LiveTokens = {} /\ Abandoned = {} /\ Busy = {}
    BY <1>1 DEF LiveTokens, Abandoned, Busy, Quiet
<1>4. Counted
    BY <1>1, <1>3, FS_EmptySet DEF Counted
<1> QED
    BY <1>2, <1>4

(* Tokens that still open a session and that nobody has are explained, one *)
(* by one, by a request sent beside another, a login over an open session, *)
(* a token that expired in the middle of its refresh or a restart, for     *)
(* every number of tabs and tokens: requests sent one after the other      *)
(* leave none, because refresh revokes the token it replaces and logout    *)
(* the one it ends.                                                        *)
THEOREM StraysAreExplained == SessionsInit /\ [][SessionsNext]_sessionVars => []StraysExplained
<1>1. ASSUME SessionsTypeOK, SessionsTypeOK', Hands, Counted, [SessionsNext]_sessionVars
      PROVE  (Hands /\ Counted)'
  <2> USE <1>1
  <2>0. StrayInv
      BY DEF StrayInv
  <2>1. ASSUME NEW b \in Tabs, Login(b) \/ Refresh(b) \/ Logout(b) PROVE (Hands /\ Counted)'
    <3>1. CASE Login(b)
        BY <2>0, <3>1, SendKeepsCount DEF Login
    <3>2. CASE Refresh(b)
        BY <2>0, <3>2, SendKeepsCount DEF Refresh
    <3>3. CASE Logout(b)
        BY <2>0, <3>3, SendKeepsCount DEF Logout
    <3> QED
        BY <2>1, <3>1, <3>2, <3>3
  <2>2. ASSUME NEW b \in Tabs, LoginCheck(b) PROVE (Hands /\ Counted)'
    <3>1. CASE Refuse(b)
        BY <2>0, <2>2, <3>1, RefuseKeepsCount DEF LoginCheck
    <3>2. CASE ~Refuse(b)
        BY <2>0, <2>2, <3>2, CheckKeepsCount DEF LoginCheck
    <3> QED
        BY <3>1, <3>2
  <2>3. ASSUME NEW b \in Tabs, RefreshCheck(b) PROVE (Hands /\ Counted)'
    <3>1. CASE Refreshable(tab[b].old)
        BY <2>0, <2>3, <3>1, CheckKeepsCount DEF RefreshCheck
    <3>2. CASE ~Refreshable(tab[b].old)
        BY <2>0, <2>3, <3>2, RefuseKeepsCount DEF RefreshCheck
    <3> QED
        BY <3>1, <3>2
  <2>4. ASSUME NEW b \in Tabs, IssueTokens(b) \/ RevokeOld(b) \/ Answered(b) PROVE (Hands /\ Counted)'
      BY <2>0, <2>4, IssueKeepsCount, RevokeKeepsCount, AnswerKeepsCount
  <2>5. ASSUME NEW b \in Tabs, LogoutRevoke(b) \/ LogoutAnswered(b) PROVE (Hands /\ Counted)'
      BY <2>0, <2>5, LogoutKeepsCount, LoggedOutKeepsCount
  <2>6. ASSUME NEW t \in Tokens, Expire(t) PROVE (Hands /\ Counted)'
      BY <2>0, <2>6, ExpireKeepsCount
  <2>7. ASSUME Restart PROVE (Hands /\ Counted)'
      BY <2>0, <2>7, RestartKeepsCount
  <2>8. ASSUME Sweep \/ SetActive \/ UNCHANGED sessionVars PROVE (Hands /\ Counted)'
      BY <2>0, <2>8, SweepKeepsCount
  <2> QED
      BY <2>1, <2>2, <2>3, <2>4, <2>5, <2>6, <2>7, <2>8 DEF SessionsNext
<1>2. SessionsTypeOK /\ Hands /\ Counted => StraysExplained
  <2> SUFFICES ASSUME SessionsTypeOK, Hands, Counted PROVE StraysExplained
      OBVIOUS
  <2>1. StrayInv
      BY DEF StrayInv
  <2>2. Strays \subseteq Abandoned
      BY DEF Strays, Abandoned, Carriers
  <2>3. Cardinality(Strays) \in Nat /\ Cardinality(Strays) <= Cardinality(Abandoned)
      BY <2>1, <2>2, StrayCounts, FS_Subset, FS_CardinalityType
  <2>4. Cardinality(Abandoned) <= excuses
      BY <2>1, StrayCounts DEF Counted
  <2> QED
      BY <2>1, <2>3, <2>4, StrayCounts DEF StraysExplained
<1> QED
    BY SessionsTypeCorrect, StraysStart, <1>1, <1>2, PTL
=============================================================================
