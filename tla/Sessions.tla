------------------------------ MODULE Sessions ------------------------------
(***************************************************************************)
(* The refresh tokens of one user in one browser: login, rotation, logout, *)
(* the sweep of dead rows and restarts of the API.  The tabs of a browser  *)
(* share its cookies; a request carries the cookie of the moment it is     *)
(* sent and its answer sets the cookie when it arrives.                    *)
(***************************************************************************)
EXTENDS Integers, FiniteSets

CONSTANTS
    Tabs,
    Tokens,         \* ids; one is used again once its row is gone and nobody holds it
    NoToken,
    MaxExcuses      \* bound on the histories

ASSUME TokensAssumption == NoToken \notin Tokens /\ MaxExcuses \in Nat
ASSUME TabsAssumption == IsFiniteSet(Tabs)

VARIABLES
    active,     \* the user's is_active
    tokens,     \* refresh_tokens: live, dead (revoked or expired) or no row
    cookie,     \* the refresh token in the browser's cookie
    tab,        \* the request of each tab
    sweeps,     \* clean-ups fired and forgotten, however many, not run yet
    excuses     \* history: requests sent beside another or over a session, cut off, or expired midway
sessionVars == <<active, tokens, cookie, tab, sweeps, excuses>>

(* old is the token the request came with; revoked and made are the two    *)
(* halves of Promise.all in refresh.                                       *)
Quiet == [at |-> "quiet", old |-> NoToken, revoked |-> FALSE, made |-> NoToken]
States == {"quiet", "loggingIn", "checked", "refreshing", "rotating", "loggingOut", "loggedOut", "failed"}

SessionsTypeOK ==
    /\ active \in BOOLEAN /\ tokens \in [Tokens -> {"none", "live", "dead"}]
    /\ cookie \in Tokens \cup {NoToken}
    /\ tab \in [Tabs -> [at : States, old : Tokens \cup {NoToken}, revoked : BOOLEAN,
                         made : Tokens \cup {NoToken}]]
    /\ sweeps \in BOOLEAN /\ excuses \in 0..MaxExcuses

SessionsInit ==
    /\ active \in BOOLEAN /\ tokens = [t \in Tokens |-> "none"] /\ cookie = NoToken
    /\ tab = [b \in Tabs |-> Quiet] /\ sweeps = FALSE /\ excuses = 0

Busy == {b \in Tabs : tab[b].at # "quiet"}
Free == {t \in Tokens : tokens[t] = "none" /\ cookie # t /\ \A b \in Tabs : tab[b].old # t /\ tab[b].made # t}

Open(t) == t # NoToken /\ tokens[t] = "live"
Excuse(count) == excuses + count <= MaxExcuses /\ excuses' = excuses + count

(* A request is sent with the cookie of the moment.                        *)
Send(b, to) ==
    /\ tab[b].at = "quiet"
    /\ Excuse(IF Busy # {} \/ (to = "loggingIn" /\ Open(cookie)) THEN 1 ELSE 0)
    /\ tab' = [tab EXCEPT ![b] = [Quiet EXCEPT !.at = to, !.old = cookie]]
    /\ UNCHANGED <<active, tokens, cookie, sweeps>>
Refuse(b) ==
    /\ tab' = [tab EXCEPT ![b] = Quiet]
    /\ UNCHANGED <<active, tokens, cookie, sweeps, excuses>>

(* login: the user is read, then the password compared.                    *)
Login(b) == Send(b, "loggingIn")
LoginCheck(b) ==
    /\ tab[b].at = "loggingIn"
    /\ \/ active /\ tab' = [tab EXCEPT ![b].at = "checked", ![b].old = NoToken]
                 /\ UNCHANGED <<active, tokens, cookie, sweeps, excuses>>
       \/ Refuse(b)

(* refresh: one look at the row decides, nothing looks again.              *)
Refreshable(t) == Open(t) /\ active
Refresh(b) == cookie # NoToken /\ Send(b, "refreshing")
RefreshCheck(b) ==
    /\ tab[b].at = "refreshing"
    /\ IF Refreshable(tab[b].old)
       THEN tab' = [tab EXCEPT ![b].at = "rotating"] /\ UNCHANGED <<active, tokens, cookie, sweeps, excuses>>
       ELSE Refuse(b)

(* issueTokens: a new row, and a sweep that nobody waits for.              *)
IssueTokens(b) ==
    /\ tab[b].at \in {"checked", "rotating", "failed"} /\ tab[b].made = NoToken /\ Free # {}
    /\ LET t == CHOOSE t \in Free : TRUE
       IN  tokens' = [tokens EXCEPT ![t] = "live"] /\ tab' = [tab EXCEPT ![b].made = t]
    /\ sweeps' = TRUE
    /\ UNCHANGED <<active, cookie, excuses>>

Kept(t) == tokens
Dead(t) == [tokens EXCEPT ![t] = IF @ = "live" THEN "dead" ELSE @]

(* The other half: an update by id alone.  It revokes again what another   *)
(* request has revoked, and throws when the sweep has taken the row.       *)
RevokeOld(b) ==
    /\ tab[b].at = "rotating" /\ ~tab[b].revoked
    /\ IF tokens[tab[b].old] = "none"
       THEN tab' = [tab EXCEPT ![b].at = "failed"] /\ UNCHANGED tokens
       ELSE tab' = [tab EXCEPT ![b].revoked = TRUE] /\ tokens' = Dead(tab[b].old)
    /\ UNCHANGED <<active, cookie, sweeps, excuses>>

(* The answer sets the cookie.  A failed refresh sets none, and the token  *)
(* it made is nobody's.                                                    *)
Answered(b) ==
    /\ tab[b].made # NoToken
    /\ \/ tab[b].at = "checked" /\ cookie' = tab[b].made
       \/ tab[b].at = "rotating" /\ tab[b].revoked /\ cookie' = tab[b].made
       \/ tab[b].at = "failed" /\ UNCHANGED cookie
    /\ tab' = [tab EXCEPT ![b] = Quiet]
    /\ UNCHANGED <<active, tokens, sweeps, excuses>>

Logout(b) == Send(b, "loggingOut")
LogoutRevoke(b) ==
    /\ tab[b].at = "loggingOut"
    /\ tokens' = IF tab[b].old = NoToken THEN tokens ELSE Dead(tab[b].old)
    /\ tab' = [tab EXCEPT ![b].at = "loggedOut"]
    /\ UNCHANGED <<active, cookie, sweeps, excuses>>
LogoutAnswered(b) ==
    /\ tab[b].at = "loggedOut" /\ cookie' = NoToken
    /\ tab' = [tab EXCEPT ![b] = Quiet]
    /\ UNCHANGED <<active, tokens, sweeps, excuses>>

Sweep ==
    /\ sweeps /\ sweeps' \in BOOLEAN
    /\ tokens' = [t \in Tokens |-> IF tokens[t] = "dead" THEN "none" ELSE tokens[t]]
    /\ UNCHANGED <<active, cookie, tab, excuses>>
Expire(t) ==
    /\ tokens[t] = "live" /\ tokens' = Dead(t)
    /\ Excuse(IF \E b \in Tabs : tab[b].at = "rotating" /\ tab[b].old = t THEN 1 ELSE 0)
    /\ UNCHANGED <<active, cookie, tab, sweeps>>
SetActive ==
    /\ active' = ~active
    /\ UNCHANGED <<tokens, cookie, tab, sweeps, excuses>>
(* The API process restarts: what it was doing and its sweep are lost.     *)
Restart ==
    /\ Busy # {} \/ sweeps
    /\ Excuse(Cardinality(Busy))
    /\ tab' = [b \in Tabs |-> Quiet] /\ sweeps' = FALSE
    /\ UNCHANGED <<active, tokens, cookie>>

SessionsNext ==
    \/ \E b \in Tabs : \/ Login(b) \/ LoginCheck(b) \/ Refresh(b) \/ RefreshCheck(b)
                       \/ IssueTokens(b) \/ RevokeOld(b) \/ Answered(b)
                       \/ Logout(b) \/ LogoutRevoke(b) \/ LogoutAnswered(b)
    \/ \E t \in Tokens : Expire(t)
    \/ Sweep \/ SetActive \/ Restart

(* Tokens that open a session nobody has: live, in no cookie and not in    *)
(* the hands of a request.                                                 *)
Strays == {t \in Tokens : tokens[t] = "live" /\ cookie # t
                          /\ \A b \in Tabs : tab[b].old # t /\ tab[b].made # t}

(* One after the other, requests leave no token behind: each stray is owed *)
(* to a request sent beside another, a login over a session, a token that  *)
(* expired in the middle of its refresh or a restart, one for each         *)
(* (refresh revokes what it replaces, logout what it ends).                *)
StraysExplained == Cardinality(Strays) <= excuses

=============================================================================
