-------------------------- MODULE JifengConnection --------------------------
(***************************************************************************)
(* The one connection to the warehouse system Jifeng: its tokens, the      *)
(* resources chosen in it, the diagnostic that must pass before orders are *)
(* looked up, and what happens when a token expires or is rejected         *)
(* (src/modules/jifeng-connection).                                        *)
(*                                                                         *)
(* A call takes its time at its start and waits afterwards, for an         *)
(* advisory lock, for Jifeng or for the row: "now" may be old when it is   *)
(* written. Transactions that lock the row are one action. Two calls do    *)
(* not start in the same millisecond.                                      *)
(***************************************************************************)
EXTENDS Naturals, FiniteSets

CONSTANTS Procs,     \* server and worker processes
          Resources, \* warehouses with their logistics
          Nothing, MaxClock, MaxTokens, Life

VARIABLES conn,      \* the row of jifeng_connections
          call,      \* what a process is doing
          refreshLock, \* the advisory lock around refreshes
          clock,
          good,      \* tokens that Jifeng accepts
          issued,    \* tokens that Jifeng has issued
          spent,     \* refresh tokens that Jifeng has exchanged for others
          resent,    \* refresh tokens sent again after that
          lost,      \* tokens whose refresh was answered to nobody
          proved,    \* a diagnostic has passed since the connection was changed
          blind      \* processes whose key cannot read what is stored; never changes

tokens == <<good, issued, spent, resent, lost>>
remote == <<tokens, blind>>
connVars == <<conn, call, refreshLock, clock, remote, proved>>

Unusable == {"DISCONNECTED", "ERROR", "REFRESH_REQUIRED"}
Resting == [at |-> "resting"]
Kinds == {"cycle", "authorize", "discover", "select", "diagnose", "enable", "disable", "disconnect"}

Disconnected == [status |-> "DISCONNECTED", token |-> 0, expires |-> 0, updated |-> 0,
                 diagnostic |-> 0, resource |-> Nothing]
Init ==
    /\ conn = Disconnected
    /\ call = [p \in Procs |-> Resting]
    /\ refreshLock = Nothing /\ clock = 1
    /\ good = {} /\ issued = 0 /\ spent = {} /\ resent = {} /\ lost = {}
    /\ proved = FALSE /\ blind \in (SUBSET Procs) \ {Procs}

Rest(p) == call' = [call EXCEPT ![p] = Resting]
Begin(p, kind) ==
    /\ call[p] = Resting /\ clock < MaxClock
    /\ call' = [call EXCEPT ![p] = [at |-> "begun", kind |-> kind, now |-> clock]]
    /\ clock' = clock + 1
    /\ UNCHANGED <<conn, refreshLock, remote, proved>>

-----------------------------------------------------------------------------
(* loadPersistedJifengRuntime: a usable token, refreshed if need be         *)

Refreshing == {"cycle", "discover", "diagnose", "enable"}
Usable(row, now) == row.expires > now

\* Ends the call, or goes on with the credentials of row.
Proceed(p, row) ==
    call' = [call EXCEPT ![p] = [at |-> "ready", kind |-> @.kind, now |-> @.now, source |-> row]]
Holding(p, at, row) ==
    call' = [call EXCEPT ![p] = [at |-> at, kind |-> @.kind, now |-> @.now, source |-> row]]

WaitsForLock(p) == call[p].at = "begun" /\ call[p].kind \in Refreshing

LoadUnlocked(p) == WaitsForLock(p)
CanLoad(p) == WaitsForLock(p) /\ refreshLock = Nothing

LoadRefused(p) ==
    /\ CanLoad(p) /\ conn.status \in Unusable
    /\ Rest(p)
    /\ UNCHANGED <<conn, refreshLock, clock, remote, proved>>

LoadUsable(p) ==
    /\ CanLoad(p) /\ conn.status \notin Unusable
    /\ Usable(conn, call[p].now) /\ p \notin blind
    /\ Proceed(p, conn)
    /\ UNCHANGED <<conn, refreshLock, clock, remote, proved>>

LoadUnreadable(p) ==
    /\ CanLoad(p) /\ conn.status \notin Unusable /\ p \in blind
    /\ Holding(p, "unreadable", conn) /\ refreshLock' = p
    /\ UNCHANGED <<conn, clock, remote, proved>>

\* Jifeng exchanges the refresh token for another pair, or refuses; the answer may get lost.
CallRefresh(p) ==
    /\ CanLoad(p) /\ conn.status \notin Unusable
    /\ ~Usable(conn, call[p].now) /\ p \notin blind
    /\ refreshLock' = p
    /\ resent' = resent \cup ({conn.token} \cap spent)
    /\ \/ /\ conn.token \in good /\ issued < MaxTokens
          /\ issued' = issued + 1 /\ spent' = spent \cup {conn.token}
          /\ good' = (good \ {conn.token}) \cup {issued'}
          /\ \/ call' = [call EXCEPT ![p] = [at |-> "refreshed", kind |-> @.kind, now |-> @.now,
                                             source |-> conn, new |-> issued']]
                /\ UNCHANGED lost
             \/ lost' = lost \cup {conn.token} /\ Holding(p, "failed", conn)
       \/ Holding(p, "failed", conn) /\ UNCHANGED <<good, issued, spent, lost>>
    /\ UNCHANGED <<conn, clock, proved, blind>>

\* The refresh token is not sent when its own time is over.
RefreshTokenExpired(p) ==
    /\ CanLoad(p) /\ conn.status \notin Unusable /\ ~Usable(conn, call[p].now)
    /\ Holding(p, "failed", conn) /\ refreshLock' = p
    /\ UNCHANGED <<conn, clock, remote, proved>>

\* The new pair is kept unless somebody has changed the tokens meanwhile.
StoreRefreshed(p) ==
    /\ call[p].at = "refreshed"
    /\ conn' = IF conn.token = call[p].source.token
               THEN [conn EXCEPT !.token = call[p].new, !.expires = call[p].now + Life]
               ELSE conn
    /\ IF conn'.token = 0 THEN Rest(p) ELSE Proceed(p, conn')
    /\ refreshLock' = Nothing
    /\ UNCHANGED <<clock, remote, proved>>

SameStatusOnly(row) == conn.status = row.status
SameRevision(row) ==
    conn.status = row.status /\ conn.updated = row.updated /\ conn.token = row.token

\* markRefreshFailure and markCredentialFailure
RecordFailure(p) ==
    /\ call[p].at \in {"failed", "unreadable"}
    /\ IF SameRevision(call[p].source)
       THEN /\ conn' = [conn EXCEPT !.updated = call[p].now,
                          !.status = IF call[p].at = "failed" THEN "REFRESH_REQUIRED" ELSE "ERROR"]
            /\ proved' = (proved /\ call[p].at = "unreadable")
       ELSE UNCHANGED <<conn, proved>>
    /\ Rest(p) /\ refreshLock' = Nothing
    /\ UNCHANGED <<clock, remote>>

-----------------------------------------------------------------------------
(* A cycle of the worker uses its credentials                               *)

CycleEnds(p) ==
    /\ call[p].at = "ready" /\ call[p].kind = "cycle"
    /\ call[p].source.token \in good \/ conn.status \in Unusable
    /\ Rest(p)
    /\ UNCHANGED <<conn, refreshLock, clock, remote, proved>>

\* markRuntimeAuthenticationRejected
Later(now, row) == IF now > row.updated THEN now ELSE row.updated + 1
CycleRejected(p) ==
    /\ call[p].at = "ready" /\ call[p].kind = "cycle"
    /\ call[p].source.token \notin good /\ refreshLock = Nothing
    /\ IF SameRevision(call[p].source)
       THEN /\ conn' = [conn EXCEPT !.status = "REFRESH_REQUIRED", !.updated = Later(clock, conn)]
            /\ proved' = FALSE
       ELSE UNCHANGED <<conn, proved>>
    /\ Rest(p)
    /\ UNCHANGED <<refreshLock, clock, remote>>

-----------------------------------------------------------------------------
(* The administrators                                                       *)

\* authorizeJifengConnection: a code, tokens and the resources from Jifeng.
Authorize(p) ==
    /\ call[p].at = "begun" /\ call[p].kind = "authorize"
    /\ issued < MaxTokens
    /\ issued' = issued + 1 /\ good' = good \cup {issued'}
    /\ call' = [call EXCEPT ![p] = [at |-> "authorized", now |-> @.now, new |-> issued']]
    /\ UNCHANGED <<conn, refreshLock, clock, spent, resent, lost, proved, blind>>

Discovered == Resources \cup {Nothing}
StatusWith(r) == IF r = Nothing THEN "RESOURCE_SELECTION_REQUIRED" ELSE "READY_DISABLED"
StoreAuthorization(p) ==
    /\ call[p].at = "authorized"
    /\ \E r \in Discovered :
          conn' = [status |-> StatusWith(r), token |-> call[p].new, expires |-> call[p].now + Life,
                   updated |-> call[p].now, diagnostic |-> 0, resource |-> r]
    /\ proved' = FALSE /\ Rest(p)
    /\ UNCHANGED <<refreshLock, clock, remote>>

\* Too many attempts, a code that Jifeng refuses, or resources it does not tell: only
\* the attempt is recorded, and tokens that were exchanged are dropped.
AuthorizationFails(p) ==
    /\ \/ call[p].at = "begun" /\ call[p].kind = "authorize"
       \/ call[p].at = "authorized"
    /\ Rest(p)
    /\ UNCHANGED <<conn, refreshLock, clock, remote, proved>>

\* discoverJifengResources and runStoredJifengDiagnostic read which revision they are about.
ReadRevision(p) ==
    /\ call[p].at = "ready" /\ call[p].kind \in {"discover", "diagnose"}
    /\ IF conn.status \in Unusable
       THEN Rest(p)
       ELSE call' = [call EXCEPT ![p] = [at |-> "asking", kind |-> @.kind, now |-> @.now,
                                         token |-> @.source.token, expected |-> conn.updated]]
    /\ UNCHANGED <<conn, refreshLock, clock, remote, proved>>

Expected(p) == conn.status \notin Unusable /\ conn.updated = call[p].expected

StoreDiscovery(p) ==
    /\ call[p].at = "asking" /\ call[p].kind = "discover"
    /\ IF Expected(p)
       THEN /\ \E r \in Discovered :
                  conn' = [conn EXCEPT !.status = StatusWith(r), !.resource = r,
                                       !.diagnostic = 0, !.updated = call[p].now]
            /\ proved' = FALSE
       ELSE UNCHANGED <<conn, proved>>
    /\ Rest(p)
    /\ UNCHANGED <<refreshLock, clock, remote>>

StoreDiagnostic(p) ==
    /\ call[p].at = "asking" /\ call[p].kind = "diagnose"
    /\ IF Expected(p)
       THEN \E ok \in IF call[p].token \in good THEN BOOLEAN ELSE {FALSE} :
               /\ conn' = [conn EXCEPT !.diagnostic = IF ok THEN call[p].now ELSE 0]
               /\ proved' = (proved \/ ok)
       ELSE UNCHANGED <<conn, proved>>
    /\ Rest(p)
    /\ UNCHANGED <<refreshLock, clock, remote>>

Select(p) ==
    /\ call[p].at = "begun" /\ call[p].kind = "select"
    /\ IF conn.status \in Unusable
       THEN UNCHANGED <<conn, proved>>
       ELSE /\ \E r \in Resources : conn' = [conn EXCEPT !.status = "READY_DISABLED", !.resource = r,
                                                         !.diagnostic = 0, !.updated = call[p].now]
            /\ proved' = FALSE
    /\ Rest(p)
    /\ UNCHANGED <<refreshLock, clock, remote>>

\* The status is not looked at again: times say whether the diagnostic is newer.
DiagnosticOfAnyAge == conn.diagnostic # 0
Diagnosed == conn.diagnostic # 0 /\ conn.diagnostic >= conn.updated
Enable(p) ==
    /\ call[p].at = "ready" /\ call[p].kind = "enable"
    /\ conn' = IF conn.resource # Nothing /\ Diagnosed THEN [conn EXCEPT !.status = "ENABLED"] ELSE conn
    /\ Rest(p)
    /\ UNCHANGED <<refreshLock, clock, remote, proved>>

Disable(p) ==
    /\ call[p].at = "begun" /\ call[p].kind = "disable"
    /\ conn' = IF conn.status \in {"DISCONNECTED", "REFRESH_REQUIRED"} THEN conn
               ELSE [conn EXCEPT !.status = StatusWith(conn.resource)]
    /\ Rest(p)
    /\ UNCHANGED <<refreshLock, clock, remote, proved>>

Disconnect(p) ==
    /\ call[p].at = "begun" /\ call[p].kind = "disconnect"
    /\ IF conn.status = "DISCONNECTED"
       THEN UNCHANGED <<conn, proved>>
       ELSE conn' = [Disconnected EXCEPT !.updated = call[p].now] /\ proved' = FALSE
    /\ Rest(p)
    /\ UNCHANGED <<refreshLock, clock, remote>>

-----------------------------------------------------------------------------
(* Crashes, and what Jifeng does                                            *)

Crash(p) ==
    /\ call[p] # Resting
    /\ lost' = IF call[p].at = "refreshed" THEN lost \cup {call[p].source.token} ELSE lost
    /\ refreshLock' = IF refreshLock = p THEN Nothing ELSE refreshLock
    /\ Rest(p)
    /\ UNCHANGED <<conn, clock, good, issued, spent, resent, proved, blind>>

Revoke(t) ==
    /\ t \in good
    /\ good' = good \ {t}
    /\ UNCHANGED <<conn, call, refreshLock, clock, issued, spent, resent, lost, proved, blind>>

Works(p) ==
    \/ LoadRefused(p) \/ LoadUsable(p) \/ LoadUnreadable(p) \/ CallRefresh(p) \/ RefreshTokenExpired(p)
    \/ StoreRefreshed(p) \/ RecordFailure(p) \/ CycleEnds(p) \/ CycleRejected(p)
    \/ Authorize(p) \/ StoreAuthorization(p) \/ AuthorizationFails(p)
    \/ ReadRevision(p) \/ StoreDiscovery(p)
    \/ StoreDiagnostic(p) \/ Select(p) \/ Enable(p) \/ Disable(p) \/ Disconnect(p)

Next ==
    \/ \E p \in Procs : (\E kind \in Kinds : Begin(p, kind)) \/ Works(p) \/ Crash(p)
    \/ \E t \in good : Revoke(t)
Spec == Init /\ [][Next]_connVars

-----------------------------------------------------------------------------
(* Properties                                                               *)

\* Orders are only looked up over a connection that has its resources and a token,
\* and for which a diagnostic has passed since it was last changed, although the
\* code knows the order of changes only by times that were read early. An authorization
\* that is stored after its own tokens' life is over could break this; it takes five
\* calls at a time, more than the run has, and the theorem about this rules it out.
EnabledIsProved ==
    conn.status = "ENABLED" => conn.token # 0 /\ conn.resource # Nothing /\ proved

\* A refresh token is good for one use: no process sends one that another has used
\* up, unless the answer to that one got lost.
RefreshTokensSentOnce == resent \subseteq lost

\* A refresh that failed or a token that was rejected locks out the connection only
\* while it still has that token: a new authorization is not undone by a late answer.
OnlyOwnFailure ==
    [][conn'.status \in {"REFRESH_REQUIRED", "ERROR"} /\ conn'.status # conn.status =>
          \E p \in Procs : /\ call[p].at \in {"failed", "unreadable", "ready"}
                           /\ call[p].source.token = conn.token /\ call'[p] = Resting]_connVars
=============================================================================
