---------------------------- MODULE Connections ----------------------------
(***************************************************************************)
(* One connection to an OAuth service (connectors/src/manager.ts): the     *)
(* credentials file (store.ts), the row that clients see                   *)
(* (connection-store.ts), and what goes on at once: tool calls and checks  *)
(* that ask for credentials, the shared refresh, sign-ins, a disconnect,   *)
(* and a restart with its reconciliation.                                  *)
(*                                                                         *)
(* A token is a number; the provider knows the sign-in it descends from.   *)
(* Labels, last-used times and metadata are left out, and so are service   *)
(* and account names: the connection is the same throughout.               *)
(***************************************************************************)
EXTENDS Integers, FiniteSets

CONSTANTS
    Callers,        \* tool calls and requests to check the connection
    MaxTokens,      \* tokens the provider issues
    MaxFlows,       \* sign-ins that are started
    MaxPending,     \* MAX_PENDING_STATES (100 in the code)
    Unrefreshable,  \* sign-ins whose tokens come without a refresh token
    MaxLeaves,      \* times the connection is removed
    MaxRestarts

Flows == 1 .. MaxFlows
Tokens == 1 .. MaxTokens

ASSUME ConnectionsConstants ==
    /\ {MaxTokens, MaxFlows, MaxPending} \subseteq Nat \ {0}
    /\ {MaxLeaves, MaxRestarts} \subseteq Nat
    /\ Unrefreshable \subseteq Flows

VARIABLES
    \* on disk
    file,      \* the token in the credentials file, or 0
    row,       \* the connection's row: "none", "connected" or "error"
    \* the memory of the server
    call, cred,  \* where a caller is, and the token it has read
    request,   \* the refresh a caller has under way
    promise,   \* refreshPromises: the callers whose refresh may be shared
    flow,      \* pendingStates
    signin,    \* completeOAuthFlow under way: its step and its token
    leave,     \* disconnect under way: its step and the token it revokes
    \* the provider
    issued, grant, fresh, revoked,
    \* bounds and history
    leaves, restarts,
    exchanges, \* codes exchanged, of each sign-in
    gone,      \* the connection has been removed and not been made again
    crossed    \* the removal met another operation half-way

disk == <<file, row>>
memory == <<call, cred, request, promise, flow, signin, leave>>
provider == <<issued, grant, fresh, revoked>>
connectionHistory == <<leaves, restarts, exchanges, gone, crossed>>
connectionVars == <<disk, memory, provider, connectionHistory>>

NoRequest == [step |-> "off", old |-> 0, new |-> 0]
Off == [step |-> "off", token |-> 0]

ConnectionsInit ==
    /\ file = 0 /\ row = "none"
    /\ call = [c \in Callers |-> "idle"] /\ cred = [c \in Callers |-> 0]
    /\ request = [c \in Callers |-> NoRequest] /\ promise = {}
    /\ flow = [f \in Flows |-> "new"]
    /\ signin = [f \in Flows |-> Off] /\ leave = Off
    /\ issued = 0 /\ grant = [t \in Tokens |-> 0] /\ fresh = {} /\ revoked = {}
    /\ leaves = 0 /\ restarts = 0 /\ exchanges = [f \in Flows |-> 0]
    /\ gone = FALSE /\ crossed = FALSE

-----------------------------------------------------------------------------
\* A caller goes on, with the token it holds or without.
Goto(c, place, token) ==
    /\ call' = [call EXCEPT ![c] = place]
    /\ cred' = [cred EXCEPT ![c] = token]

Issue(g) ==
    /\ issued < MaxTokens
    /\ issued' = issued + 1
    /\ grant' = [grant EXCEPT ![issued + 1] = g]
    /\ fresh' = fresh \cup {issued + 1}
    /\ UNCHANGED revoked

\* getCredentials (407-414): the file is read; the call goes on later.
Load(c) ==
    /\ call[c] = "idle" /\ Goto(c, "loaded", file)
    /\ UNCHANGED <<disk, request, promise, flow, signin, leave, provider, connectionHistory>>

\* 412-424 and 477-480: nothing to refresh.  A call without credentials
\* fails, and a check of the connection notes that.
Answer(c) ==
    /\ call[c] = "loaded" /\ cred[c] \in fresh \cup {0}
    /\ \E place \in IF cred[c] # 0 THEN {"using"} ELSE {"idle", "failing"} : Goto(c, place, cred[c])
    /\ UNCHANGED <<disk, request, promise, flow, signin, leave, provider, connectionHistory>>

Stale(c) == call[c] = "loaded" /\ cred[c] \notin fresh \cup {0}
Refreshable(c) == grant[cred[c]] \notin Unrefreshable

\* 424-427: the token has run out for good, and the call notes that.
Expired(c) ==
    /\ Stale(c) /\ ~Refreshable(c) /\ Goto(c, "failing", cred[c])
    /\ UNCHANGED <<disk, request, promise, flow, signin, leave, provider, connectionHistory>>

\* 429-434: a refresh is under way already.
Join(c) ==
    /\ Stale(c) /\ Refreshable(c) /\ promise # {} /\ Goto(c, "waiting", 0)
    /\ UNCHANGED <<disk, request, promise, flow, signin, leave, provider, connectionHistory>>

\* Fault: the call does not look for a refresh that is under way.
StartRefresh_Alone(c) ==
    /\ Stale(c) /\ Refreshable(c)
    /\ Goto(c, "waiting", 0)
    /\ request' = [request EXCEPT ![c] = [NoRequest EXCEPT !.step = "sent", !.old = cred[c]]]
    /\ promise' = promise \cup {c}
    /\ UNCHANGED <<disk, flow, signin, leave, provider, connectionHistory>>

\* 436-451: this call refreshes, for itself and for those that come meanwhile.
StartRefresh(c) ==
    /\ Stale(c) /\ Refreshable(c) /\ promise = {}
    /\ Goto(c, "waiting", 0)
    /\ request' = [request EXCEPT ![c] = [NoRequest EXCEPT !.step = "sent", !.old = cred[c]]]
    /\ promise' = {c}
    /\ UNCHANGED <<disk, flow, signin, leave, provider, connectionHistory>>

Refreshed(c) ==
    /\ request[c].step = "sent" /\ grant[request[c].old] \notin revoked
    /\ Issue(grant[request[c].old])
    /\ request' = [request EXCEPT ![c].step = "answered", ![c].new = issued + 1]
    /\ UNCHANGED <<disk, call, cred, promise, flow, signin, leave, connectionHistory>>

\* refreshToken (514-518): the refresh token of the old credentials is kept when
\* the provider sends none.
SaveRefreshed(c) ==
    /\ request[c].step = "answered"
    /\ file' = request[c].new
    /\ request' = [request EXCEPT ![c].step = "saved"]
    /\ UNCHANGED <<row, call, cred, promise, flow, signin, leave, provider,
                   leaves, restarts, exchanges, gone, crossed>>

Waiting(c) == {d \in Callers : call[d] = "waiting" /\ (d = c \/ request[d] = NoRequest)}

\* The promise settles (438-441): it is forgotten, and everybody who waits
\* goes on with the new token.
RefreshSettles(c) ==
    /\ request[c].step = "saved"
    /\ request' = [request EXCEPT ![c] = NoRequest]
    /\ promise' = promise \ {c}
    /\ call' = [d \in Callers |-> IF d \in Waiting(c) THEN "using" ELSE call[d]]
    /\ cred' = [d \in Callers |-> IF d \in Waiting(c) THEN request[c].new ELSE cred[d]]
    /\ UNCHANGED <<disk, flow, signin, leave, provider, connectionHistory>>

\* The provider refuses, cannot be reached, or the file cannot be written.
\* The call that asked notes the error; of those that waited with it only
\* checks of the connection do (442-473).
RefreshFails(c) ==
    /\ request[c].step \in {"sent", "answered"}
    /\ request' = [request EXCEPT ![c] = NoRequest]
    /\ promise' = promise \ {c}
    /\ \E checks \in SUBSET (Waiting(c) \ {c}) :
        call' = [d \in Callers |-> IF d = c \/ d \in checks THEN "failing"
                                 ELSE IF d \in Waiting(c) THEN "idle" ELSE call[d]]
    /\ cred' = [cred EXCEPT ![c] = request[c].old]
    /\ UNCHANGED <<disk, flow, signin, leave, provider, connectionHistory>>

\* The call to the service succeeds, or fails: tools note authentication
\* errors, checks note any error.
Use(c) ==
    /\ call[c] = "using"
    /\ \E place \in {"idle", "failing"} :
        /\ place = "idle" => grant[cred[c]] \notin revoked
        /\ Goto(c, place, 0)
    /\ UNCHANGED <<disk, request, promise, flow, signin, leave, provider, connectionHistory>>

\* An error is noted.  One that getCredentials noted, with the stale token at
\* hand, is noted by a check of the connection once more (connectors.ts:196).
Noted(c) == \E place \in IF cred[c] = 0 THEN {"idle"} ELSE {"idle", "failing"} : Goto(c, place, 0)

\* Fault: the row is written whether or not there is one.
MarkRead_AnyRow(c) ==
    /\ call[c] = "failing" /\ Goto(c, "marking", cred[c])
    /\ UNCHANGED <<disk, request, promise, flow, signin, leave, provider, connectionHistory>>

\* markError (525-537) reads the row and then writes all of it.
MarkRead(c) ==
    /\ call[c] = "failing"
    /\ IF row = "none" THEN Noted(c) ELSE Goto(c, "marking", cred[c])
    /\ UNCHANGED <<disk, request, promise, flow, signin, leave, provider, connectionHistory>>

MarkWrite(c) ==
    /\ call[c] = "marking" /\ Noted(c)
    /\ row' = "error"
    /\ UNCHANGED <<file, request, promise, flow, signin, leave, provider, connectionHistory>>

-----------------------------------------------------------------------------
Pending == {f \in Flows : flow[f] \in {"pending", "late"}}

\* startOAuthFlow (113-178): flows that took too long are dropped, and the
\* oldest one when there are still too many.
StartFlow(f) ==
    LET kept == {g \in Flows : flow[g] = "pending"}
        full == Cardinality(kept) >= MaxPending
    IN
    /\ flow[f] = "new" /\ \A g \in Flows : g < f => flow[g] # "new"
    /\ \E old \in kept \cup {0} :
        /\ IF full THEN old # 0 /\ \A g \in kept : old <= g ELSE old = 0
        /\ flow' = [g \in Flows |->
                       IF g = f THEN "pending"
                       ELSE IF g = old \/ g \in Pending \ kept THEN "dropped" ELSE flow[g]]
    /\ UNCHANGED <<disk, call, cred, request, promise, signin, leave, provider, connectionHistory>>

FlowExpires(f) ==
    /\ flow[f] = "pending" /\ flow' = [flow EXCEPT ![f] = "late"]
    /\ UNCHANGED <<disk, call, cred, request, promise, signin, leave, provider, connectionHistory>>

\* cleanupExpiredStates (594-601), every minute.
CleanUp ==
    /\ \E f \in Flows : flow[f] = "late"
    /\ flow' = [f \in Flows |-> IF flow[f] = "late" THEN "dropped" ELSE flow[f]]
    /\ UNCHANGED <<disk, call, cred, request, promise, signin, leave, provider, connectionHistory>>

\* completeOAuthFlow (184-218): the state is taken before anything else, so
\* that a callback that comes twice finds nothing.
Callback(f) ==
    /\ flow[f] \in {"pending", "late"}
    /\ flow' = [flow EXCEPT ![f] = "dropped"]
    /\ IF flow[f] = "late" THEN UNCHANGED <<signin, exchanges>>
       ELSE /\ signin' = [signin EXCEPT ![f].step = "asking"]
            /\ exchanges' = [exchanges EXCEPT ![f] = @ + 1]
    /\ UNCHANGED <<disk, call, cred, request, promise, leave, provider,
                   leaves, restarts, gone, crossed>>

\* 225-263: the code is exchanged, or something on the way fails.
Exchange(f) ==
    /\ signin[f].step = "asking"
    /\ \/ Issue(f) /\ signin' = [signin EXCEPT ![f] = [step |-> "saving", token |-> issued + 1]]
       \/ signin' = [signin EXCEPT ![f] = Off] /\ UNCHANGED provider
    /\ UNCHANGED <<disk, call, cred, request, promise, flow, leave, connectionHistory>>

\* 265-266, and 268-283: the file, then the row.
SaveSignIn(f) ==
    /\ signin[f].step = "saving"
    /\ file' = signin[f].token
    /\ signin' = [signin EXCEPT ![f].step = "recording"]
    /\ gone' = FALSE
    /\ crossed' = (crossed \/ leave.step = "forgetting")
    /\ UNCHANGED <<row, call, cred, request, promise, flow, leave, provider,
                   leaves, restarts, exchanges>>

RecordSignIn(f) ==
    /\ signin[f].step = "recording"
    /\ row' = "connected"
    /\ signin' = [signin EXCEPT ![f] = Off]
    /\ UNCHANGED <<file, call, cred, request, promise, flow, leave, provider, connectionHistory>>

-----------------------------------------------------------------------------
\* Another operation has read what the removal deletes, or will write it.
Crossing ==
    \/ \E c \in Callers : call[c] \in {"loaded", "waiting", "marking"}
    \/ \E f \in Flows : signin[f] # Off

\* disconnect (348-389): read the token, revoke it as far as that is possible,
\* delete the file, delete the row.
LeaveLoads ==
    /\ leave = Off /\ leaves < MaxLeaves /\ row # "none"
    /\ leaves' = leaves + 1
    /\ leave' = [step |-> "revoking", token |-> file]
    /\ UNCHANGED <<disk, call, cred, request, promise, flow, signin, provider,
                   restarts, exchanges, gone, crossed>>

LeaveRevokes ==
    /\ leave.step = "revoking"
    /\ leave' = [leave EXCEPT !.step = "deleting"]
    /\ revoked' \in {revoked, IF leave.token = 0 THEN revoked ELSE revoked \cup {grant[leave.token]}}
    /\ UNCHANGED <<disk, call, cred, request, promise, flow, signin, issued, grant, fresh, connectionHistory>>

LeaveDeletes ==
    /\ leave.step = "deleting"
    /\ leave' = [leave EXCEPT !.step = "forgetting"]
    /\ file' = 0
    /\ crossed' = (crossed \/ Crossing)
    /\ UNCHANGED <<row, call, cred, request, promise, flow, signin, provider,
                   leaves, restarts, exchanges, gone>>

LeaveForgets ==
    /\ leave.step = "forgetting"
    /\ leave' = Off
    /\ row' = "none"
    /\ gone' = TRUE
    /\ crossed' = (crossed \/ Crossing)
    /\ UNCHANGED <<file, call, cred, request, promise, flow, signin, provider,
                   leaves, restarts, exchanges>>

-----------------------------------------------------------------------------
Stopped ==
    /\ restarts < MaxRestarts /\ restarts' = restarts + 1
    /\ call' = [c \in Callers |-> "idle"] /\ cred' = [c \in Callers |-> 0]
    /\ request' = [c \in Callers |-> NoRequest] /\ promise' = {}
    /\ flow' = [f \in Flows |-> IF f \in Pending THEN "dropped" ELSE flow[f]]
    /\ signin' = [f \in Flows |-> Off] /\ leave' = Off
    /\ gone' = FALSE /\ crossed' = FALSE
    /\ UNCHANGED <<file, provider, leaves, exchanges>>

\* Fault: what is in the file is not compared with the row.
RestartServer_NoReconcile == Stopped /\ UNCHANGED row

\* The server stops anywhere; before it serves again the row is brought in
\* line with the file (reconcile, 542-589).
RestartServer ==
    /\ Stopped
    /\ row' = IF file # 0 /\ row = "none" THEN "connected"
              ELSE IF file = 0 /\ row # "none" THEN "error" ELSE row

TokenExpires(t) ==
    /\ t \in fresh /\ fresh' = fresh \ {t}
    /\ UNCHANGED <<disk, memory, issued, grant, revoked, connectionHistory>>

-----------------------------------------------------------------------------
Call(c) ==
    \/ Load(c) \/ Answer(c) \/ Expired(c) \/ Join(c) \/ StartRefresh(c)
    \/ Use(c) \/ MarkRead(c) \/ MarkWrite(c)

Refreshing(c) == Refreshed(c) \/ SaveRefreshed(c) \/ RefreshSettles(c) \/ RefreshFails(c)

SignIn(f) ==
    \/ StartFlow(f) \/ FlowExpires(f) \/ Callback(f) \/ Exchange(f)
    \/ SaveSignIn(f) \/ RecordSignIn(f)

Leave == LeaveLoads \/ LeaveRevokes \/ LeaveDeletes \/ LeaveForgets

ConnectionsNext ==
    \/ \E c \in Callers : Call(c) \/ Refreshing(c)
    \/ \E f \in Flows : SignIn(f)
    \/ Leave \/ CleanUp \/ RestartServer
    \/ \E t \in Tokens : TokenExpires(t)

ConnectionsSpec == ConnectionsInit /\ [][ConnectionsNext]_connectionVars

-----------------------------------------------------------------------------
Requests == [step : {"off", "sent", "answered", "saved"}, old : 0 .. issued, new : 0 .. issued]

\* The state stays within its types, and refreshPromises holds the refreshes
\* under way and no other: one that failed must not stay for later calls.
ConnectionsTypeOK ==
    /\ file \in 0 .. issued /\ row \in {"none", "connected", "error"}
    /\ call \in [Callers -> {"idle", "loaded", "waiting", "using", "failing", "marking"}]
    /\ cred \in [Callers -> 0 .. issued] /\ request \in [Callers -> Requests]
    /\ promise = {c \in Callers : request[c] # NoRequest}
    /\ flow \in [Flows -> {"new", "pending", "late", "dropped"}]
    /\ signin \in [Flows -> [step : {"off", "asking", "saving", "recording"}, token : 0 .. issued]]
    /\ leave \in [step : {"off", "revoking", "deleting", "forgetting"}, token : 0 .. issued]
    /\ issued \in 0 .. MaxTokens /\ grant \in [Tokens -> 0 .. MaxFlows]
    /\ \A t \in 1 .. issued : grant[t] \in Flows
    /\ fresh \subseteq 1 .. issued /\ revoked \subseteq Flows
    /\ leaves \in 0 .. MaxLeaves /\ restarts \in 0 .. MaxRestarts
    /\ exchanges \in [Flows -> Nat] /\ gone \in BOOLEAN /\ crossed \in BOOLEAN

\* At most one refresh of the connection is under way (429-451), whatever the
\* calls that find the token stale have read, and whatever fails.
SingleFlight == \A c, d \in Callers : request[c] # NoRequest /\ request[d] # NoRequest => c = d

\* When nothing is under way, credentials have a row that shows them and a
\* row that says "connected" has credentials, also after a stop between the
\* file and the row; unless a removal met another operation half-way.
FileAndRowAgree ==
    (\A f \in Flows : signin[f] = Off) /\ leave = Off /\ ~crossed =>
        (file # 0 => row # "none") /\ (row = "connected" => file # 0)

\* A connection that was removed stays removed until the next sign-in, though
\* calls that have its token still fail and note errors; unless one of them
\* was between reading and writing when it was removed.
RemovedStaysRemoved == gone /\ ~crossed => file = 0 /\ row = "none"

\* No more sign-ins wait for their callback than the limit, and a callback
\* that comes twice exchanges one code (113-200).
FlowsAreBounded ==
    /\ Cardinality(Pending) <= MaxPending
    /\ \A f \in Flows : exchanges[f] <= 1

\* A refresh is under way for a caller that waits for it, and a sign-in that
\* was answered has a token.
TokensAreHeld ==
    /\ \A c \in Callers :
        /\ request[c].step = "off" => request[c] = NoRequest
        /\ request[c] # NoRequest => call[c] = "waiting" /\ request[c].old # 0
        /\ request[c].step \in {"answered", "saved"} => request[c].new # 0
    /\ \A f \in Flows : signin[f].step \in {"saving", "recording"} => signin[f].token # 0

\* A code is exchanged for a sign-in only as its state is taken.
ExchangedIsTaken ==
    \A f \in Flows : flow[f] # "dropped" => exchanges[f] = 0 /\ signin[f] = Off

\* What operations that are half-way know of file and row, unless a removal
\* met one of them.
HalfWay ==
    ~crossed =>
        /\ \A c \in Callers : (call[c] = "loaded" /\ cred[c] # 0) \/ request[c] # NoRequest => file # 0
        /\ \A c \in Callers : call[c] = "marking" => row # "none"
        /\ \A f \in Flows : signin[f].step = "recording" => file # 0
        /\ leave.step = "forgetting" => file = 0
        /\ file # 0 => row # "none" \/ \E f \in Flows : signin[f].step = "recording"
        /\ row = "connected" => file # 0 \/ leave.step = "forgetting"

\* The inductive invariant: types, one refresh at a time, sign-ins within their
\* limit, and what the steps between file and row rely on.
ConnectionsInv ==
    /\ ConnectionsTypeOK /\ SingleFlight /\ FlowsAreBounded
    /\ TokensAreHeld /\ ExchangedIsTaken /\ HalfWay /\ RemovedStaysRemoved
=============================================================================
