--------------------------- MODULE WorkflowEngine ---------------------------
(* The processes that drive the execution model of one workflow:             *)
(*   - the workflow scheduler of the server, a single loop that picks work,  *)
(*     runs a session of handler runs through their phases and books the     *)
(*     result; a crash loses what it keeps in memory, start() recovers;      *)
(*   - the reconciliation scheduler;                                         *)
(*   - the maintainer task that repairs a script after a logic error;        *)
(*   - the user, who pauses, resumes and resolves uncertain mutations;       *)
(*   - the service behind a mutation tool, whose effect and whose answer     *)
(*     are two different events.                                             *)
(* A process may be interrupted by another, or by a crash, wherever the code *)
(* awaits; steps between which nothing else can touch what they touch are    *)
(* one action.  Time is abstracted: a backoff, a producer schedule, a wakeAt *)
(* or a dirty flag may be due at any moment.                                 *)
EXTENDS ExecutionModel

CONSTANTS
    ScriptErrors,        \* kinds of error scripts and tools raise
    UserActions,         \* what the user does: names of User actions below
    Reconciler,          \* is a ReconciliationScheduler running?
    HasReconcileMethod,  \* does the mutation tool have a reconcile method?
    Producers,           \* does the workflow have producers?
    MaxNetworkRetries,   \* WorkflowScheduler.MAX_NETWORK_RETRIES
    MaxFixAttempts,      \* MAX_FIX_ATTEMPTS
    MaxCrashes           \* bound on crashes

ErrorTypes == {"auth", "permission", "network", "logic", "internal"}

ASSUME ScriptErrorsAssumption == ScriptErrors \subseteq ErrorTypes
ASSUME SwitchesAssumption == {Reconciler, HasReconcileMethod, Producers} \subseteq BOOLEAN
ASSUME LimitsAssumption ==
    /\ MaxNetworkRetries \in Nat
    /\ MaxFixAttempts \in Nat \ {0}
    /\ MaxCrashes \in Nat

VARIABLES
    pc,            \* where the scheduler stands
    cur,           \* the run it works on; at "retry", the pending retry it read
    session,       \* the session it is in, once a run names it
    retryCount,    \* workflowRetryState, in memory
    tasks,         \* how many open maintainer tasks each failed run has
    outdated,      \* runs whose session was started with an older script
    newScript,     \* did the active script change since this session started?
    effect,        \* runs whose mutation took effect at the external service
    crashes

taskVars   == <<tasks, outdated>>
engineVars == <<pc, cur, session, newScript, retryCount, taskVars, effect, crashes>>
vars       == <<emmVars, engineVars>>

Places == {"down", "recovering", "idle", "retry", "session", "run", "calling",
           "pausing", "post", "escalating", "exiting"}

ProcessTypeOK ==
    /\ pc \in Places
    /\ cur \in Runs \cup {NoRun}
    /\ session \in Runs \cup {NoRun}
    /\ retryCount \in 0..MaxNetworkRetries
    /\ tasks \in [Runs -> Nat]
    /\ outdated \subseteq Runs
    /\ newScript \in BOOLEAN
    /\ effect \subseteq Runs
    /\ crashes \in 0..MaxCrashes

\* Every row and every process variable stays within its type.
TypeOK == EMMTypeOK /\ ProcessTypeOK

Init ==
    /\ EMMInit
    /\ pc = "down"
    /\ cur = NoRun
    /\ session = NoRun
    /\ retryCount = 0
    /\ tasks = [r \in Runs |-> 0]
    /\ outdated = {}
    /\ newScript = FALSE
    /\ effect = {}
    /\ crashes = 0

Goto(p) ==
    /\ pc' = p
    /\ UNCHANGED <<cur, session, newScript, retryCount, taskVars, effect, crashes>>

GotoRun(r, s) ==
    /\ pc' = "run"
    /\ cur' = r
    /\ session' = s
    /\ outdated' = IF newScript THEN outdated \cup {r} ELSE outdated
    /\ UNCHANGED <<newScript, retryCount, tasks, effect, crashes>>

\* Back to checkWork, with the retry state of the workflow set to n.
GotoIdle(n) ==
    /\ pc' = "idle"
    /\ cur' = NoRun
    /\ session' = NoRun
    /\ newScript' = FALSE
    /\ retryCount' = n
    /\ UNCHANGED <<outdated, effect, crashes>>

OpenTask(r) == tasks' = [tasks EXCEPT ![r] = @ + 1]

CloseTask(r) == tasks[r] > 0 /\ tasks' = [tasks EXCEPT ![r] = @ - 1]

-----------------------------------------------------------------------------
(* Start and recovery: WorkflowScheduler.start() *)

Start == pc = "down" /\ Goto("recovering") /\ UNCHANGED emmVars

\* Fault: a run whose mutation is uncertain is passed over.
RecoverRun_PassesOver(r) ==
    /\ pc = "recovering"
    /\ status[r] = "active"
    /\ ~(phase[r] = "mutating" /\ outcome[r] = "" /\ mut[r] \in {"in_flight", "needs_reconcile"})
    /\ StopRun(r, "crashed")
    /\ UNCHANGED engineVars

\* Fault: runs are found by their phase instead of their status.
RecoverRun_ByPhase(r) ==
    /\ pc = "recovering"
    /\ status[r] \notin {"none", "crashed"} /\ phase[r] # "committed"
    /\ StopRun(r, "crashed")
    /\ UNCHANGED engineVars

RecoverRun(r) ==
    /\ pc = "recovering"
    /\ status[r] = "active"
    /\ IF /\ phase[r] = "mutating"
          /\ outcome[r] = ""
          /\ mut[r] \in {"in_flight", "needs_reconcile"}
       THEN StopRun(r, "paused:reconciliation")
       ELSE StopRun(r, "crashed")
    /\ UNCHANGED engineVars

UnfinishedSessions ==
    {s \in Runs : /\ sessionEnd[s] = "open"
                  /\ \A r \in RunsOfSession(s) : status[r] = "committed"}

RecoverSession(s) ==
    /\ pc = "recovering"
    /\ ActiveRuns = {}
    /\ s \in UnfinishedSessions
    /\ FinishSession(s)
    /\ UNCHANGED engineVars

Recovered == pc = "recovering" /\ ActiveRuns = {} /\ UnfinishedSessions = {}

\* A maintainer task that was not worked on yet is in state "", not "wait", so
\* a workflow in maintenance gets a task, and one more fix counted, every time.
FinishStartup ==
    /\ Recovered
    /\ GotoIdle(0)
    /\ IF maintenance
       THEN EnterMaintenanceMode /\ OpenTask(lastFailed)
       ELSE UNCHANGED <<emmVars, tasks>>

-----------------------------------------------------------------------------
(* Picking work: processNextWorkflow *)

Runnable == wfStatus = "active" /\ ~maintenance /\ ~wfError

\* Priority 1.  The row is read here and used after further reads and writes.
PickRetry ==
    /\ pc = "idle"
    /\ Runnable
    /\ pendingRetry # NoRun
    /\ ActiveRuns = {}
    /\ pc' = "retry"
    /\ cur' = pendingRetry
    /\ UNCHANGED <<session, newScript, retryCount, taskVars, effect, crashes, emmVars>>

\* Priorities 2 and 3
PickSession ==
    /\ pc = "idle"
    /\ Runnable
    /\ pendingRetry = NoRun
    /\ ActiveRuns = {}
    /\ Goto("session")
    /\ UNCHANGED emmVars

\* Thrown before a session exists: the scheduler logs it and looks again.
RejectSecondRetry ==
    /\ pc = "retry"
    /\ RetriesOf(cur) # {}
    /\ GotoIdle(retryCount)
    /\ UNCHANGED <<tasks, emmVars>>

\* Thrown by createRetryRun: the session fails, nothing else is written.
RejectPreMutationRetry ==
    /\ pc = "retry"
    /\ RetriesOf(cur) = {}
    /\ ~IsPostMutation(cur)
    /\ GotoIdle(0)
    /\ UNCHANGED <<tasks, emmVars>>

\* Fault: an earlier retry of the same run is not looked for.
StartRetry_Again(r) ==
    /\ pc = "retry"
    /\ CreateRetryRun(cur, r)
    /\ GotoRun(r, r)

StartRetry(r) ==
    /\ pc = "retry"
    /\ RetriesOf(cur) = {}
    /\ CreateRetryRun(cur, r)
    /\ GotoRun(r, r)

-----------------------------------------------------------------------------
(* A session: executeWorkflowSession and continueSession *)

\* Due producers run first; a retry session has none.
OnlyProducersSoFar ==
    session # NoRun => \A q \in RunsOfSession(session) : kind[q] = "producer"

StartRun(r, k) ==
    LET s == IF session = NoRun THEN r ELSE session
    IN  /\ pc = "session"
        /\ k = "producer" => Producers /\ OnlyProducersSoFar
        /\ CreateHandlerRun(r, k, s)
        /\ GotoRun(r, s)

CompleteSession ==
    /\ pc = "session"
    /\ IF session = NoRun THEN UNCHANGED emmVars ELSE FinishSession(session)
    /\ Goto("post")

\* The current run was stopped; its result goes to the scheduler.
Stop(r, s) == StopRun(r, s) /\ Goto("post")

\* The current run committed; the session goes on.
GotoSession ==
    /\ pc' = "session"
    /\ cur' = NoRun
    /\ UNCHANGED <<session, newScript, retryCount, taskVars, effect, crashes>>

-----------------------------------------------------------------------------
(* The phases of a run: executeHandler *)

Executing(r, k, p) == pc = "run" /\ cur = r /\ kind[r] = k /\ phase[r] = p

errorTypeToRunStatus ==
    [ auth |-> "paused:approval", permission |-> "paused:approval",
      network |-> "paused:transient", logic |-> "failed:logic",
      internal |-> "failed:internal" ]

\* A tool called while the workflow is not active raises an error that is not
\* stored as classified, so the sandbox failure counts as a logic error.
RaisableErrors ==
    ScriptErrors \cup (IF wfStatus = "active" THEN {} ELSE {"logic"})

BeginRun(r) ==
    /\ \/ Executing(r, "consumer", "pending") /\ AdvancePhase(r, "pending", "preparing")
       \/ Executing(r, "producer", "pending") /\ AdvancePhase(r, "pending", "executing")
    /\ UNCHANGED engineVars

\* Handler code fails where no mutation is on record.
ScriptFails(r, e) ==
    /\ \/ Executing(r, "producer", "executing")
       \/ Executing(r, "consumer", "preparing")
       \/ Executing(r, "consumer", "mutating") /\ mut[r] = "none"
       \/ Executing(r, "consumer", "emitting")
    /\ e \in RaisableErrors
    /\ Stop(r, errorTypeToRunStatus[e])

\* Handler code publishes an event; the run goes on.
Publish(r, e) ==
    /\ Executing(r, "producer", "executing") \/ Executing(r, "consumer", "emitting")
    /\ wfStatus = "active"
    /\ PublishEvent(e)
    /\ UNCHANGED <<runVars, sessionEnd, mutationVars, workflowVars, lastFailed, engineVars>>

ProducerReturns(r) ==
    /\ Executing(r, "producer", "executing")
    /\ CommitProducer(r)
    /\ GotoSession

PrepareReturns(r, S) ==
    /\ Executing(r, "consumer", "preparing")
    /\ S \subseteq PendingEvents
    /\ AdvanceToPrepared(r, S)
    /\ UNCHANGED engineVars

\* Without reservations there is neither a mutate nor a next.
NothingPrepared(r) ==
    /\ Executing(r, "consumer", "prepared")
    /\ prep[r] = {}
    /\ CommitConsumer(r)
    /\ GotoSession

BeginMutating(r) ==
    /\ Executing(r, "consumer", "prepared")
    /\ AdvanceToMutating(r)
    /\ UNCHANGED engineVars

\* There is no mutate handler, or it returned without calling a mutation.
MutateWithoutCall(r) ==
    /\ Executing(r, "consumer", "mutating")
    /\ mut[r] = "none"
    /\ AdvancePhase(r, "mutating", "mutated")
    /\ UNCHANGED engineVars

BeginEmitting(r) ==
    /\ Executing(r, "consumer", "mutated")
    /\ AdvanceToEmitting(r)
    /\ UNCHANGED engineVars

\* updateConsumerPhase throws, and what it throws is not a classified error.
EmitAfterFailedMutation(r) ==
    /\ Executing(r, "consumer", "mutated")
    /\ outcome[r] = "failure"
    /\ Stop(r, "failed:internal")

NextReturns(r) ==
    /\ Executing(r, "consumer", "emitting")
    /\ CommitConsumer(r)
    /\ GotoSession

-----------------------------------------------------------------------------
(* The mutation: tool wrapper, executeMutate, handleUncertainOutcome *)

CallMutationTool(r) ==
    /\ Executing(r, "consumer", "mutating")
    /\ wfStatus = "active"
    /\ CreateInFlight(r)
    /\ Goto("calling")

\* External: the request takes effect, at some moment of the call.
MutationTakesEffect ==
    /\ pc = "calling"
    /\ cur \notin effect
    /\ effect' = effect \cup {cur}
    /\ UNCHANGED <<pc, cur, session, newScript, retryCount, taskVars, crashes, emmVars>>

ToolSucceeds ==
    /\ pc = "calling"
    /\ cur \in effect
    /\ ApplyMutation(cur)
    /\ Goto("run")

isDefiniteFailure(e) == e \in {"logic", "permission"}

\* An error that is taken to mean that the mutation did not happen.  A logic
\* error may also follow the effect (invalid output, an error the connector
\* did not classify); a permission error is the service's refusal.
ToolFails(e) ==
    /\ pc = "calling"
    /\ e \in ScriptErrors
    /\ isDefiniteFailure(e)
    /\ e = "permission" => cur \notin effect
    /\ FailMutation(cur)
    /\ Goto("run")

\* What a reconcile method may find out; it never reports what did not happen.
ReconcileAnswers(r) ==
    {"retry"} \cup (IF r \in effect THEN {"applied"} ELSE {"failed"})

ImmediateAnswers(r) == IF HasReconcileMethod THEN ReconcileAnswers(r) ELSE {"none"}

HandleUncertainOutcome(r, a) ==
    \/ a = "applied" /\ ApplyMutation(r)
    \/ a = "failed" /\ FailMutation(r)
    \/ a = "retry" /\ UpdateMutationStatus(r, "needs_reconcile")
    \/ a = "none" /\ UpdateMutationStatus(r, "indeterminate")

ToolLeavesUncertain(e, a) ==
    /\ pc = "calling"
    /\ e \in ScriptErrors
    /\ ~isDefiniteFailure(e)
    /\ a \in ImmediateAnswers(cur)
    /\ HandleUncertainOutcome(cur, a)
    /\ Goto("run")

\* The script catches the error of its tool and returns: the loop finds the
\* mutation in_flight, and pauses without reading the row again.
ScriptSwallowsToolError(e, a) ==
    /\ pc = "calling"
    /\ e \in ScriptErrors
    /\ a \in ImmediateAnswers(cur)
    /\ HandleUncertainOutcome(cur, a)
    /\ Goto(IF a \in {"applied", "failed"} THEN "run" ELSE "pausing")

\* The loop reads that the outcome is uncertain ...
ObserveUncertain(r) ==
    /\ Executing(r, "consumer", "mutating")
    /\ mut[r] \in {"needs_reconcile", "indeterminate"}
    /\ Goto("pausing")
    /\ UNCHANGED emmVars

\* ... and pauses the run, whatever has happened to the mutation meanwhile.
PauseForReconciliation ==
    /\ pc = "pausing"
    /\ Stop(cur, "paused:reconciliation")

-----------------------------------------------------------------------------
(* Booking the result: postSessionResult and handleWorkerSignal *)

PostCompleted ==
    /\ pc = "post"
    /\ cur = NoRun
    /\ ResetMaintenanceFixCount
    /\ GotoIdle(0)
    /\ UNCHANGED tasks

PostTransient ==
    /\ pc = "post"
    /\ cur # NoRun /\ status[cur] = "paused:transient"
    /\ IF retryCount + 1 > MaxNetworkRetries
       THEN BlockWorkflow(TRUE) /\ GotoIdle(0)
       ELSE GotoIdle(retryCount + 1) /\ UNCHANGED emmVars
    /\ UNCHANGED tasks

PostAttention ==
    /\ pc = "post"
    /\ cur # NoRun
    /\ status[cur] \in {"paused:approval", "paused:reconciliation", "failed:internal"}
    /\ GotoIdle(0)
    /\ UNCHANGED <<tasks, emmVars>>

PostMaintenance ==
    /\ pc = "post"
    /\ cur # NoRun /\ status[cur] = "failed:logic"
    /\ fixCount + 1 < MaxFixAttempts
    /\ EnterMaintenanceMode
    /\ OpenTask(cur)
    /\ GotoIdle(0)

\* escalateToUser is three writes in a row.
Escalate ==
    /\ pc = "post"
    /\ cur # NoRun /\ status[cur] = "failed:logic"
    /\ fixCount + 1 >= MaxFixAttempts
    /\ BlockWorkflow(FALSE)
    /\ Goto("escalating")

EscalateExitMaintenance ==
    /\ pc = "escalating"
    /\ ExitMaintenanceMode
    /\ Goto("exiting")

EscalateResetCount ==
    /\ pc = "exiting"
    /\ ResetMaintenanceFixCount
    /\ GotoIdle(0)
    /\ UNCHANGED tasks

-----------------------------------------------------------------------------
(* The other processes *)

Crash ==
    /\ pc # "down"
    /\ crashes < MaxCrashes
    /\ pc' = "down"
    /\ cur' = NoRun
    /\ session' = NoRun
    /\ newScript' = FALSE
    /\ retryCount' = 0
    /\ crashes' = crashes + 1
    /\ UNCHANGED <<taskVars, effect, emmVars>>

\* Fault: a mutation out of attempts is no longer selected as due.
Reconcile_NotDue(r) ==
    /\ Reconciler
    /\ pc # "down"
    /\ mut[r] = "needs_reconcile"
    /\ attempts[r] < MaxAttempts
    /\ \/ "applied" \in ReconcileAnswers(r) /\ ApplyMutation(r)
       \/ "failed" \in ReconcileAnswers(r) /\ FailMutation(r)
       \/ ScheduleNextReconcile(r)
    /\ UNCHANGED engineVars

\* ReconciliationScheduler.reconcileMutation.  Only this process changes a
\* mutation that needs reconciliation, so reading and writing it is one step.
Reconcile(r) ==
    /\ Reconciler
    /\ pc # "down"
    /\ mut[r] = "needs_reconcile"
    /\ \/ /\ attempts[r] >= MaxAttempts \/ ~HasReconcileMethod
          /\ UpdateMutationStatus(r, "indeterminate")
       \/ /\ attempts[r] < MaxAttempts /\ HasReconcileMethod
          /\ \/ "applied" \in ReconcileAnswers(r) /\ ApplyMutation(r)
             \/ "failed" \in ReconcileAnswers(r) /\ FailMutation(r)
             \/ ScheduleNextReconcile(r)
    /\ UNCHANGED engineVars

\* handleMaintainerCompletion with a fix.  It is activated only if the active
\* script is still the one that failed; otherwise nothing is written.
MaintainerFixes(r) ==
    /\ pc # "down"
    /\ CloseTask(r)
    /\ IF r \in outdated
       THEN UNCHANGED <<emmVars, outdated, newScript>>
       ELSE /\ ActivateScript(r)
            /\ outdated' = {q \in Runs : status[q] # "none"}
            /\ newScript' = (pc \notin {"recovering", "idle"})
    /\ UNCHANGED <<pc, cur, session, retryCount, effect, crashes>>

\* handleMaintainerCompletion without one; the active script is not compared.
MaintainerGivesUp(r) ==
    /\ pc # "down"
    /\ CloseTask(r)
    /\ EscalateMaintainerFailure
    /\ UNCHANGED <<pc, cur, session, newScript, retryCount, outdated, effect, crashes>>

UserStep ==
    /\ \/ "pause" \in UserActions /\ wfStatus = "active" /\ PauseWorkflow
       \/ "resume" \in UserActions /\ (wfStatus # "active" \/ wfError) /\ ResumeWorkflow
       \/ "fail" \in UserActions /\ \E r \in Runs : ResolveMutationFailed(r)
       \/ "skip" \in UserActions /\ \E r \in Runs : ResolveMutationSkipped(r)
    /\ UNCHANGED engineVars

-----------------------------------------------------------------------------

RunStep(r) ==
    \/ BeginRun(r)
    \/ \E e \in ErrorTypes : ScriptFails(r, e)
    \/ \E e \in Events : Publish(r, e)
    \/ ProducerReturns(r)
    \/ \E S \in SUBSET Events : PrepareReturns(r, S)
    \/ NothingPrepared(r)
    \/ BeginMutating(r)
    \/ MutateWithoutCall(r)
    \/ CallMutationTool(r)
    \/ ObserveUncertain(r)
    \/ BeginEmitting(r)
    \/ EmitAfterFailedMutation(r)
    \/ NextReturns(r)

CallStep ==
    \/ MutationTakesEffect
    \/ ToolSucceeds
    \/ \E e \in ErrorTypes : ToolFails(e)
    \/ \E e \in ErrorTypes, a \in {"applied", "failed", "retry", "none"} :
          ToolLeavesUncertain(e, a) \/ ScriptSwallowsToolError(e, a)
    \/ PauseForReconciliation

StartupStep ==
    \/ Start
    \/ \E r \in Runs : RecoverRun(r) \/ RecoverSession(r)
    \/ FinishStartup

SessionStep ==
    \/ PickRetry
    \/ PickSession
    \/ RejectSecondRetry
    \/ RejectPreMutationRetry
    \/ \E r \in Runs : StartRetry(r)
    \/ \E r \in Runs, k \in {"consumer", "producer"} : StartRun(r, k)
    \/ CompleteSession

PostStep ==
    \/ PostCompleted
    \/ PostTransient
    \/ PostAttention
    \/ PostMaintenance
    \/ Escalate
    \/ EscalateExitMaintenance
    \/ EscalateResetCount

SchedulerStep ==
    \/ StartupStep
    \/ SessionStep
    \/ \E r \in Runs : RunStep(r)
    \/ CallStep
    \/ PostStep

Next ==
    \/ SchedulerStep
    \/ Crash
    \/ \E r \in Runs : Reconcile(r) \/ MaintainerFixes(r) \/ MaintainerGivesUp(r)
    \/ UserStep

Spec == Init /\ [][Next]_vars

(* A run of the server never stays put: its loop, the tool call it waits for *)
(* (every sandbox evaluation has a timeout) and its start after a crash go   *)
(* on, and so do the intervals of a reconciliation scheduler.  Nothing       *)
(* obliges the user or the maintainer, and crashes end with their bound.     *)
Fairness ==
    /\ WF_vars(SchedulerStep)
    /\ \A r \in Runs : WF_vars(Reconcile(r))

FairSpec == Spec /\ Fairness

-----------------------------------------------------------------------------
(* Safety *)

Stopped(r) == status[r] \in Failures \cup Pauses

\* An event is locked only by the run that works on it, or by a run that
\* stopped after its mutation was done and was not retried yet: nothing that
\* a failure, a crash, a late resolution or a click leaves behind locks others.
LocksAreAccountedFor ==
    \A r \in Runs : ReservedBy(r) # {} =>
        \/ status[r] = "active" /\ outcome[r] # "failure"
        \/ Stopped(r) /\ ~PreMutation(r) /\ RetriesOf(r) = {}

\* A handled event was named by the prepare of the run that handled it, and
\* that run committed, or was resolved as skipped by the user.
HandledByItsRun ==
    \A e \in Events :
        /\ evStatus[e] = "consumed" =>
              status[evRun[e]] = "committed" /\ e \in prep[evRun[e]]
        /\ evStatus[e] = "skipped" =>
              outcome[evRun[e]] = "skipped" /\ e \in prep[evRun[e]]

\* Two mutations for the same event both took effect only if the engine had
\* lost track of one of them: it was not recorded as applied, or recorded so
\* after its run had been paused with an uncertain outcome.
NoRepeatAfterRecordedSuccess ==
    \A r, q \in effect :
        r # q /\ prep[r] \cap prep[q] # {} =>
            \E x \in {r, q} : mut[x] # "applied" \/ status[x] = "paused:reconciliation"

\* A run is retried at most once, with its outcome and its reservations, and
\* only when its mutation is done.
RetriesAreLinear ==
    \A q \in Runs : retryOf[q] # NoRun =>
        /\ ~PreMutation(retryOf[q])
        /\ outcome[q] = outcome[retryOf[q]] /\ prep[q] = prep[retryOf[q]]
        /\ RetriesOf(retryOf[q]) = {q}

\* A session is open while a run of it works, fails with the run that stops,
\* and is completed only when every run of it committed.
SessionsFollowRuns ==
    \A r \in Runs : status[r] # "none" =>
        LET end == sessionEnd[sessionOf[r]]
        IN  /\ status[r] = "active" => end = "open"
            /\ Stopped(r) => end = "failed"
            /\ end = "completed" => status[r] = "committed"

\* A committed run has no mutation that failed or is still uncertain.
CommitsAreSettled ==
    \A r \in Runs : status[r] = "committed" =>
        outcome[r] # "failure" /\ mut[r] \in {"none", "applied", "skipped"}

-----------------------------------------------------------------------------
(* Action properties *)

\* Once a mutation is recorded as applied, the events its run holds are
\* consumed, or pass to the retry of that run; they never become free again.
AppliedKeepsItsEvents ==
    [][\A r \in Runs : outcome[r] = "success" =>
          \A e \in ReservedBy(r) :
              /\ evStatus'[e] \in {"reserved", "consumed"}
              /\ evRun'[e] = r \/ retryOf'[evRun'[e]] = r]_vars

\* What is recorded of a mutation is final: recovery, reconciliation, the
\* running handler and the user never overwrite each other's resolution, nor
\* move the run back to an earlier phase.
ResolutionsAreFinal ==
    [][\A r \in Runs :
          /\ mut[r] \in ResolvedMutations =>
                mut'[r] = mut[r] /\ outcome'[r] = outcome[r]
          /\ kind[r] = "consumer" /\ status[r] # "none" => ~Before(phase'[r], phase[r])]_vars

\* A run that stopped or committed keeps its status.
StopsAreFinal ==
    [][\A r \in Runs : status[r] \notin {"none", "active"} => status'[r] = status[r]]_vars

-----------------------------------------------------------------------------
(* Liveness *)

\* Every run that starts is stopped or commits, through crashes and restarts:
\* a workflow with an active run comes to a moment without one.
RunsEnd == ActiveRuns # {} ~> ActiveRuns = {}

AwaitingReconciliation == {r \in Runs : mut[r] = "needs_reconcile"}

\* Every mutation handed to background reconciliation is resolved or given to
\* the user: a moment comes when none is left waiting.
ReconciliationEnds == AwaitingReconciliation # {} ~> AwaitingReconciliation = {}

\* What is left to do after a mutation is taken up again, unless the user is
\* asked for attention or has paused the workflow (or the bound on runs hits).
RetriesAreTaken ==
    \A r \in Runs : pendingRetry = r ~>
        \/ pendingRetry # r
        \/ wfError \/ wfStatus = "paused"
        \/ \A q \in Runs : status[q] # "none"

-----------------------------------------------------------------------------
(* The abstract ledger that the engine implements *)

Ledger == INSTANCE EventLedger WITH
    state  <- evStatus,
    holder <- [e \in Events |-> IF evStatus[e] = "reserved" THEN evRun[e] ELSE NoRun],
    took   <- {r \in Runs : phase[r] \notin {"pending", "preparing"} /\ kind[r] = "consumer"}

\* Every step of every process is one step of the ledger, or none.
LedgerSpec == Ledger!Spec
=============================================================================
