--------------------------- MODULE ExecutionModel ---------------------------
(* The execution model of one workflow: the rows that decide how its events  *)
(* are processed, and the transactions that change them.                     *)
(*                                                                           *)
(* Every operator that primes a variable is one transaction of               *)
(* ExecutionModelManager (packages/agent/src/execution-model.ts), of its     *)
(* browser twin ExecutionModelClient (packages/browser), of KeepDbApi or of  *)
(* a store of packages/db, with its guards and all of its writes.  Who calls *)
(* them, and when, is module WorkflowEngine.                                 *)
(*                                                                           *)
(* A session (script_run) is named by the first handler run created in it.   *)
(* Titles, payloads, timestamps, costs, logs, handler state and the attempt  *)
(* number of an event are never read by these transactions and are left out. *)
EXTENDS Naturals, FiniteSets

CONSTANTS
    Runs,          \* identifiers of handler runs: a bound on runs created
    Events,        \* message ids of the workflow's topics
    NoRun,         \* the empty run id, ''
    MaxAttempts    \* DEFAULT_RECONCILIATION_POLICY.maxAttempts

ASSUME NoRunAssumption == NoRun \notin Runs
ASSUME MaxAttemptsAssumption == MaxAttempts \in Nat

VARIABLES
    \* handler_runs
    kind, phase, status, outcome, retryOf,
    prep,          \* event ids named by prepare_result.reservations
    sessionOf,     \* script_run_id
    \* script_runs
    sessionEnd,
    \* events
    evStatus, evRun,
    \* mutations: at most one per run, so a row is named by its run
    mut, attempts,
    \* workflows
    wfStatus, wfError, maintenance, pendingRetry, fixCount,
    lastFailed     \* the most recent run that is failed:* or crashed

runVars      == <<kind, phase, status, outcome, retryOf, prep, sessionOf>>
eventVars    == <<evStatus, evRun>>
mutationVars == <<mut, attempts>>
workflowVars == <<wfStatus, wfError, maintenance, pendingRetry, fixCount>>
emmVars      == <<runVars, sessionEnd, eventVars, mutationVars, workflowVars, lastFailed>>

ConsumerPhaseOrder ==
    [ pending |-> 0, preparing |-> 1, prepared |-> 2, mutating |-> 3,
      mutated |-> 4, emitting |-> 5, committed |-> 6 ]

Phases      == {"pending", "preparing", "prepared", "mutating", "mutated",
                "emitting", "committed", "executing"}
Failures    == {"failed:logic", "failed:internal", "crashed"}
Pauses      == {"paused:transient", "paused:approval", "paused:reconciliation"}
RunStatuses == {"none", "active", "committed"} \cup Failures \cup Pauses
Outcomes    == {"", "success", "failure", "skipped"}
EventStates == {"absent", "pending", "reserved", "consumed", "skipped"}
\* "skipped" is the pair (status = failed, resolved_by = user_skip)
ResolvedMutations   == {"applied", "failed", "skipped"}
UnresolvedMutations == {"in_flight", "needs_reconcile", "indeterminate"}
MutationStates      == {"none"} \cup UnresolvedMutations \cup ResolvedMutations
SessionEnds == {"none", "open", "completed", "failed"}

EMMTypeOK ==
    /\ kind \in [Runs -> {"consumer", "producer"}]
    /\ phase \in [Runs -> Phases]
    /\ status \in [Runs -> RunStatuses]
    /\ outcome \in [Runs -> Outcomes]
    /\ retryOf \in [Runs -> Runs \cup {NoRun}]
    /\ prep \in [Runs -> SUBSET Events]
    /\ sessionOf \in [Runs -> Runs \cup {NoRun}]
    /\ sessionEnd \in [Runs -> SessionEnds]
    /\ evStatus \in [Events -> EventStates]
    /\ evRun \in [Events -> Runs \cup {NoRun}]
    /\ mut \in [Runs -> MutationStates]
    /\ attempts \in [Runs -> 0..MaxAttempts]
    /\ wfStatus \in {"active", "paused"}
    /\ wfError \in BOOLEAN
    /\ maintenance \in BOOLEAN
    /\ pendingRetry \in Runs \cup {NoRun}
    /\ fixCount \in Nat
    /\ lastFailed \in Runs \cup {NoRun}

\* A workflow that was just activated: no run yet, nothing published.
EMMInit ==
    /\ kind = [r \in Runs |-> "consumer"]
    /\ phase = [r \in Runs |-> "pending"]
    /\ status = [r \in Runs |-> "none"]
    /\ outcome = [r \in Runs |-> ""]
    /\ retryOf = [r \in Runs |-> NoRun]
    /\ prep = [r \in Runs |-> {}]
    /\ sessionOf = [r \in Runs |-> NoRun]
    /\ sessionEnd = [r \in Runs |-> "none"]
    /\ evStatus = [e \in Events |-> "absent"]
    /\ evRun = [e \in Events |-> NoRun]
    /\ mut = [r \in Runs |-> "none"]
    /\ attempts = [r \in Runs |-> 0]
    /\ wfStatus = "active"
    /\ wfError = FALSE
    /\ maintenance = FALSE
    /\ pendingRetry = NoRun
    /\ fixCount = 0
    /\ lastFailed = NoRun

-----------------------------------------------------------------------------
(* What the transactions ask of a run *)

Before(p, q) == ConsumerPhaseOrder[p] < ConsumerPhaseOrder[q]

PreMutation(r) == Before(phase[r], "mutated") \/ outcome[r] = "failure"

\* Fault: a run that called no mutation, and has no outcome, is refused.
IsPostMutation_WithOutcome(r) == outcome[r] \in {"success", "skipped"}

IsPostMutation(r) ==
    \/ outcome[r] \in {"success", "skipped"}
    \/ /\ outcome[r] = ""
       /\ phase[r] \in DOMAIN ConsumerPhaseOrder
       /\ ~Before(phase[r], "mutated")

ActiveRuns == {r \in Runs : status[r] = "active"}

PendingEvents == {e \in Events : evStatus[e] = "pending"}

ReservedBy(r) == {e \in Events : evStatus[e] = "reserved" /\ evRun[e] = r}

RunsOfSession(s) == {r \in Runs : sessionOf[r] = s}

RetriesOf(r) == {q \in Runs : retryOf[q] = r}

\* What next() receives about the mutation of its own run.
MutationResultForNextPhase(r) ==
    IF mut[r] \in {"applied", "skipped"} THEN mut[r] ELSE "none"

-----------------------------------------------------------------------------
(* Event store *)

PublishEvent(e) ==
    /\ evStatus[e] = "absent"    \* a second publish only rewrites the payload
    /\ evStatus' = [evStatus EXCEPT ![e] = "pending"]
    /\ UNCHANGED evRun

SetEvents(S, s, r) ==
    /\ evStatus' = [e \in Events |-> IF e \in S THEN s ELSE evStatus[e]]
    /\ evRun' = [e \in Events |-> IF e \in S THEN r ELSE evRun[e]]

ReserveEvents(r, S) == SetEvents(S \cap PendingEvents, "reserved", r)

\* Fault: the reserved_by_run_id condition is missing from the UPDATE.
ConsumeEvents_OfAnyRun(r) ==
    SetEvents({e \in Events : evStatus[e] = "reserved"}, "consumed", r)

ConsumeEvents(r) == SetEvents(ReservedBy(r), "consumed", r)

SkipEvents(r) == SetEvents(ReservedBy(r), "skipped", r)

ReleaseEvents(r) == SetEvents(ReservedBy(r), "pending", NoRun)

TransferReservations(from, to) == SetEvents(ReservedBy(from), "reserved", to)

-----------------------------------------------------------------------------
(* Handler run status *)

NeedsUserAttention == {"paused:approval", "paused:reconciliation", "failed:internal"}

\* Fault: the boundary is tested with <= instead of <.
HandleEventDisposition_OffByOne(r) ==
    IF kind[r] = "producer" THEN UNCHANGED <<eventVars, pendingRetry>>
    ELSE IF ~Before("mutated", phase[r]) \/ outcome[r] = "failure"
         THEN ReleaseEvents(r) /\ UNCHANGED pendingRetry
         ELSE pendingRetry' = r /\ UNCHANGED eventVars

\* The third case of the code (phase = mutating, outcome = "") is behind a
\* test that already holds for it, so only two cases can be taken.
HandleEventDisposition(r) ==
    IF kind[r] = "producer" THEN UNCHANGED <<eventVars, pendingRetry>>
    ELSE IF PreMutation(r)
         THEN ReleaseEvents(r) /\ UNCHANGED pendingRetry
         ELSE pendingRetry' = r /\ UNCHANGED eventVars

\* Fault: the session of a failed run is left open.
FinalizeSession_LeftOpen(r) == UNCHANGED sessionEnd

FinalizeSession(r) == sessionEnd' = [sessionEnd EXCEPT ![sessionOf[r]] = "failed"]

\* updateHandlerRunStatus for every status but "committed"
StopRun(r, s) ==
    /\ status' = [status EXCEPT ![r] = s]
    /\ HandleEventDisposition(r)
    /\ FinalizeSession(r)
    /\ maintenance' = (maintenance \/ s = "failed:logic")
    /\ wfError' = (wfError \/ s \in NeedsUserAttention)
    /\ lastFailed' = IF s \in Failures THEN r ELSE lastFailed
    /\ UNCHANGED <<kind, phase, outcome, retryOf, prep, sessionOf, mutationVars,
                   wfStatus, fixCount>>

-----------------------------------------------------------------------------
(* Creating runs *)

CreateHandlerRun(r, k, s) ==
    /\ status[r] = "none"
    /\ kind' = [kind EXCEPT ![r] = k]
    /\ status' = [status EXCEPT ![r] = "active"]
    /\ sessionOf' = [sessionOf EXCEPT ![r] = s]
    /\ sessionEnd' = [sessionEnd EXCEPT ![s] = "open"]
    /\ UNCHANGED <<phase, outcome, retryOf, prep, eventVars, mutationVars,
                   workflowVars, lastFailed>>

\* The retry run r opens a session of its own and starts at emitting.
CreateRetryRun(failed, r) ==
    /\ IsPostMutation(failed)
    /\ status[r] = "none"
    /\ kind' = [kind EXCEPT ![r] = kind[failed]]
    /\ phase' = [phase EXCEPT ![r] = "emitting"]
    /\ status' = [status EXCEPT ![r] = "active"]
    /\ outcome' = [outcome EXCEPT ![r] = outcome[failed]]
    /\ retryOf' = [retryOf EXCEPT ![r] = failed]
    /\ prep' = [prep EXCEPT ![r] = prep[failed]]
    /\ sessionOf' = [sessionOf EXCEPT ![r] = r]
    /\ sessionEnd' = [sessionEnd EXCEPT ![r] = "open"]
    /\ TransferReservations(failed, r)
    /\ pendingRetry' = NoRun
    /\ UNCHANGED <<mutationVars, wfStatus, wfError, maintenance, fixCount, lastFailed>>

-----------------------------------------------------------------------------
(* Phases *)

SetPhase(r, p) == phase' = [phase EXCEPT ![r] = p]

\* updateConsumerPhase for the transitions that only write the phase
AdvancePhase(r, from, to) ==
    /\ phase[r] = from
    /\ SetPhase(r, to)
    /\ UNCHANGED <<kind, status, outcome, retryOf, prep, sessionOf, sessionEnd,
                   eventVars, mutationVars, workflowVars, lastFailed>>

\* preparing -> prepared: the reservations and the phase in one transaction
AdvanceToPrepared(r, S) ==
    /\ phase[r] = "preparing"
    /\ SetPhase(r, "prepared")
    /\ prep' = [prep EXCEPT ![r] = S]
    /\ ReserveEvents(r, S)
    /\ UNCHANGED <<kind, status, outcome, retryOf, sessionOf, sessionEnd,
                   mutationVars, workflowVars, lastFailed>>

AdvanceToMutating(r) == prep[r] # {} /\ AdvancePhase(r, "prepared", "mutating")

\* Fault: the guard on a failed mutation is dropped.
AdvanceToEmitting_Unguarded(r) == AdvancePhase(r, "mutated", "emitting")

AdvanceToEmitting(r) == outcome[r] # "failure" /\ AdvancePhase(r, "mutated", "emitting")

CommitConsumer(r) ==
    /\ kind[r] = "consumer"
    /\ status[r] # "committed"
    /\ ConsumeEvents(r)
    /\ SetPhase(r, "committed")
    /\ status' = [status EXCEPT ![r] = "committed"]
    /\ UNCHANGED <<kind, outcome, retryOf, prep, sessionOf, sessionEnd,
                   mutationVars, workflowVars, lastFailed>>

CommitProducer(r) ==
    /\ kind[r] = "producer"
    /\ status[r] # "committed"
    /\ SetPhase(r, "committed")
    /\ status' = [status EXCEPT ![r] = "committed"]
    /\ UNCHANGED <<kind, outcome, retryOf, prep, sessionOf, sessionEnd, eventVars,
                   mutationVars, workflowVars, lastFailed>>

-----------------------------------------------------------------------------
(* Mutations *)

CreateInFlight(r) ==
    /\ mut[r] = "none"
    /\ mut' = [mut EXCEPT ![r] = "in_flight"]
    /\ UNCHANGED <<runVars, sessionEnd, eventVars, attempts, workflowVars, lastFailed>>

\* updateMutationStatus: a label change, with no test of the current status
UpdateMutationStatus(r, s) ==
    /\ mut' = [mut EXCEPT ![r] = s]
    /\ UNCHANGED <<runVars, sessionEnd, eventVars, attempts, workflowVars, lastFailed>>

ResolveRun(r, m, o) ==
    /\ mut' = [mut EXCEPT ![r] = m]
    /\ outcome' = [outcome EXCEPT ![r] = o]
    /\ SetPhase(r, "mutated")
    /\ UNCHANGED <<kind, status, retryOf, prep, sessionOf, sessionEnd, attempts,
                   wfStatus, maintenance, fixCount, lastFailed>>

ApplyMutation(r) ==
    /\ mut[r] \notin ResolvedMutations
    /\ Before(phase[r], "mutated")
    /\ ResolveRun(r, "applied", "success")
    /\ wfError' = FALSE
    /\ UNCHANGED <<eventVars, pendingRetry>>

\* Fault: the events of a failed mutation are not released.
FailMutation_KeepsEvents(r) ==
    /\ mut[r] \notin ResolvedMutations
    /\ Before(phase[r], "mutated")
    /\ ResolveRun(r, "failed", "failure")
    /\ pendingRetry' = NoRun
    /\ wfError' = FALSE
    /\ UNCHANGED eventVars

FailMutation(r) ==
    /\ mut[r] \notin ResolvedMutations
    /\ Before(phase[r], "mutated")
    /\ ResolveRun(r, "failed", "failure")
    /\ ReleaseEvents(r)
    /\ pendingRetry' = NoRun
    /\ wfError' = FALSE

ResolveMutationFailed(r) ==
    /\ mut[r] = "indeterminate"
    /\ ResolveRun(r, "failed", "failure")
    /\ ReleaseEvents(r)
    /\ pendingRetry' = NoRun
    /\ wfError' = FALSE

\* Fault: the browser does not check that the mutation is indeterminate.
ResolveMutationSkipped_Unchecked(r) ==
    /\ mut[r] # "none"
    /\ ResolveRun(r, "skipped", "skipped")
    /\ SkipEvents(r)
    /\ pendingRetry' = r
    /\ wfError' = FALSE

ResolveMutationSkipped(r) ==
    /\ mut[r] = "indeterminate"
    /\ ResolveRun(r, "skipped", "skipped")
    /\ SkipEvents(r)
    /\ pendingRetry' = r
    /\ wfError' = FALSE

ScheduleNextReconcile(r) ==
    /\ attempts' = [attempts EXCEPT ![r] = @ + 1]
    /\ UNCHANGED <<runVars, sessionEnd, eventVars, mut, workflowVars, lastFailed>>

-----------------------------------------------------------------------------
(* Sessions and workflow fields *)

FinishSession(s) ==
    /\ sessionEnd' = [sessionEnd EXCEPT ![s] = "completed"]
    /\ UNCHANGED <<runVars, eventVars, mutationVars, workflowVars, lastFailed>>

BlockWorkflow(clearPendingRetry) ==
    /\ wfError' = TRUE
    /\ pendingRetry' = IF clearPendingRetry THEN NoRun ELSE pendingRetry
    /\ UNCHANGED <<runVars, sessionEnd, eventVars, mutationVars, wfStatus,
                   maintenance, fixCount, lastFailed>>

\* A write of the workflow row that leaves every other row alone.
WriteWorkflow(st, err, maint, fixes) ==
    /\ wfStatus' = st
    /\ wfError' = err
    /\ maintenance' = maint
    /\ fixCount' = fixes
    /\ UNCHANGED <<runVars, sessionEnd, eventVars, mutationVars, pendingRetry, lastFailed>>

ExitMaintenanceMode == WriteWorkflow(wfStatus, wfError, FALSE, fixCount)

ResetMaintenanceFixCount == WriteWorkflow(wfStatus, wfError, maintenance, 0)

EnterMaintenanceMode == WriteWorkflow(wfStatus, wfError, TRUE, fixCount + 1)

EscalateMaintainerFailure == WriteWorkflow(wfStatus, TRUE, FALSE, 0)

PauseWorkflow == WriteWorkflow("paused", wfError, maintenance, fixCount)

ResumeWorkflow == WriteWorkflow("active", FALSE, maintenance, fixCount)

\* activateScript as handleMaintainerCompletion calls it
ActivateScript(retry) ==
    /\ maintenance' = FALSE
    /\ pendingRetry' = retry
    /\ UNCHANGED <<runVars, sessionEnd, eventVars, mutationVars, wfStatus, wfError,
                   fixCount, lastFailed>>
=============================================================================
