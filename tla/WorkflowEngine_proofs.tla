------------------------ MODULE WorkflowEngine_proofs ------------------------
(* Proofs about WorkflowEngine, for every set of runs and events and every   *)
(* limit, in five parts:                                                     *)
(*   - each transaction keeps RowsInv under the guard its callers give it,   *)
(*     and each action adds the place of the scheduler: CoreInv;             *)
(*   - every step of every process is one of nine transactions or none;      *)
(*     what follows is proved of those: no step undoes a stop, a resolution  *)
(*     or a phase;                                                           *)
(*   - what was recorded of earlier runs stays true: HistoryInv;             *)
(*   - every step changes sessions in one of five ways: SessionInv;          *)
(*   - the theorems, and that the engine implements EventLedger.             *)
EXTENDS WorkflowInvariant, TLAPS

USE DEF runVars, eventVars, mutationVars, workflowVars

\* The numbers of the code's phase order, as far as the invariant needs them:
\* the phases before mutated.
LEMMA PhaseOrder ==
    /\ DOMAIN ConsumerPhaseOrder = Phases \ {"executing"}
    /\ \A p \in Phases \ {"executing"} :
          Before(p, "mutated") <=> p \in {"pending", "preparing", "prepared", "mutating"}
BY DEF ConsumerPhaseOrder, Phases, Before

\* The counters start within their bounds.
LEMMA ZeroInRanges ==
    /\ 0 \in 0..MaxAttempts
    /\ 0 \in 0..MaxNetworkRetries
    /\ 0 \in 0..MaxCrashes
BY MaxAttemptsAssumption, LimitsAssumption

\* updateHandlerRunStatus: a stopped run either gives its events back or keeps
\* them as a run that ended after its mutation.
LEMMA StopKeepsRows ==
    ASSUME RowsInv, NEW r \in Runs, status[r] = "active",
           NEW s \in Failures \cup Pauses, StopRun(r, s)
    PROVE  RowsInv'
<1> USE DEF StopRun
<1>1. EMMTypeOK'
  <2>1. evStatus' \in [Events -> EventStates] /\ evRun' \in [Events -> Runs \cup {NoRun}]
    BY DEF RowsInv, EMMTypeOK, HandleEventDisposition, ReleaseEvents, SetEvents, EventStates
  <2>2. pendingRetry' \in Runs \cup {NoRun}
    BY DEF RowsInv, EMMTypeOK, HandleEventDisposition
  <2>3. sessionEnd' \in [Runs -> SessionEnds]
    BY DEF RowsInv, EMMTypeOK, FinalizeSession, SessionEnds
  <2>4. status' \in [Runs -> RunStatuses]
    BY DEF RowsInv, EMMTypeOK, RunStatuses
  <2> QED BY <2>1, <2>2, <2>3, <2>4 DEF RowsInv, EMMTypeOK
<1>2. PhaseFitsMutation'
  BY DEF RowsInv, EMMTypeOK, PhaseFitsMutation, Failures, Pauses
<1>3. RetriesOfEnded'
  BY DEF RowsInv, EMMTypeOK, RetriesOfEnded, Failures, Pauses
<1>4. EventsFitRuns'
  <2> SUFFICES ASSUME NEW e \in Events, evStatus'[e] \in {"reserved", "consumed", "skipped"}
               PROVE  EventFitsRun(e)'
    BY DEF EventsFitRuns
  <2>1. evStatus'[e] = evStatus[e] /\ evRun'[e] = evRun[e]
    BY DEF HandleEventDisposition, ReleaseEvents, SetEvents, RowsInv, EMMTypeOK
  <2>2. EventFitsRun(e)
    BY <2>1 DEF RowsInv, EventsFitRuns
  <2>3. CASE evRun[e] # r
    BY <2>1, <2>2, <2>3 DEF EventFitsRun, Stopped, PreMutation, RetriesOf, RowsInv, EMMTypeOK
  <2>4. CASE evRun[e] = r /\ evStatus[e] = "reserved"
    <3>1. ~PreMutation(r) /\ kind[r] = "consumer"
      BY <2>1, <2>2, <2>4 DEF EventFitsRun, HandleEventDisposition, ReleaseEvents, SetEvents, ReservedBy
    <3>2. RetriesOf(r) = {}
      BY DEF RetriesOf, RowsInv, RetriesOfEnded, EMMTypeOK
    <3> QED BY <2>1, <2>2, <2>4, <3>1, <3>2
        DEF EventFitsRun, Stopped, PreMutation, RetriesOf, RowsInv, EMMTypeOK
  <2>5. CASE evRun[e] = r /\ evStatus[e] # "reserved"
    BY <2>1, <2>2, <2>5 DEF EventFitsRun, RowsInv, EMMTypeOK
  <2> QED BY <2>3, <2>4, <2>5
<1> QED BY <1>1, <1>2, <1>3, <1>4 DEF RowsInv

\* A new run starts without events, mutation and outcome.
LEMMA CreateKeepsRows ==
    ASSUME RowsInv, NEW r \in Runs, NEW k \in {"consumer", "producer"}, NEW s \in Runs,
           CreateHandlerRun(r, k, s)
    PROVE  RowsInv'
<1> USE DEF CreateHandlerRun
<1>1. EMMTypeOK'
  BY DEF RowsInv, EMMTypeOK, RunStatuses, SessionEnds
<1>2. PhaseFitsMutation'
  BY DEF RowsInv, EMMTypeOK, PhaseFitsMutation, Early
<1>3. RetriesOfEnded'
  BY DEF RowsInv, EMMTypeOK, RetriesOfEnded
<1>4. ASSUME NEW e \in Events, evStatus'[e] \in {"reserved", "consumed", "skipped"}
      PROVE  EventFitsRun(e)'
  <2>1. evRun[e] # r /\ EventFitsRun(e)
    BY <1>4 DEF RowsInv, EventsFitRuns, EventFitsRun, PhaseFitsMutation
  <2> QED BY <2>1, <1>4 DEF EventFitsRun, Stopped, PreMutation, RetriesOf, RowsInv, EMMTypeOK
<1> QED BY <1>1, <1>2, <1>3, <1>4 DEF RowsInv, EventsFitRuns

\* createRetryRun: the events move to the new, active run, so that the run that
\* failed holds none when it gets its retry.
LEMMA RetryKeepsRows ==
    ASSUME RowsInv, NEW failed \in Runs, NEW r \in Runs,
           status[failed] # "active", RetriesOf(failed) = {}, CreateRetryRun(failed, r)
    PROVE  RowsInv'
<1> USE DEF CreateRetryRun
<1>1. failed # r /\ status[failed] # "none" /\ outcome[failed] # "failure"
  BY PhaseOrder DEF RowsInv, EMMTypeOK, PhaseFitsMutation, IsPostMutation, Early, Before, ConsumerPhaseOrder
<1>2. EMMTypeOK'
  BY NoRunAssumption DEF RowsInv, EMMTypeOK, RunStatuses, SessionEnds, Phases, Outcomes,
     TransferReservations, SetEvents, EventStates
<1>3. PhaseFitsMutation'
  BY <1>1 DEF RowsInv, EMMTypeOK, PhaseFitsMutation, Early, UnresolvedMutations
<1>4. RetriesOfEnded'
  BY <1>1, NoRunAssumption DEF RowsInv, EMMTypeOK, RetriesOfEnded
<1>5. ASSUME NEW e \in Events, evStatus'[e] \in {"reserved", "consumed", "skipped"}
      PROVE  EventFitsRun(e)'
  <2>1. CASE e \in ReservedBy(failed)
    <3>1. EventFitsRun(e) /\ evRun'[e] = r /\ evStatus'[e] = "reserved" /\ evRun[e] = failed
      BY <2>1 DEF RowsInv, EMMTypeOK, EventsFitRuns, TransferReservations, SetEvents, ReservedBy
    <3> QED BY <3>1, <1>1 DEF EventFitsRun, RowsInv, EMMTypeOK
  <2>2. CASE e \notin ReservedBy(failed)
    <3>1. evStatus'[e] = evStatus[e] /\ evRun'[e] = evRun[e] /\ EventFitsRun(e)
      BY <2>2, <1>5 DEF RowsInv, EMMTypeOK, EventsFitRuns, TransferReservations, SetEvents
    <3>2. evRun[e] # r
      BY <3>1 DEF RowsInv, EventFitsRun, PhaseFitsMutation
    <3>3. evStatus[e] = "reserved" => evRun[e] # failed
      BY <2>2 DEF ReservedBy
    <3> QED BY <3>1, <3>2, <3>3 DEF EventFitsRun, Stopped, PreMutation, RetriesOf, RowsInv, EMMTypeOK
  <2> QED BY <2>1, <2>2
<1> QED BY <1>2, <1>3, <1>4, <1>5 DEF RowsInv, EventsFitRuns

\* A phase transition that changes nothing else, where the new phase admits
\* what is on record of the mutation.
LEMMA AdvanceKeepsRows ==
    ASSUME RowsInv, NEW r \in Runs, status[r] = "active",
           NEW from \in Phases, NEW to \in Phases, AdvancePhase(r, from, to),
           \/ from = "pending" /\ to = "preparing"
           \/ from = "pending" /\ to = "executing" /\ kind[r] = "producer"
           \/ from = "prepared" /\ to = "mutating"
           \/ from = "mutating" /\ to = "mutated" /\ mut[r] = "none"
           \/ from = "mutated" /\ to = "emitting" /\ outcome[r] # "failure"
    PROVE  RowsInv'
<1> USE DEF AdvancePhase, SetPhase
<1>1. EMMTypeOK'
  BY DEF RowsInv, EMMTypeOK
<1>2. PhaseFitsMutation'
  BY DEF RowsInv, EMMTypeOK, PhaseFitsMutation, Early, UnresolvedMutations
<1>3. RetriesOfEnded'
  BY DEF RowsInv, EMMTypeOK, RetriesOfEnded
<1>4. ASSUME NEW e \in Events, evStatus'[e] \in {"reserved", "consumed", "skipped"}
      PROVE  EventFitsRun(e)'
  <2>1. EventFitsRun(e) /\ evRun'[e] = evRun[e] /\ evStatus'[e] = evStatus[e]
    BY <1>4 DEF RowsInv, EventsFitRuns
  <2>2. CASE evRun[e] = r
    BY <2>1, <2>2 DEF EventFitsRun, Stopped, Failures, Pauses, RowsInv, EMMTypeOK
  <2>3. CASE evRun[e] # r
    BY <2>1, <2>3 DEF EventFitsRun, Stopped, PreMutation, RetriesOf, RowsInv, EMMTypeOK
  <2> QED BY <2>2, <2>3
<1> QED BY <1>1, <1>2, <1>3, <1>4 DEF RowsInv, EventsFitRuns

\* preparing -> prepared: the events reserved are named by the run.
LEMMA PrepareKeepsRows ==
    ASSUME RowsInv, NEW r \in Runs, status[r] = "active", kind[r] = "consumer",
           NEW S \in SUBSET Events, AdvanceToPrepared(r, S)
    PROVE  RowsInv'
<1> USE DEF AdvanceToPrepared, SetPhase
<1>1. EMMTypeOK'
  BY DEF RowsInv, EMMTypeOK, ReserveEvents, SetEvents, EventStates, Phases
<1>2. PhaseFitsMutation'
  BY DEF RowsInv, EMMTypeOK, PhaseFitsMutation, Early, UnresolvedMutations
<1>3. RetriesOfEnded'
  BY DEF RowsInv, EMMTypeOK, RetriesOfEnded
<1>4. ASSUME NEW e \in Events, evStatus'[e] \in {"reserved", "consumed", "skipped"}
      PROVE  EventFitsRun(e)'
  <2>1. CASE e \in S \cap PendingEvents
    <3>1. evRun'[e] = r /\ evStatus'[e] = "reserved"
      BY <2>1 DEF ReserveEvents, SetEvents
    <3>2. outcome[r] # "failure"
      BY DEF RowsInv, PhaseFitsMutation, Early
    <3> QED BY <3>1, <3>2, <2>1 DEF EventFitsRun, RowsInv, EMMTypeOK
  <2>2. CASE e \notin S \cap PendingEvents
    <3>1. EventFitsRun(e) /\ evRun'[e] = evRun[e] /\ evStatus'[e] = evStatus[e]
      BY <2>2, <1>4 DEF RowsInv, EventsFitRuns, ReserveEvents, SetEvents
    <3>2. evRun[e] # r
      BY <3>1 DEF EventFitsRun
    <3> QED BY <3>1, <3>2 DEF EventFitsRun, Stopped, PreMutation, RetriesOf, RowsInv, EMMTypeOK
  <2> QED BY <2>1, <2>2
<1> QED BY <1>1, <1>2, <1>3, <1>4 DEF RowsInv, EventsFitRuns

\* Committing consumes events of a run that is committed from then on.
LEMMA CommitKeepsRows ==
    ASSUME RowsInv, NEW r \in Runs, status[r] = "active",
           \/ CommitConsumer(r) /\ phase[r] \in {"prepared", "emitting"}
           \/ CommitProducer(r) /\ phase[r] = "executing"
    PROVE  RowsInv'
<1> USE DEF CommitConsumer, CommitProducer, SetPhase
<1>1. EMMTypeOK'
  BY DEF RowsInv, EMMTypeOK, ConsumeEvents, SetEvents, EventStates, Phases, RunStatuses
<1>2. PhaseFitsMutation'
  <2>1. outcome[r] # "failure" /\ mut[r] \notin UnresolvedMutations
    BY DEF RowsInv, PhaseFitsMutation
  <2>2. /\ phase' = [phase EXCEPT ![r] = "committed"]
        /\ status' = [status EXCEPT ![r] = "committed"]
        /\ kind' = kind /\ outcome' = outcome /\ mut' = mut
    OBVIOUS
  <2> QED BY <2>1, <2>2 DEF RowsInv, EMMTypeOK, PhaseFitsMutation, Early
<1>3. RetriesOfEnded'
  BY DEF RowsInv, EMMTypeOK, RetriesOfEnded
<1>4. ASSUME NEW e \in Events, evStatus'[e] \in {"reserved", "consumed", "skipped"}
      PROVE  EventFitsRun(e)'
  <2>1. EventFitsRun(e) /\ evRun'[e] = evRun[e]
    BY <1>4 DEF RowsInv, EventsFitRuns, ConsumeEvents, ReservedBy, SetEvents
  <2>2. CASE evRun[e] = r
    <3>1. evStatus'[e] # "reserved"
      BY <2>1, <2>2 DEF ConsumeEvents, ReservedBy, SetEvents, EventFitsRun
    <3>2. evStatus'[e] = "skipped" => evStatus[e] = "skipped"
      BY <2>1 DEF ConsumeEvents, ReservedBy, SetEvents
    <3> QED BY <2>1, <2>2, <3>1, <3>2, <1>4 DEF EventFitsRun, RowsInv, EMMTypeOK
  <2>3. CASE evRun[e] # r
    <3>1. evStatus'[e] = evStatus[e]
      BY <2>3, <1>4 DEF ConsumeEvents, ReservedBy, SetEvents
    <3> QED BY <2>1, <2>3, <3>1 DEF EventFitsRun, Stopped, PreMutation, RetriesOf, RowsInv, EMMTypeOK
  <2> QED BY <2>2, <2>3
<1> QED BY <1>1, <1>2, <1>3, <1>4 DEF RowsInv, EventsFitRuns

\* The record of a tool call is made in phase mutating only.
LEMMA InFlightKeepsRows ==
    ASSUME RowsInv, NEW r \in Runs, phase[r] = "mutating", CreateInFlight(r)
    PROVE  RowsInv'
<1> USE DEF CreateInFlight
<1>1. EMMTypeOK'
  BY DEF RowsInv, EMMTypeOK, MutationStates, UnresolvedMutations
<1>2. PhaseFitsMutation'
  BY DEF RowsInv, EMMTypeOK, PhaseFitsMutation, Early
<1>3. RetriesOfEnded' /\ EventsFitRuns'
  BY DEF RowsInv, RetriesOfEnded, EventsFitRuns, EventFitsRun, Stopped, PreMutation, RetriesOf
<1> QED BY <1>1, <1>2, <1>3 DEF RowsInv

\* A mutation that is not resolved may change to another such label.
LEMMA RelabelKeepsRows ==
    ASSUME RowsInv, NEW r \in Runs, mut[r] \in UnresolvedMutations,
           NEW m \in UnresolvedMutations, UpdateMutationStatus(r, m)
    PROVE  RowsInv'
<1> USE DEF UpdateMutationStatus
<1>1. EMMTypeOK'
  BY DEF RowsInv, EMMTypeOK, MutationStates, UnresolvedMutations
<1>2. PhaseFitsMutation'
  BY DEF RowsInv, EMMTypeOK, PhaseFitsMutation, Early, UnresolvedMutations
<1>3. RetriesOfEnded' /\ EventsFitRuns'
  BY DEF RowsInv, RetriesOfEnded, EventsFitRuns, EventFitsRun, Stopped, PreMutation, RetriesOf
<1> QED BY <1>1, <1>2, <1>3 DEF RowsInv

\* What the four resolutions of an uncertain mutation have in common.
Resolution(r) ==
    \/ ApplyMutation(r)
    \/ FailMutation(r)
    \/ ResolveMutationFailed(r)
    \/ ResolveMutationSkipped(r)

\* Whoever resolves a mutation, its run moves to mutated with the outcome, and
\* its events are kept, given back or skipped accordingly.
LEMMA ResolutionKeepsRows ==
    ASSUME RowsInv, NEW r \in Runs, mut[r] \in UnresolvedMutations, Resolution(r)
    PROVE  RowsInv'
<1> USE DEF Resolution, ApplyMutation, FailMutation, ResolveMutationFailed,
            ResolveMutationSkipped, ResolveRun, SetPhase
<1>1. phase[r] = "mutating" /\ outcome[r] = ""
  BY DEF RowsInv, PhaseFitsMutation
<1>2. EMMTypeOK'
  <2>1. evStatus' \in [Events -> EventStates] /\ evRun' \in [Events -> Runs \cup {NoRun}]
    BY DEF RowsInv, EMMTypeOK, ReleaseEvents, SkipEvents, SetEvents, EventStates
  <2>2. PICK m \in ResolvedMutations, o \in {"success", "failure", "skipped"} :
           /\ mut' = [mut EXCEPT ![r] = m] /\ outcome' = [outcome EXCEPT ![r] = o]
           /\ phase' = [phase EXCEPT ![r] = "mutated"]
    BY DEF ResolvedMutations
  <2>3. mut' \in [Runs -> MutationStates] /\ outcome' \in [Runs -> Outcomes] /\ phase' \in [Runs -> Phases]
    <3> HIDE DEF Resolution
    <3>1. mut' \in [Runs -> MutationStates]
      BY <2>2 DEF RowsInv, EMMTypeOK, MutationStates
    <3>2. outcome' \in [Runs -> Outcomes]
      BY <2>2 DEF RowsInv, EMMTypeOK, Outcomes
    <3>3. phase' \in [Runs -> Phases]
      BY <2>2 DEF RowsInv, EMMTypeOK, Phases
    <3> QED BY <3>1, <3>2, <3>3
  <2> QED BY <2>1, <2>3 DEF RowsInv, EMMTypeOK
<1>3. PhaseFitsMutation'
  <2>1. /\ phase' = [phase EXCEPT ![r] = "mutated"]
        /\ status' = status /\ kind' = kind
        /\ \/ mut' = [mut EXCEPT ![r] = "failed"] /\ outcome' = [outcome EXCEPT ![r] = "failure"]
           \/ mut' = [mut EXCEPT ![r] = "applied"] /\ outcome' = [outcome EXCEPT ![r] = "success"]
           \/ mut' = [mut EXCEPT ![r] = "skipped"] /\ outcome' = [outcome EXCEPT ![r] = "skipped"]
    OBVIOUS
  <2>2. status[r] # "none" /\ status[r] # "committed"
    BY <1>1 DEF RowsInv, PhaseFitsMutation
  <2>3. /\ phase'[r] = "mutated" /\ mut'[r] \notin UnresolvedMutations
        /\ mut'[r] = "failed" => outcome'[r] = "failure"
    BY <2>1 DEF RowsInv, EMMTypeOK, UnresolvedMutations
  <2>4. \A q \in Runs : q # r =>
           phase'[q] = phase[q] /\ mut'[q] = mut[q] /\ outcome'[q] = outcome[q]
    BY <2>1 DEF RowsInv, EMMTypeOK
  <2>5. kind' = kind /\ status' = status
    BY <2>1
  <2> HIDE DEF Resolution
  <2>6. ASSUME NEW q \in Runs, q # r
        PROVE  /\ status'[q] = "none" => phase'[q] = "pending"
               /\ status'[q] = "committed" => phase'[q] = "committed"
               /\ kind'[q] = "consumer" => phase'[q] # "executing"
               /\ phase'[q] \in Early => mut'[q] = "none"
               /\ phase'[q] \in Early \cup {"mutating"} => outcome'[q] = ""
               /\ mut'[q] \in UnresolvedMutations => phase'[q] = "mutating"
               /\ mut'[q] = "failed" => outcome'[q] = "failure"
               /\ outcome'[q] = "failure" => phase'[q] = "mutated"
    BY <2>4, <2>5, <2>6 DEF RowsInv, PhaseFitsMutation
  <2> QED BY <2>2, <2>3, <2>5, <2>6 DEF PhaseFitsMutation, Early
<1>4. RetriesOfEnded'
  BY DEF RowsInv, RetriesOfEnded
<1>5. ASSUME NEW e \in Events, evStatus'[e] \in {"reserved", "consumed", "skipped"}
      PROVE  EventFitsRun(e)'
  <2>1. EventFitsRun(e) /\ evRun'[e] = evRun[e]
    BY <1>5 DEF RowsInv, EventsFitRuns, ReleaseEvents, SkipEvents, ReservedBy, SetEvents
  <2>2. CASE evRun[e] # r
    <3>1. evStatus'[e] = evStatus[e]
      BY <2>2, <1>5 DEF ReleaseEvents, SkipEvents, ReservedBy, SetEvents
    <3> QED BY <2>1, <2>2, <3>1 DEF EventFitsRun, Stopped, PreMutation, RetriesOf, RowsInv, EMMTypeOK
  <2>3. CASE evRun[e] = r
    <3>1. evStatus[e] = "reserved"
      <4>1. evStatus[e] # "pending" /\ evStatus[e] # "absent"
        BY <1>5 DEF ReleaseEvents, SkipEvents, ReservedBy, SetEvents
      <4>2. status[r] # "committed" /\ outcome[r] # "skipped"
        BY <1>1 DEF RowsInv, PhaseFitsMutation
      <4> QED BY <2>1, <2>3, <4>1, <4>2 DEF EventFitsRun, RowsInv, EMMTypeOK, EventStates
    <3>2. status[r] = "active"
      BY <1>1, <2>1, <2>3, <3>1, PhaseOrder DEF EventFitsRun, PreMutation, Phases
    <3>3. CASE ApplyMutation(r)
      BY <2>1, <2>3, <3>1, <3>2, <3>3 DEF EventFitsRun, RowsInv, EMMTypeOK
    <3>4. CASE FailMutation(r) \/ ResolveMutationFailed(r)
      BY <2>1, <2>3, <3>1, <3>4, <1>5 DEF ReleaseEvents, ReservedBy, SetEvents
    <3>5. CASE ResolveMutationSkipped(r)
      <4>1. evStatus'[e] = "skipped"
        BY <2>3, <3>1, <3>5 DEF SkipEvents, ReservedBy, SetEvents
      <4> QED BY <2>1, <2>3, <3>5, <4>1 DEF EventFitsRun, RowsInv, EMMTypeOK
    <3> QED BY <3>3, <3>4, <3>5
  <2> QED BY <2>2, <2>3
<1> QED BY <1>2, <1>3, <1>4, <1>5 DEF RowsInv, EventsFitRuns

\* A step that writes no run, no event and no label of a mutation.
LEMMA OtherFieldsKeepRows ==
    ASSUME RowsInv, UNCHANGED <<runVars, eventVars, mut>>, EMMTypeOK'
    PROVE  RowsInv'
<1>1. PhaseFitsMutation' /\ RetriesOfEnded'
  BY DEF RowsInv, PhaseFitsMutation, RetriesOfEnded
<1>2. \A e \in Events : EventFitsRun(e)' = EventFitsRun(e)
  BY DEF EventFitsRun, Stopped, PreMutation, RetriesOf
<1>3. EventsFitRuns'
  BY <1>2 DEF RowsInv, EventsFitRuns
<1> QED BY <1>1, <1>3 DEF RowsInv

\* A published event belongs to no run.
LEMMA PublishKeepsRows ==
    ASSUME RowsInv, NEW e \in Events, PublishEvent(e),
           UNCHANGED <<runVars, sessionEnd, mutationVars, workflowVars, lastFailed>>
    PROVE  RowsInv'
<1> USE DEF PublishEvent
<1>1. EMMTypeOK'
  BY DEF RowsInv, EMMTypeOK, EventStates
<1>2. PhaseFitsMutation' /\ RetriesOfEnded'
  BY DEF RowsInv, PhaseFitsMutation, RetriesOfEnded
<1>3. EventsFitRuns'
  BY DEF RowsInv, EMMTypeOK, EventsFitRuns, EventFitsRun, Stopped, PreMutation, RetriesOf
<1> QED BY <1>1, <1>2, <1>3 DEF RowsInv

\* The rows of a workflow that never ran.
LEMMA InitRows == Init => RowsInv
<1> SUFFICES ASSUME Init PROVE RowsInv
  OBVIOUS
<1>1. EMMTypeOK
  <2> USE DEF Init, EMMInit
  <2>1. /\ kind \in [Runs -> {"consumer", "producer"}] /\ phase \in [Runs -> Phases]
        /\ status \in [Runs -> RunStatuses] /\ outcome \in [Runs -> Outcomes]
    BY DEF Phases, RunStatuses, Outcomes
  <2>2. /\ retryOf \in [Runs -> Runs \cup {NoRun}] /\ prep \in [Runs -> SUBSET Events]
        /\ sessionOf \in [Runs -> Runs \cup {NoRun}] /\ sessionEnd \in [Runs -> SessionEnds]
    BY DEF SessionEnds
  <2>3. evStatus \in [Events -> EventStates] /\ evRun \in [Events -> Runs \cup {NoRun}]
    BY DEF EventStates
  <2>4. mut \in [Runs -> MutationStates] /\ attempts \in [Runs -> 0..MaxAttempts]
    <3>1. "none" \in MutationStates
      BY DEF MutationStates
    <3> QED BY <3>1, ZeroInRanges
  <2>5. /\ wfStatus \in {"active", "paused"} /\ wfError \in BOOLEAN /\ maintenance \in BOOLEAN
        /\ pendingRetry \in Runs \cup {NoRun} /\ fixCount \in Nat /\ lastFailed \in Runs \cup {NoRun}
    OBVIOUS
  <2> HIDE DEF Init, EMMInit
  <2> QED BY <2>1, <2>2, <2>3, <2>4, <2>5 DEF EMMTypeOK
<1>2. PhaseFitsMutation
  BY DEF Init, EMMInit, PhaseFitsMutation, UnresolvedMutations
<1>3. RetriesOfEnded /\ EventsFitRuns
  BY NoRunAssumption DEF Init, EMMInit, RetriesOfEnded, EventsFitRuns
<1> QED BY <1>1, <1>2, <1>3 DEF RowsInv

-----------------------------------------------------------------------------
(* One lemma for each group of actions *)

\* start(): recovery of runs, then of sessions, then maintenance.
LEMMA StartupKeepsCore == CoreInv /\ StartupStep => CoreInv'
<1> SUFFICES ASSUME CoreInv, StartupStep PROVE CoreInv'
  OBVIOUS
<1> USE DEF taskVars, engineVars
<1>1. CASE Start
  <2>1. RowsInv'
    BY <1>1, OtherFieldsKeepRows DEF Start, CoreInv, RowsInv, EMMTypeOK, emmVars
  <2>2. ProcessTypeOK' /\ SchedulerOwnsItsRun'
    BY <1>1 DEF Start, Goto, CoreInv, TypeOK, ProcessTypeOK, SchedulerOwnsItsRun, Places
  <2> QED BY <2>1, <2>2 DEF CoreInv, TypeOK, RowsInv
<1>2. ASSUME NEW r \in Runs, RecoverRun(r) PROVE CoreInv'
  <2>1. \E s \in Failures \cup Pauses : StopRun(r, s)
    BY <1>2 DEF RecoverRun, Failures, Pauses
  <2>2. RowsInv'
    BY <1>2, <2>1, StopKeepsRows DEF RecoverRun, CoreInv
  <2>3. ProcessTypeOK' /\ SchedulerOwnsItsRun'
    BY <1>2 DEF RecoverRun, CoreInv, TypeOK, ProcessTypeOK, SchedulerOwnsItsRun
  <2> QED BY <2>2, <2>3 DEF CoreInv, TypeOK, RowsInv
<1>3. ASSUME NEW s \in Runs, RecoverSession(s) PROVE CoreInv'
  <2>1. EMMTypeOK'
    BY <1>3 DEF RecoverSession, FinishSession, CoreInv, RowsInv, EMMTypeOK, SessionEnds
  <2>2. RowsInv'
    BY <1>3, <2>1, OtherFieldsKeepRows DEF RecoverSession, FinishSession, CoreInv
  <2>3. ProcessTypeOK' /\ SchedulerOwnsItsRun'
    BY <1>3 DEF RecoverSession, CoreInv, TypeOK, ProcessTypeOK, SchedulerOwnsItsRun
  <2> QED BY <2>2, <2>3 DEF CoreInv, TypeOK, RowsInv
<1>4. CASE FinishStartup
  <2>1. EMMTypeOK'
    <3>1. CASE maintenance
      BY <1>4, <3>1 DEF FinishStartup, EnterMaintenanceMode, WriteWorkflow, CoreInv, RowsInv, EMMTypeOK
    <3>2. CASE ~maintenance
      BY <1>4, <3>2 DEF FinishStartup, emmVars, CoreInv, RowsInv, EMMTypeOK
    <3> QED BY <3>1, <3>2
  <2>2. UNCHANGED <<runVars, eventVars, mut>>
    BY <1>4 DEF FinishStartup, EnterMaintenanceMode, WriteWorkflow, emmVars
  <2>3. RowsInv'
    BY <2>1, <2>2, OtherFieldsKeepRows DEF CoreInv
  <2>4. tasks' \in [Runs -> Nat]
    BY <1>4 DEF FinishStartup, OpenTask, CoreInv, TypeOK, ProcessTypeOK
  <2>5. ProcessTypeOK' /\ SchedulerOwnsItsRun'
    BY <1>4, <2>4, ZeroInRanges
    DEF FinishStartup, GotoIdle, CoreInv, TypeOK, ProcessTypeOK, SchedulerOwnsItsRun, Places
  <2> QED BY <2>3, <2>5 DEF CoreInv, TypeOK, RowsInv
<1> QED BY <1>1, <1>2, <1>3, <1>4 DEF StartupStep

\* Picking work, creating a run or a retry, completing a session.
LEMMA SessionKeepsCore == CoreInv /\ SessionStep => CoreInv'
<1> SUFFICES ASSUME CoreInv, SessionStep PROVE CoreInv'
  OBVIOUS
<1> USE DEF taskVars, engineVars
<1>1. CASE PickRetry
  <2>1. RowsInv'
    BY <1>1, OtherFieldsKeepRows DEF PickRetry, CoreInv, RowsInv, EMMTypeOK, emmVars
  <2>2. ProcessTypeOK' /\ SchedulerOwnsItsRun'
    BY <1>1 DEF PickRetry, CoreInv, TypeOK, EMMTypeOK, ProcessTypeOK, SchedulerOwnsItsRun, Places,
       emmVars, ActiveRuns
  <2> QED BY <2>1, <2>2 DEF CoreInv, TypeOK, RowsInv
<1>2. CASE PickSession
  <2>1. RowsInv'
    BY <1>2, OtherFieldsKeepRows DEF PickSession, CoreInv, RowsInv, EMMTypeOK, emmVars
  <2>2. ProcessTypeOK' /\ SchedulerOwnsItsRun'
    BY <1>2 DEF PickSession, Goto, CoreInv, TypeOK, ProcessTypeOK, SchedulerOwnsItsRun, Places
  <2> QED BY <2>1, <2>2 DEF CoreInv, TypeOK, RowsInv
<1>3. CASE RejectSecondRetry \/ RejectPreMutationRetry
  <2>1. RowsInv'
    BY <1>3, OtherFieldsKeepRows
    DEF RejectSecondRetry, RejectPreMutationRetry, CoreInv, RowsInv, EMMTypeOK, emmVars
  <2>2. ProcessTypeOK' /\ SchedulerOwnsItsRun'
    BY <1>3, ZeroInRanges DEF RejectSecondRetry, RejectPreMutationRetry, GotoIdle, CoreInv, TypeOK,
       ProcessTypeOK, SchedulerOwnsItsRun, Places
  <2> QED BY <2>1, <2>2 DEF CoreInv, TypeOK, RowsInv
<1>4. ASSUME NEW r \in Runs, StartRetry(r) PROVE CoreInv'
  <2>1. cur \in Runs /\ status[cur] # "active" /\ RetriesOf(cur) = {} /\ CreateRetryRun(cur, r)
    BY <1>4 DEF StartRetry, CoreInv, SchedulerOwnsItsRun, ActiveRuns
  <2>2. RowsInv'
    BY <2>1, RetryKeepsRows DEF CoreInv
  <2>3. status'[r] = "active"
    BY <2>1 DEF CreateRetryRun, CoreInv, RowsInv, EMMTypeOK
  <2>4. ProcessTypeOK' /\ SchedulerOwnsItsRun'
    BY <1>4, <2>3 DEF StartRetry, GotoRun, CoreInv, TypeOK, ProcessTypeOK, SchedulerOwnsItsRun, Places
  <2> QED BY <2>2, <2>4 DEF CoreInv, TypeOK, RowsInv
<1>5. ASSUME NEW r \in Runs, NEW k \in {"consumer", "producer"}, StartRun(r, k) PROVE CoreInv'
  <2>1. PICK s \in Runs : CreateHandlerRun(r, k, s) /\ GotoRun(r, s)
    BY <1>5 DEF StartRun, CoreInv, TypeOK, ProcessTypeOK
  <2>2. RowsInv'
    BY <2>1, CreateKeepsRows DEF CoreInv
  <2>3. status'[r] = "active"
    BY <2>1 DEF CreateHandlerRun, CoreInv, RowsInv, EMMTypeOK
  <2>4. ProcessTypeOK' /\ SchedulerOwnsItsRun'
    BY <2>1, <2>3 DEF GotoRun, CoreInv, TypeOK, ProcessTypeOK, SchedulerOwnsItsRun, Places
  <2> QED BY <2>2, <2>4 DEF CoreInv, TypeOK, RowsInv
<1>6. CASE CompleteSession
  <2>1. EMMTypeOK' /\ UNCHANGED <<runVars, eventVars, mut>>
    BY <1>6 DEF CompleteSession, FinishSession, emmVars, CoreInv, RowsInv, EMMTypeOK, SessionEnds
  <2>2. RowsInv'
    BY <2>1, OtherFieldsKeepRows DEF CoreInv
  <2>3. ProcessTypeOK' /\ SchedulerOwnsItsRun'
    BY <1>6 DEF CompleteSession, Goto, CoreInv, TypeOK, ProcessTypeOK, SchedulerOwnsItsRun, Places
  <2> QED BY <2>2, <2>3 DEF CoreInv, TypeOK, RowsInv
<1> QED BY <1>1, <1>2, <1>3, <1>4, <1>5, <1>6 DEF SessionStep

\* A phase transition stops no run and touches no mutation.
LEMMA PhaseStepKeepsCore ==
    ASSUME CoreInv, RowsInv', UNCHANGED <<status, mut, engineVars>>
    PROVE  CoreInv'
BY DEF CoreInv, TypeOK, RowsInv, ProcessTypeOK, SchedulerOwnsItsRun, ActiveRuns, engineVars, taskVars

\* The scheduler moves to a place where it need not own a run.
LEMMA GotoKeepsCore ==
    ASSUME CoreInv, RowsInv', NEW p \in {"post", "escalating", "exiting", "session"}, Goto(p)
    PROVE  CoreInv'
BY DEF Goto, taskVars, CoreInv, TypeOK, RowsInv, ProcessTypeOK, SchedulerOwnsItsRun, Places

\* The scheduler returns to its session after a commit.
LEMMA CommitKeepsCore ==
    ASSUME CoreInv, RowsInv', GotoSession
    PROVE  CoreInv'
BY DEF GotoSession, taskVars, CoreInv, TypeOK, RowsInv, ProcessTypeOK, SchedulerOwnsItsRun, Places

\* One step of the handler loop.
LEMMA RunKeepsCore ==
    ASSUME CoreInv, NEW r \in Runs, RunStep(r)
    PROVE  CoreInv'
<1> USE DEF Executing
<1>0. pc = "run" /\ cur = r => status[r] = "active"
  BY DEF CoreInv, SchedulerOwnsItsRun
<1>1. CASE BeginRun(r)
  <2>1. RowsInv'
    BY <1>0, <1>1, AdvanceKeepsRows DEF BeginRun, CoreInv, Phases
  <2> QED BY <1>1, <2>1, PhaseStepKeepsCore DEF BeginRun, AdvancePhase
<1>2. ASSUME NEW e \in ErrorTypes, ScriptFails(r, e) PROVE CoreInv'
  <2>1. errorTypeToRunStatus[e] \in Failures \cup Pauses
    BY DEF ErrorTypes, errorTypeToRunStatus, Failures, Pauses
  <2>2. RowsInv' /\ Goto("post")
    BY <1>0, <1>2, <2>1, StopKeepsRows DEF ScriptFails, Stop, CoreInv
  <2> QED BY <2>2, GotoKeepsCore
<1>3. ASSUME NEW e \in Events, Publish(r, e) PROVE CoreInv'
  <2>1. RowsInv'
    BY <1>3, PublishKeepsRows DEF Publish, CoreInv
  <2> QED BY <1>3, <2>1, PhaseStepKeepsCore DEF Publish
<1>4. CASE ProducerReturns(r)
  BY <1>0, <1>4, CommitKeepsRows, CommitKeepsCore DEF ProducerReturns, CoreInv
<1>5. ASSUME NEW S \in SUBSET Events, PrepareReturns(r, S) PROVE CoreInv'
  <2>1. RowsInv'
    BY <1>0, <1>5, PrepareKeepsRows DEF PrepareReturns, CoreInv
  <2> QED BY <1>5, <2>1, PhaseStepKeepsCore DEF PrepareReturns, AdvanceToPrepared
<1>6. CASE NothingPrepared(r)
  BY <1>0, <1>6, CommitKeepsRows, CommitKeepsCore DEF NothingPrepared, CoreInv
<1>7. CASE BeginMutating(r)
  <2>1. RowsInv'
    BY <1>0, <1>7, AdvanceKeepsRows DEF BeginMutating, AdvanceToMutating, CoreInv, Phases
  <2> QED BY <1>7, <2>1, PhaseStepKeepsCore DEF BeginMutating, AdvanceToMutating, AdvancePhase
<1>8. CASE MutateWithoutCall(r)
  <2>1. RowsInv'
    BY <1>0, <1>8, AdvanceKeepsRows DEF MutateWithoutCall, CoreInv, Phases
  <2> QED BY <1>8, <2>1, PhaseStepKeepsCore DEF MutateWithoutCall, AdvancePhase
<1>9. CASE CallMutationTool(r)
  <2>1. RowsInv'
    BY <1>9, InFlightKeepsRows DEF CallMutationTool, CoreInv
  <2>2. status' = status /\ mut'[r] = "in_flight"
    BY <1>9 DEF CallMutationTool, CreateInFlight, CoreInv, RowsInv, EMMTypeOK
  <2>3. ProcessTypeOK' /\ SchedulerOwnsItsRun'
    BY <1>0, <1>9, <2>2 DEF CallMutationTool, Goto, taskVars, CoreInv, TypeOK, ProcessTypeOK,
       SchedulerOwnsItsRun, Places
  <2> QED BY <2>1, <2>3 DEF CoreInv, TypeOK, RowsInv
<1>10. CASE ObserveUncertain(r)
  <2>1. RowsInv'
    BY <1>10, OtherFieldsKeepRows DEF ObserveUncertain, CoreInv, RowsInv, EMMTypeOK, emmVars
  <2>2. ProcessTypeOK' /\ SchedulerOwnsItsRun'
    BY <1>0, <1>10 DEF ObserveUncertain, Goto, emmVars, taskVars, CoreInv, TypeOK, ProcessTypeOK,
       SchedulerOwnsItsRun, Places
  <2> QED BY <2>1, <2>2 DEF CoreInv, TypeOK, RowsInv
<1>11. CASE BeginEmitting(r)
  <2>1. RowsInv'
    BY <1>0, <1>11, AdvanceKeepsRows DEF BeginEmitting, AdvanceToEmitting, CoreInv, Phases
  <2> QED BY <1>11, <2>1, PhaseStepKeepsCore DEF BeginEmitting, AdvanceToEmitting, AdvancePhase
<1>12. CASE EmitAfterFailedMutation(r)
  <2>1. RowsInv' /\ Goto("post")
    BY <1>0, <1>12, StopKeepsRows DEF EmitAfterFailedMutation, Stop, CoreInv, Failures
  <2> QED BY <2>1, GotoKeepsCore
<1>13. CASE NextReturns(r)
  BY <1>0, <1>13, CommitKeepsRows, CommitKeepsCore DEF NextReturns, CoreInv
<1> QED BY <1>1, <1>2, <1>3, <1>4, <1>5, <1>6, <1>7, <1>8, <1>9, <1>10, <1>11, <1>12, <1>13
        DEF RunStep

\* The scheduler goes on with the run whose tool was called.
LEMMA AfterCallKeepsCore ==
    ASSUME CoreInv, pc = "calling", RowsInv', status' = status, NEW p \in {"run", "pausing"}, Goto(p)
    PROVE  CoreInv'
BY DEF Goto, taskVars, CoreInv, TypeOK, RowsInv, ProcessTypeOK, SchedulerOwnsItsRun, Places

\* handleUncertainOutcome, whatever the reconcile method answers.
LEMMA UncertainKeepsRows ==
    ASSUME RowsInv, NEW r \in Runs, mut[r] = "in_flight", NEW a, HandleUncertainOutcome(r, a)
    PROVE  RowsInv' /\ status' = status
<1>1. CASE ApplyMutation(r) \/ FailMutation(r)
  BY <1>1, ResolutionKeepsRows
  DEF Resolution, UnresolvedMutations, ApplyMutation, FailMutation, ResolveRun
<1>2. CASE \E m \in UnresolvedMutations : UpdateMutationStatus(r, m)
  BY <1>2, RelabelKeepsRows DEF UnresolvedMutations, UpdateMutationStatus
<1> QED BY <1>1, <1>2 DEF HandleUncertainOutcome, UnresolvedMutations

\* A tool call: its effect, its answer, and the pause that may follow.
LEMMA CallKeepsCore == CoreInv /\ CallStep => CoreInv'
<1> SUFFICES ASSUME CoreInv, CallStep PROVE CoreInv'
  OBVIOUS
<1>0. pc = "calling" => cur \in Runs /\ mut[cur] = "in_flight"
  BY DEF CoreInv, SchedulerOwnsItsRun
<1>1. CASE MutationTakesEffect
  <2>1. RowsInv'
    BY <1>1, OtherFieldsKeepRows DEF MutationTakesEffect, CoreInv, RowsInv, EMMTypeOK, emmVars
  <2>2. ProcessTypeOK' /\ SchedulerOwnsItsRun'
    BY <1>0, <1>1 DEF MutationTakesEffect, emmVars, taskVars, CoreInv, TypeOK, ProcessTypeOK,
       SchedulerOwnsItsRun
  <2> QED BY <2>1, <2>2 DEF CoreInv, TypeOK, RowsInv
<1>2. CASE ToolSucceeds
  <2>1. RowsInv' /\ status' = status
    BY <1>0, <1>2, ResolutionKeepsRows
    DEF ToolSucceeds, ApplyMutation, ResolveRun, Resolution, UnresolvedMutations, CoreInv
  <2> QED BY <1>2, <2>1, AfterCallKeepsCore DEF ToolSucceeds
<1>3. ASSUME NEW e \in ErrorTypes, ToolFails(e) PROVE CoreInv'
  <2>1. RowsInv' /\ status' = status
    BY <1>0, <1>3, ResolutionKeepsRows
    DEF ToolFails, FailMutation, ResolveRun, Resolution, UnresolvedMutations, CoreInv
  <2> QED BY <1>3, <2>1, AfterCallKeepsCore DEF ToolFails
<1>4. ASSUME NEW e \in ErrorTypes, NEW a \in {"applied", "failed", "retry", "none"},
             ToolLeavesUncertain(e, a) \/ ScriptSwallowsToolError(e, a)
      PROVE  CoreInv'
  <2>1. pc = "calling" /\ HandleUncertainOutcome(cur, a)
    BY <1>4 DEF ToolLeavesUncertain, ScriptSwallowsToolError
  <2>2. RowsInv' /\ status' = status
    BY <1>0, <2>1, UncertainKeepsRows DEF CoreInv
  <2>3. \E p \in {"run", "pausing"} : Goto(p)
    BY <1>4 DEF ToolLeavesUncertain, ScriptSwallowsToolError
  <2> QED BY <2>1, <2>2, <2>3, AfterCallKeepsCore
<1>5. CASE PauseForReconciliation
  <2>1. cur \in Runs /\ status[cur] = "active"
    BY <1>5 DEF PauseForReconciliation, CoreInv, SchedulerOwnsItsRun
  <2>2. RowsInv' /\ Goto("post")
    BY <1>5, <2>1, StopKeepsRows DEF PauseForReconciliation, Stop, CoreInv, Pauses
  <2> QED BY <2>2, GotoKeepsCore
<1> QED BY <1>1, <1>2, <1>3, <1>4, <1>5 DEF CallStep

\* The scheduler looks for work again.
LEMMA IdleKeepsCore ==
    ASSUME CoreInv, RowsInv', NEW n \in 0..MaxNetworkRetries, GotoIdle(n),
           tasks' \in [Runs -> Nat]
    PROVE  CoreInv'
BY DEF GotoIdle, CoreInv, TypeOK, RowsInv, ProcessTypeOK, SchedulerOwnsItsRun, Places

\* Writing status, error, maintenance or the count of fixes of the workflow.
LEMMA WorkflowFieldsKeepRows ==
    ASSUME RowsInv, NEW st \in {"active", "paused"}, NEW err \in BOOLEAN,
           NEW maint \in BOOLEAN, NEW fixes \in Nat, WriteWorkflow(st, err, maint, fixes)
    PROVE  RowsInv'
<1>1. EMMTypeOK'
  BY DEF WriteWorkflow, RowsInv, EMMTypeOK
<1> QED BY <1>1, OtherFieldsKeepRows DEF WriteWorkflow

\* blockWorkflow, with and without clearing the pending retry.
LEMMA BlockKeepsRows ==
    ASSUME RowsInv, NEW b \in BOOLEAN, BlockWorkflow(b)
    PROVE  RowsInv'
<1>1. EMMTypeOK'
  BY DEF BlockWorkflow, RowsInv, EMMTypeOK
<1> QED BY <1>1, OtherFieldsKeepRows DEF BlockWorkflow

\* A maintainer task more.
LEMMA OpenTaskKeepsType ==
    ASSUME tasks \in [Runs -> Nat], NEW r \in Runs, OpenTask(r)
    PROVE  tasks' \in [Runs -> Nat]
<1>1. tasks[r] + 1 \in Nat
  OBVIOUS
<1> QED BY <1>1 DEF OpenTask

\* A maintainer task less.
LEMMA CloseTaskKeepsType ==
    ASSUME tasks \in [Runs -> Nat], NEW r \in Runs, CloseTask(r)
    PROVE  tasks' \in [Runs -> Nat]
<1>1. tasks[r] - 1 \in Nat
  BY DEF CloseTask
<1> QED BY <1>1 DEF CloseTask

\* Booking the result of a session.
LEMMA PostKeepsCore == CoreInv /\ PostStep => CoreInv'
<1> SUFFICES ASSUME CoreInv, PostStep PROVE CoreInv'
  OBVIOUS
<1>0. /\ wfStatus \in {"active", "paused"} /\ wfError \in BOOLEAN /\ maintenance \in BOOLEAN
      /\ fixCount \in Nat /\ fixCount + 1 \in Nat
      /\ retryCount \in 0..MaxNetworkRetries /\ tasks \in [Runs -> Nat]
  BY DEF CoreInv, TypeOK, EMMTypeOK, ProcessTypeOK
<1>1. CASE PostCompleted
  <2>1. RowsInv'
    BY <1>0, <1>1, WorkflowFieldsKeepRows DEF PostCompleted, ResetMaintenanceFixCount, CoreInv
  <2> QED BY <1>0, <1>1, <2>1, ZeroInRanges, IdleKeepsCore DEF PostCompleted
<1>2. CASE PostTransient
  <2>1. CASE retryCount + 1 > MaxNetworkRetries
    <3>1. BlockWorkflow(TRUE) /\ GotoIdle(0) /\ tasks' = tasks
      BY <1>2, <2>1 DEF PostTransient
    <3>2. RowsInv'
      BY <3>1, BlockKeepsRows DEF CoreInv
    <3> QED BY <1>0, <3>1, <3>2, ZeroInRanges, IdleKeepsCore
  <2>2. CASE ~(retryCount + 1 > MaxNetworkRetries)
    <3>1. UNCHANGED emmVars /\ GotoIdle(retryCount + 1) /\ tasks' = tasks
      BY <1>2, <2>2 DEF PostTransient
    <3>2. RowsInv'
      BY <3>1, OtherFieldsKeepRows DEF emmVars, CoreInv, RowsInv, EMMTypeOK
    <3>3. retryCount + 1 \in 0..MaxNetworkRetries
      BY <1>0, <2>2, LimitsAssumption
    <3> QED BY <1>0, <3>1, <3>2, <3>3, IdleKeepsCore
  <2> QED BY <2>1, <2>2
<1>3. CASE PostAttention
  <2>1. RowsInv'
    BY <1>3, OtherFieldsKeepRows DEF PostAttention, emmVars, CoreInv, RowsInv, EMMTypeOK
  <2> QED BY <1>0, <1>3, <2>1, ZeroInRanges, IdleKeepsCore DEF PostAttention
<1>4. CASE PostMaintenance
  <2>1. RowsInv'
    BY <1>0, <1>4, WorkflowFieldsKeepRows DEF PostMaintenance, EnterMaintenanceMode, CoreInv
  <2>2. tasks' \in [Runs -> Nat]
    BY <1>0, <1>4, OpenTaskKeepsType DEF PostMaintenance, CoreInv, TypeOK, ProcessTypeOK
  <2> QED BY <1>4, <2>1, <2>2, ZeroInRanges, IdleKeepsCore DEF PostMaintenance
<1>5. CASE Escalate
  <2>1. RowsInv' /\ Goto("escalating")
    BY <1>5, BlockKeepsRows DEF Escalate, CoreInv
  <2> QED BY <2>1, GotoKeepsCore
<1>6. CASE EscalateExitMaintenance
  <2>1. RowsInv' /\ Goto("exiting")
    BY <1>0, <1>6, WorkflowFieldsKeepRows DEF EscalateExitMaintenance, ExitMaintenanceMode, CoreInv
  <2> QED BY <2>1, GotoKeepsCore
<1>7. CASE EscalateResetCount
  <2>1. RowsInv'
    BY <1>0, <1>7, WorkflowFieldsKeepRows DEF EscalateResetCount, ResetMaintenanceFixCount, CoreInv
  <2> QED BY <1>0, <1>7, <2>1, ZeroInRanges, IdleKeepsCore DEF EscalateResetCount
<1> QED BY <1>1, <1>2, <1>3, <1>4, <1>5, <1>6, <1>7 DEF PostStep

\* Another process resolves an uncertain mutation; it is not in flight, so it
\* is not the mutation of a tool call in progress.
LEMMA OthersMutationKeepsCore ==
    ASSUME CoreInv, NEW r \in Runs, mut[r] \in {"needs_reconcile", "indeterminate"},
           \/ Resolution(r)
           \/ \E m \in UnresolvedMutations : UpdateMutationStatus(r, m)
           \/ ScheduleNextReconcile(r) /\ attempts[r] < MaxAttempts,
           UNCHANGED engineVars
    PROVE  CoreInv'
<1>1. RowsInv'
  <2>1. CASE Resolution(r)
    BY <2>1, ResolutionKeepsRows DEF CoreInv, UnresolvedMutations
  <2>2. CASE \E m \in UnresolvedMutations : UpdateMutationStatus(r, m)
    BY <2>2, RelabelKeepsRows DEF CoreInv, UnresolvedMutations
  <2>3. CASE ScheduleNextReconcile(r) /\ attempts[r] < MaxAttempts
    <3>1. attempts[r] \in 0..MaxAttempts
      BY DEF CoreInv, TypeOK, EMMTypeOK
    <3>2. attempts[r] + 1 \in 0..MaxAttempts
      BY <2>3, <3>1, MaxAttemptsAssumption
    <3>3. EMMTypeOK'
      BY <2>3, <3>2 DEF ScheduleNextReconcile, CoreInv, TypeOK, EMMTypeOK
    <3> QED BY <2>3, <3>3, OtherFieldsKeepRows DEF ScheduleNextReconcile, CoreInv
  <2> QED BY <2>1, <2>2, <2>3
<1>2. status' = status
  BY DEF Resolution, ApplyMutation, FailMutation, ResolveMutationFailed, ResolveMutationSkipped,
     ResolveRun, UpdateMutationStatus, ScheduleNextReconcile
<1>3. \A q \in Runs : q # r => mut'[q] = mut[q]
  BY DEF Resolution, ApplyMutation, FailMutation, ResolveMutationFailed, ResolveMutationSkipped,
     ResolveRun, UpdateMutationStatus, ScheduleNextReconcile, CoreInv, TypeOK, EMMTypeOK
<1>4. ProcessTypeOK' /\ SchedulerOwnsItsRun'
  BY <1>2, <1>3 DEF CoreInv, TypeOK, ProcessTypeOK, SchedulerOwnsItsRun, ActiveRuns, engineVars, taskVars
<1> QED BY <1>1, <1>4 DEF CoreInv, TypeOK, RowsInv

\* Crash, reconciliation, maintainer and user.
LEMMA OthersKeepCore ==
    ASSUME CoreInv,
           \/ Crash
           \/ \E r \in Runs : Reconcile(r) \/ MaintainerFixes(r) \/ MaintainerGivesUp(r)
           \/ UserStep
    PROVE  CoreInv'
<1>0. /\ wfStatus \in {"active", "paused"} /\ wfError \in BOOLEAN /\ maintenance \in BOOLEAN
      /\ fixCount \in Nat /\ tasks \in [Runs -> Nat] /\ crashes \in 0..MaxCrashes
  BY DEF CoreInv, TypeOK, EMMTypeOK, ProcessTypeOK
<1>1. CASE Crash
  <2>1. RowsInv'
    BY <1>1, OtherFieldsKeepRows DEF Crash, CoreInv, RowsInv, EMMTypeOK, emmVars
  <2>2. crashes' \in 0..MaxCrashes
    BY <1>0, <1>1, LimitsAssumption DEF Crash
  <2>3. ProcessTypeOK' /\ SchedulerOwnsItsRun'
    BY <1>1, <2>2, ZeroInRanges
    DEF Crash, taskVars, CoreInv, TypeOK, ProcessTypeOK, SchedulerOwnsItsRun, Places
  <2> QED BY <2>1, <2>3 DEF CoreInv, TypeOK, RowsInv
<1>2. ASSUME NEW r \in Runs, Reconcile(r) PROVE CoreInv'
  BY <1>2, OthersMutationKeepsCore DEF Reconcile, Resolution, UnresolvedMutations
<1>3. ASSUME NEW r \in Runs, MaintainerFixes(r) PROVE CoreInv'
  <2>1. EMMTypeOK' /\ UNCHANGED <<runVars, eventVars, mut>>
    BY <1>3 DEF MaintainerFixes, ActivateScript, emmVars, CoreInv, TypeOK, EMMTypeOK
  <2>2. RowsInv'
    BY <2>1, OtherFieldsKeepRows DEF CoreInv
  <2>3. tasks' \in [Runs -> Nat]
    BY <1>0, <1>3, CloseTaskKeepsType DEF MaintainerFixes
  <2>4. outdated' \subseteq Runs /\ newScript' \in BOOLEAN
    BY <1>3 DEF MaintainerFixes, CoreInv, TypeOK, ProcessTypeOK
  <2>5. ProcessTypeOK' /\ SchedulerOwnsItsRun'
    BY <1>3, <2>1, <2>3, <2>4
    DEF MaintainerFixes, CoreInv, TypeOK, ProcessTypeOK, SchedulerOwnsItsRun, ActiveRuns
  <2> QED BY <2>2, <2>5 DEF CoreInv, TypeOK, RowsInv
<1>4. ASSUME NEW r \in Runs, MaintainerGivesUp(r) PROVE CoreInv'
  <2>1. RowsInv'
    BY <1>0, <1>4, WorkflowFieldsKeepRows DEF MaintainerGivesUp, EscalateMaintainerFailure, CoreInv
  <2>2. tasks' \in [Runs -> Nat]
    BY <1>0, <1>4, CloseTaskKeepsType DEF MaintainerGivesUp
  <2>3. ProcessTypeOK' /\ SchedulerOwnsItsRun'
    BY <1>4, <2>2 DEF MaintainerGivesUp, EscalateMaintainerFailure, WriteWorkflow,
       CoreInv, TypeOK, ProcessTypeOK, SchedulerOwnsItsRun, ActiveRuns
  <2> QED BY <2>1, <2>3 DEF CoreInv, TypeOK, RowsInv
<1>5. CASE UserStep
  <2>1. CASE PauseWorkflow \/ ResumeWorkflow
    <3>1. RowsInv'
      BY <1>0, <2>1, WorkflowFieldsKeepRows DEF PauseWorkflow, ResumeWorkflow, CoreInv
    <3> QED BY <1>5, <2>1, <3>1, PhaseStepKeepsCore
        DEF UserStep, PauseWorkflow, ResumeWorkflow, WriteWorkflow
  <2>2. ASSUME NEW r \in Runs, ResolveMutationFailed(r) \/ ResolveMutationSkipped(r)
        PROVE  CoreInv'
    BY <1>5, <2>2, OthersMutationKeepsCore
    DEF UserStep, Resolution, ResolveMutationFailed, ResolveMutationSkipped
  <2> QED BY <1>5, <2>1, <2>2 DEF UserStep
<1> QED BY <1>1, <1>2, <1>3, <1>4, <1>5

-----------------------------------------------------------------------------
(* The invariant, and the properties that follow from it *)

\* The invariant holds at the start ...
LEMMA InitCore == Init => CoreInv
<1> SUFFICES ASSUME Init PROVE CoreInv
  OBVIOUS
<1>1. ProcessTypeOK /\ SchedulerOwnsItsRun
  BY ZeroInRanges DEF Init, ProcessTypeOK, SchedulerOwnsItsRun, Places
<1> QED BY <1>1, InitRows DEF CoreInv, TypeOK, RowsInv

\* ... and every step of every process keeps it.
LEMMA NextKeepsCore == CoreInv /\ [Next]_vars => CoreInv'
<1> SUFFICES ASSUME CoreInv, [Next]_vars PROVE CoreInv'
  OBVIOUS
<1>1. CASE SchedulerStep
  BY <1>1, StartupKeepsCore, SessionKeepsCore, RunKeepsCore, CallKeepsCore, PostKeepsCore
  DEF SchedulerStep
<1>2. CASE \/ Crash
           \/ \E r \in Runs : Reconcile(r) \/ MaintainerFixes(r) \/ MaintainerGivesUp(r)
           \/ UserStep
  BY <1>2, OthersKeepCore
<1>3. CASE UNCHANGED vars
  <2>1. RowsInv'
    BY <1>3, OtherFieldsKeepRows DEF vars, emmVars, CoreInv, RowsInv, EMMTypeOK
  <2> QED BY <1>3, <2>1, PhaseStepKeepsCore DEF vars, emmVars
<1> QED BY <1>1, <1>2, <1>3 DEF Next

\* In every state of every behaviour, whatever the bounds, the rows and the
\* places of the scheduler agree as the invariant says.
LEMMA CoreInvariance == Spec => []CoreInv
BY InitCore, NextKeepsCore, PTL DEF Spec

\* Every row and every process variable keeps its type: retry counters within
\* their limits, statuses and phases among those the code knows.
THEOREM TypeCorrectness == Spec => []TypeOK
<1>1. CoreInv => TypeOK
  BY DEF CoreInv
<1> QED BY <1>1, CoreInvariance, PTL

\* No failure, crash, recovery, late resolution or click leaves an event locked
\* by a run that neither works on it nor waits for its retry.
THEOREM LocksAccounted == Spec => []LocksAreAccountedFor
<1>1. CoreInv => LocksAreAccountedFor
  BY DEF CoreInv, RowsInv, EventsFitRuns, EventFitsRun, LocksAreAccountedFor, ReservedBy
<1> QED BY <1>1, CoreInvariance, PTL

\* A handled event was named by the prepare of the run that handled it, and
\* that run committed or was skipped.
THEOREM HandledRightly == Spec => []HandledByItsRun
<1>1. CoreInv => HandledByItsRun
  BY DEF CoreInv, RowsInv, EventsFitRuns, EventFitsRun, HandledByItsRun
<1> QED BY <1>1, CoreInvariance, PTL

\* A run commits only with its mutation settled, and it stays settled.
THEOREM CommitsSettled == Spec => []CommitsAreSettled
<1>1. CoreInv => CommitsAreSettled
  BY DEF CoreInv, RowsInv, EMMTypeOK, PhaseFitsMutation, CommitsAreSettled, MutationStates,
     UnresolvedMutations, ResolvedMutations
<1> QED BY <1>1, CoreInvariance, PTL

-----------------------------------------------------------------------------
(* The transactions of a step, with what its caller has tested before *)

\* A step that writes no run, no event and no label of a mutation.
Quiet == UNCHANGED <<runVars, eventVars, mut>>

\* A working run is stopped; with its mutation open it is left to reconciliation.
Stops(r) ==
    /\ status[r] = "active"
    /\ \E s \in Failures \cup Pauses :
          /\ StopRun(r, s)
          /\ mut[r] \in {"in_flight", "needs_reconcile"} => s = "paused:reconciliation"

Creates(r) == \E k \in {"consumer", "producer"}, s \in Runs : CreateHandlerRun(r, k, s)

\* A run that ended and was not retried yet gets its retry r.
Retries(r) ==
    /\ cur \in Runs /\ status[cur] # "active" /\ RetriesOf(cur) = {}
    /\ CreateRetryRun(cur, r)

Advances(r) ==
    /\ status[r] = "active"
    /\ \/ kind[r] = "consumer" /\ AdvancePhase(r, "pending", "preparing")
       \/ kind[r] = "producer" /\ AdvancePhase(r, "pending", "executing")
       \/ AdvancePhase(r, "prepared", "mutating")
       \/ mut[r] = "none" /\ AdvancePhase(r, "mutating", "mutated")
       \/ AdvancePhase(r, "mutated", "emitting")

Prepares(r) ==
    /\ status[r] = "active" /\ kind[r] = "consumer"
    /\ \E S \in SUBSET Events : S \subseteq PendingEvents /\ AdvanceToPrepared(r, S)

Commits(r) ==
    /\ status[r] = "active"
    /\ \/ CommitConsumer(r) /\ phase[r] \in {"prepared", "emitting"}
       \/ CommitProducer(r) /\ phase[r] = "executing"

Calls(r) == status[r] = "active" /\ phase[r] = "mutating" /\ CreateInFlight(r)

\* The mutation of a call in progress becomes uncertain, or one that is
\* uncertain is given to the user.
Relabels(r) ==
    \/ mut[r] = "in_flight" /\ UpdateMutationStatus(r, "needs_reconcile")
    \/ mut[r] \in {"in_flight", "needs_reconcile"} /\ UpdateMutationStatus(r, "indeterminate")

Resolves(r) ==
    \/ mut[r] \in {"in_flight", "needs_reconcile"} /\ (ApplyMutation(r) \/ FailMutation(r))
    \/ ResolveMutationFailed(r)
    \/ ResolveMutationSkipped(r)

Publishes(e) == PublishEvent(e) /\ UNCHANGED <<runVars, mut>>

RunTransaction(r) ==
    \/ Stops(r) \/ Creates(r) \/ Retries(r) \/ Advances(r) \/ Prepares(r)
    \/ Commits(r) \/ Calls(r) \/ Relabels(r) \/ Resolves(r)

Transaction ==
    \/ Quiet
    \/ \E r \in Runs : RunTransaction(r)
    \/ \E e \in Events : Publishes(e)

\* Every step of every process is at most one transaction.
LEMMA StepIsTransaction == CoreInv /\ [Next]_vars => Transaction
<1> SUFFICES ASSUME CoreInv, [Next]_vars PROVE Transaction
  OBVIOUS
<1> USE DEF RunTransaction
<1>0. /\ pc \in {"run", "calling", "pausing"} => cur \in Runs /\ status[cur] = "active"
      /\ pc = "calling" => mut[cur] = "in_flight"
      /\ \A r \in Runs : mut[r] \in UnresolvedMutations => phase[r] = "mutating" /\ outcome[r] = ""
  BY DEF CoreInv, SchedulerOwnsItsRun, RowsInv, PhaseFitsMutation
<1>1. CASE UNCHANGED vars \/ Start \/ PickRetry \/ PickSession \/ RejectSecondRetry \/ RejectPreMutationRetry
  BY <1>1 DEF vars, emmVars, Start, PickRetry, PickSession, RejectSecondRetry, RejectPreMutationRetry,
     Transaction, Quiet
<1>2. CASE FinishStartup \/ CompleteSession \/ \E s \in Runs : RecoverSession(s)
  BY <1>2 DEF FinishStartup, EnterMaintenanceMode, WriteWorkflow, CompleteSession, RecoverSession,
     FinishSession, emmVars, Transaction, Quiet
<1>3. ASSUME NEW r \in Runs, RecoverRun(r) PROVE Transaction
  <2>1. CASE phase[r] = "mutating" /\ outcome[r] = "" /\ mut[r] \in {"in_flight", "needs_reconcile"}
    <3>1. StopRun(r, "paused:reconciliation") /\ status[r] = "active"
      BY <1>3, <2>1 DEF RecoverRun
    <3> QED BY <3>1 DEF Transaction, Stops, Pauses
  <2>2. CASE ~(phase[r] = "mutating" /\ outcome[r] = "" /\ mut[r] \in {"in_flight", "needs_reconcile"})
    <3>1. StopRun(r, "crashed") /\ status[r] = "active"
      BY <1>3, <2>2 DEF RecoverRun
    <3>2. mut[r] \notin {"in_flight", "needs_reconcile"}
      BY <1>0, <2>2 DEF UnresolvedMutations
    <3> QED BY <3>1, <3>2 DEF Transaction, Stops, Failures
  <2> QED BY <2>1, <2>2
<1>4. ASSUME NEW r \in Runs, StartRetry(r) PROVE Transaction
  <2>1. cur \in Runs /\ status[cur] # "active" /\ RetriesOf(cur) = {} /\ CreateRetryRun(cur, r)
    BY <1>4 DEF StartRetry, CoreInv, SchedulerOwnsItsRun, ActiveRuns
  <2> QED BY <2>1 DEF Transaction, Retries
<1>5. ASSUME NEW r \in Runs, NEW k \in {"consumer", "producer"}, StartRun(r, k) PROVE Transaction
  <2>1. PICK s \in Runs : CreateHandlerRun(r, k, s)
    BY <1>5 DEF StartRun, CoreInv, TypeOK, ProcessTypeOK
  <2> QED BY <2>1 DEF Transaction, Creates
<1>6. ASSUME NEW r \in Runs, RunStep(r) PROVE Transaction
  <2> USE DEF Executing
  <2>0. pc = "run" /\ cur = r => status[r] = "active"
    BY <1>0
  <2>1. CASE BeginRun(r) \/ MutateWithoutCall(r)
    BY <2>0, <2>1 DEF BeginRun, MutateWithoutCall, Transaction, Advances
  <2>2. CASE BeginMutating(r) \/ BeginEmitting(r)
    BY <2>0, <2>2 DEF BeginMutating, BeginEmitting, AdvanceToMutating, AdvanceToEmitting, Transaction, Advances
  <2>3. ASSUME NEW e \in ErrorTypes, ScriptFails(r, e) PROVE Transaction
    <3>1. errorTypeToRunStatus[e] \in Failures \cup Pauses
      BY DEF ErrorTypes, errorTypeToRunStatus, Failures, Pauses
    <3>2. StopRun(r, errorTypeToRunStatus[e]) /\ status[r] = "active"
      BY <2>0, <2>3 DEF ScriptFails, Stop
    <3>3. mut[r] \notin {"in_flight", "needs_reconcile"}
      BY <1>0, <2>3 DEF ScriptFails, UnresolvedMutations
    <3> QED BY <3>1, <3>2, <3>3 DEF Transaction, Stops
  <2>4. ASSUME NEW e \in Events, Publish(r, e) PROVE Transaction
    BY <2>4 DEF Publish, Transaction, Publishes
  <2>5. CASE ProducerReturns(r) \/ NothingPrepared(r) \/ NextReturns(r)
    BY <2>0, <2>5 DEF ProducerReturns, NothingPrepared, NextReturns, Transaction, Commits
  <2>6. ASSUME NEW S \in SUBSET Events, PrepareReturns(r, S) PROVE Transaction
    BY <2>0, <2>6 DEF PrepareReturns, Transaction, Prepares
  <2>7. CASE CallMutationTool(r)
    BY <2>0, <2>7 DEF CallMutationTool, Transaction, Calls
  <2>8. CASE ObserveUncertain(r)
    BY <2>8 DEF ObserveUncertain, emmVars, Transaction, Quiet
  <2>9. CASE EmitAfterFailedMutation(r)
    <3>1. StopRun(r, "failed:internal") /\ status[r] = "active" /\ phase[r] = "mutated"
      BY <2>0, <2>9 DEF EmitAfterFailedMutation, Stop
    <3>2. mut[r] \notin {"in_flight", "needs_reconcile"}
      BY <1>0, <3>1 DEF UnresolvedMutations
    <3> QED BY <3>1, <3>2 DEF Transaction, Stops, Failures
  <2> QED BY <1>6, <2>1, <2>2, <2>3, <2>4, <2>5, <2>6, <2>7, <2>8, <2>9 DEF RunStep
<1>7. CASE CallStep
  <2>1. CASE MutationTakesEffect
    BY <2>1 DEF MutationTakesEffect, emmVars, Transaction, Quiet
  <2>2. CASE ToolSucceeds \/ \E e \in ErrorTypes : ToolFails(e)
    BY <1>0, <2>2 DEF ToolSucceeds, ToolFails, Transaction, Resolves
  <2>3. ASSUME NEW e, NEW a, ToolLeavesUncertain(e, a) \/ ScriptSwallowsToolError(e, a)
        PROVE  Transaction
    <3>1. cur \in Runs /\ mut[cur] = "in_flight" /\ HandleUncertainOutcome(cur, a)
      BY <1>0, <2>3 DEF ToolLeavesUncertain, ScriptSwallowsToolError
    <3> QED BY <3>1 DEF HandleUncertainOutcome, Transaction, Resolves, Relabels
  <2>4. CASE PauseForReconciliation
    <3>1. cur \in Runs /\ status[cur] = "active" /\ StopRun(cur, "paused:reconciliation")
      BY <1>0, <2>4 DEF PauseForReconciliation, Stop
    <3> QED BY <3>1 DEF Transaction, Stops, Pauses
  <2> QED BY <1>7, <2>1, <2>2, <2>3, <2>4 DEF CallStep
<1>8. CASE PostStep
  BY <1>8 DEF PostStep, PostCompleted, PostTransient, PostAttention, PostMaintenance, Escalate,
     EscalateExitMaintenance, EscalateResetCount, ResetMaintenanceFixCount, ExitMaintenanceMode,
     EnterMaintenanceMode, WriteWorkflow, BlockWorkflow, emmVars, Transaction, Quiet
<1>9. CASE Crash \/ \E r \in Runs : MaintainerFixes(r) \/ MaintainerGivesUp(r)
  BY <1>9 DEF Crash, MaintainerFixes, MaintainerGivesUp, ActivateScript, EscalateMaintainerFailure,
     WriteWorkflow, emmVars, Transaction, Quiet
<1>10. ASSUME NEW r \in Runs, Reconcile(r) PROVE Transaction
  <2>1. CASE UpdateMutationStatus(r, "indeterminate") \/ ApplyMutation(r) \/ FailMutation(r)
    BY <1>10, <2>1 DEF Reconcile, Transaction, Relabels, Resolves
  <2>2. CASE ScheduleNextReconcile(r)
    BY <2>2 DEF ScheduleNextReconcile, Transaction, Quiet
  <2> QED BY <1>10, <2>1, <2>2 DEF Reconcile
<1>11. CASE UserStep
  BY <1>11 DEF UserStep, PauseWorkflow, ResumeWorkflow, WriteWorkflow, Transaction, Quiet, Resolves
<1> QED BY <1>1, <1>2, <1>3, <1>4, <1>5, <1>6, <1>7, <1>8, <1>9, <1>10, <1>11
        DEF Next, SchedulerStep, StartupStep, SessionStep

-----------------------------------------------------------------------------
(* What no step undoes *)

\* What the two action properties ask of one run.
NoUndo(r) ==
    /\ status[r] \notin {"none", "active"} => status'[r] = status[r]
    /\ mut[r] \in ResolvedMutations => mut'[r] = mut[r] /\ outcome'[r] = outcome[r]
    /\ kind[r] = "consumer" /\ status[r] # "none" => ~Before(phase'[r], phase[r])

\* No phase is before itself, and those a transition leads to come later.
LEMMA PhaseOrderStrict ==
    /\ \A p \in Phases \ {"executing"} : ~Before(p, p)
    /\ \A p, q \in Phases \ {"executing"} :
          Before(p, q) <=> ConsumerPhaseOrder[p] < ConsumerPhaseOrder[q]
    /\ ~Before("preparing", "pending") /\ ~Before("prepared", "preparing")
    /\ ~Before("mutating", "prepared") /\ ~Before("mutated", "mutating")
    /\ ~Before("emitting", "mutated") /\ ~Before("committed", "emitting")
    /\ ~Before("committed", "prepared")
BY DEF ConsumerPhaseOrder, Phases, Before

\* A step that leaves phase, mutations and the outcome alone and stops, if any,
\* a run that is active.
LEMMA SameRowsUndoNothing ==
    ASSUME RowsInv, NEW r \in Runs, UNCHANGED <<phase, mut>>,
           status'[r] = status[r] \/ status[r] \in {"none", "active"},
           outcome'[r] = outcome[r]
    PROVE  NoUndo(r)
BY PhaseOrderStrict DEF NoUndo, RowsInv, EMMTypeOK, PhaseFitsMutation

\* A mutation is resolved from a state that was not, and its run moves forward.
LEMMA ResolutionUndoesNothing ==
    ASSUME RowsInv, NEW q \in Runs, mut[q] \in UnresolvedMutations, Resolution(q),
           NEW r \in Runs
    PROVE  NoUndo(r)
<1>1. /\ phase' = [phase EXCEPT ![q] = "mutated"] /\ status' = status
      /\ \A x \in Runs : x # q => mut'[x] = mut[x] /\ outcome'[x] = outcome[x]
  BY DEF Resolution, ApplyMutation, FailMutation, ResolveMutationFailed, ResolveMutationSkipped,
     ResolveRun, SetPhase, RowsInv, EMMTypeOK
<1>2. phase[q] = "mutating" /\ mut[q] \notin ResolvedMutations
  BY DEF RowsInv, PhaseFitsMutation, UnresolvedMutations, ResolvedMutations
<1>3. kind[r] = "consumer" => phase[r] \in Phases \ {"executing"}
  BY DEF RowsInv, EMMTypeOK, PhaseFitsMutation
<1>4. CASE r = q
  BY <1>1, <1>2, <1>4, PhaseOrderStrict DEF NoUndo, RowsInv, EMMTypeOK
<1>5. CASE r # q
  BY <1>1, <1>3, <1>5, PhaseOrderStrict DEF NoUndo, RowsInv, EMMTypeOK
<1> QED BY <1>4, <1>5

\* A transition of the handler loop goes forward.
LEMMA PhaseStepUndoesNothing ==
    ASSUME RowsInv, NEW q \in Runs, status[q] = "active", NEW to \in Phases,
           phase' = [phase EXCEPT ![q] = to], UNCHANGED <<mut, outcome>>,
           \A x \in Runs : x # q => status'[x] = status[x],
           kind[q] = "consumer" => ~Before(to, phase[q]),
           NEW r \in Runs
    PROVE  NoUndo(r)
<1>1. CASE r = q
  BY <1>1 DEF NoUndo, RowsInv, EMMTypeOK
<1>2. CASE r # q
  BY <1>2, PhaseOrderStrict DEF NoUndo, RowsInv, EMMTypeOK, PhaseFitsMutation
<1> QED BY <1>1, <1>2

\* A row that is created was not in use.
LEMMA FreshRowUndoesNothing ==
    ASSUME RowsInv, NEW q \in Runs, status[q] = "none", mut' = mut,
           \A x \in Runs : x # q =>
              status'[x] = status[x] /\ phase'[x] = phase[x] /\ outcome'[x] = outcome[x],
           NEW r \in Runs
    PROVE  NoUndo(r)
<1>1. mut[q] = "none"
  BY DEF RowsInv, PhaseFitsMutation, Early
<1>2. CASE r = q
  BY <1>1, <1>2 DEF NoUndo, ResolvedMutations
<1>3. CASE r # q
  BY <1>3, PhaseOrderStrict DEF NoUndo, RowsInv, EMMTypeOK, PhaseFitsMutation
<1> QED BY <1>2, <1>3

\* No transaction restarts a run that ended, overwrites a resolution or goes
\* back in the phases of a consumer run.
LEMMA TransactionUndoesNothing ==
    ASSUME CoreInv, NEW q \in Runs, RunTransaction(q), NEW r \in Runs
    PROVE  NoUndo(r)
<1>0. RowsInv
  BY DEF CoreInv
<1>1. CASE Stops(q)
  <2>1. /\ status[q] = "active" /\ UNCHANGED <<phase, mut, outcome>>
        /\ \A x \in Runs : x # q => status'[x] = status[x]
    BY <1>0, <1>1 DEF Stops, StopRun, RowsInv, EMMTypeOK
  <2> QED BY <1>0, <2>1, SameRowsUndoNothing
<1>2. CASE Creates(q) \/ Retries(q)
  <2>1. /\ status[q] = "none" /\ mut' = mut
        /\ \A x \in Runs : x # q =>
              status'[x] = status[x] /\ phase'[x] = phase[x] /\ outcome'[x] = outcome[x]
    BY <1>0, <1>2 DEF Creates, CreateHandlerRun, Retries, CreateRetryRun, RowsInv, EMMTypeOK
  <2> QED BY <1>0, <2>1, FreshRowUndoesNothing
<1>3. CASE Advances(q) \/ Prepares(q) \/ Commits(q)
  <2>1. PICK to \in Phases :
           /\ status[q] = "active" /\ phase' = [phase EXCEPT ![q] = to] /\ UNCHANGED <<mut, outcome>>
           /\ status' = status \/ status' = [status EXCEPT ![q] = "committed"]
           /\ kind[q] = "consumer" => ~Before(to, phase[q])
    <3>1. CASE Advances(q)
      BY <3>1, PhaseOrderStrict DEF Advances, AdvancePhase, SetPhase, Phases
    <3>2. CASE Prepares(q)
      BY <3>2, PhaseOrderStrict DEF Prepares, AdvanceToPrepared, SetPhase, Phases
    <3>3. CASE Commits(q)
      BY <3>3, PhaseOrderStrict DEF Commits, CommitConsumer, CommitProducer, SetPhase, Phases
    <3> QED BY <1>3, <3>1, <3>2, <3>3
  <2>2. \A x \in Runs : x # q => status'[x] = status[x]
    BY <1>0, <2>1 DEF RowsInv, EMMTypeOK
  <2> QED BY <1>0, <2>1, <2>2, PhaseStepUndoesNothing
<1>4. CASE Calls(q) \/ Relabels(q)
  <2>1. /\ mut[q] \notin ResolvedMutations /\ UNCHANGED <<phase, status, outcome>>
        /\ \A x \in Runs : x # q => mut'[x] = mut[x]
    BY <1>0, <1>4 DEF Calls, CreateInFlight, Relabels, UpdateMutationStatus, ResolvedMutations,
       RowsInv, EMMTypeOK
  <2> QED BY <1>0, <2>1, PhaseOrderStrict DEF NoUndo, RowsInv, EMMTypeOK, PhaseFitsMutation
<1>5. CASE Resolves(q)
  <2>1. mut[q] \in UnresolvedMutations /\ Resolution(q)
    BY <1>5 DEF Resolves, Resolution, ResolveMutationFailed, ResolveMutationSkipped, UnresolvedMutations
  <2> QED BY <1>0, <2>1, ResolutionUndoesNothing
<1> QED BY <1>1, <1>2, <1>3, <1>4, <1>5 DEF RunTransaction

\* Nor does any step of any process.
LEMMA NextUndoesNothing ==
    ASSUME CoreInv, [Next]_vars, NEW r \in Runs
    PROVE  NoUndo(r)
<1>0. RowsInv
  BY DEF CoreInv
<1>1. CASE Quiet \/ \E e \in Events : Publishes(e)
  BY <1>0, <1>1, SameRowsUndoNothing DEF Quiet, Publishes
<1> QED BY <1>1, StepIsTransaction, TransactionUndoesNothing DEF Transaction

\* A run that stopped or committed keeps its status, through every recovery,
\* retry, resolution and click.
THEOREM StopsFinal == Spec => StopsAreFinal
<1>1. CoreInv /\ [Next]_vars =>
         [\A r \in Runs : status[r] \notin {"none", "active"} => status'[r] = status[r]]_vars
  BY NextUndoesNothing DEF NoUndo
<1> QED BY <1>1, CoreInvariance, PTL DEF Spec, StopsAreFinal

\* What is recorded of a mutation is final, and no consumer run goes back to an
\* earlier phase.
THEOREM ResolutionsFinal == Spec => ResolutionsAreFinal
<1>1. CoreInv /\ [Next]_vars =>
         [\A r \in Runs :
            /\ mut[r] \in ResolvedMutations =>
                  mut'[r] = mut[r] /\ outcome'[r] = outcome[r]
            /\ kind[r] = "consumer" /\ status[r] # "none" => ~Before(phase'[r], phase[r])]_vars
  BY NextUndoesNothing DEF NoUndo
<1> QED BY <1>1, CoreInvariance, PTL DEF Spec, ResolutionsAreFinal

-----------------------------------------------------------------------------
(* What was recorded before: HistoryInv, transaction by transaction *)

BeforeMutated == {"pending", "preparing", "prepared", "mutating"}

\* The phases of a run whose mutation is open, or done.
LEMMA PhaseOfMutation ==
    ASSUME CoreInv, NEW r \in Runs
    PROVE  /\ mut[r] \in UnresolvedMutations => phase[r] = "mutating" /\ outcome[r] = ""
           /\ outcome[r] \in {"success", "skipped"} => ~PreMutation(r)
           /\ phase[r] \in {"emitting", "committed"} => ~PreMutation(r)
           /\ phase[r] \in BeforeMutated => PreMutation(r)
<1>1. phase[r] \in Phases /\ outcome[r] \in Outcomes
  BY DEF CoreInv, TypeOK, EMMTypeOK
<1>2. /\ mut[r] \in UnresolvedMutations => phase[r] = "mutating"
      /\ phase[r] \in Early \cup {"mutating"} => outcome[r] = ""
      /\ outcome[r] = "failure" => phase[r] = "mutated"
  BY DEF CoreInv, RowsInv, PhaseFitsMutation
<1>3. phase[r] # "executing" => (Before(phase[r], "mutated") <=> phase[r] \in BeforeMutated)
  BY <1>1, PhaseOrder DEF BeforeMutated
<1>4. BeforeMutated \cup {"executing"} = Early \cup {"mutating"}
  BY DEF BeforeMutated, Early
<1>5. outcome[r] \in {"success", "skipped"} => ~PreMutation(r)
  BY <1>2, <1>3, <1>4 DEF PreMutation
<1>6. phase[r] \in {"emitting", "committed"} => ~PreMutation(r)
  BY <1>2, <1>3 DEF PreMutation, BeforeMutated
<1>7. phase[r] \in BeforeMutated => PreMutation(r)
  BY <1>3 DEF PreMutation, BeforeMutated
<1>8. mut[r] \in UnresolvedMutations => outcome[r] = ""
  BY <1>2
<1> QED BY <1>2, <1>5, <1>6, <1>7, <1>8

\* The run that holds an event whose mutation was done has done its own, or
\* calls none.
LEMMA HolderIsDone ==
    ASSUME CoreInv, HistoryInv, NEW x \in Runs, NEW e \in Events, Did(x, e), NEW r \in Runs, evRun[e] = r
    PROVE  ~PreMutation(r) /\ mut[r] \notin UnresolvedMutations
<1>1. r = x \/ retryOf[r] # NoRun
  BY DEF HistoryInv, DoneEventsStay
<1>2. CASE r = x
  <2>1. mut[r] = "applied" /\ outcome[r] = "success"
    BY <1>2 DEF HistoryInv, AppliedIsSuccess, Did
  <2> QED BY <2>1, PhaseOfMutation DEF UnresolvedMutations
<1>3. CASE retryOf[r] # NoRun
  <2>1. mut[r] = "none" /\ phase[r] \in {"emitting", "committed"}
    BY <1>3 DEF HistoryInv, RetriesAreLate
  <2> QED BY <2>1, PhaseOfMutation DEF UnresolvedMutations
<1> QED BY <1>1, <1>2, <1>3

\* The events of a mutation that was done stay where they are, or pass to a
\* retry, and no other mutation is done for them.
LEMMA DoneStays ==
    ASSUME HistoryInv,
           \A x \in Runs, e \in Events : Did(x, e)' => Did(x, e),
           \A x \in Runs, e \in Events : Did(x, e) =>
              /\ evStatus'[e] \in {"reserved", "consumed"}
              /\ (evRun'[e] = evRun[e] /\ retryOf'[evRun[e]] = retryOf[evRun[e]]) \/ retryOf'[evRun'[e]] # NoRun
    PROVE  DoneEventsStay' /\ DoneOnce'
<1>1. DoneEventsStay /\ DoneOnce
  BY DEF HistoryInv
<1> HIDE DEF Did
<1>2. DoneEventsStay'
  BY <1>1 DEF DoneEventsStay
<1>3. DoneOnce'
  BY <1>1 DEF DoneOnce
<1> QED BY <1>2, <1>3

\* A retry stays the only one of its run, and agrees with it.
LEMMA LinearStays ==
    ASSUME CoreInv, HistoryInv, UNCHANGED <<retryOf, outcome, prep>>,
           \A q \in Runs : ~PreMutation(q) => ~PreMutation(q)'
    PROVE  RetriesAreLinear'
<1>1. ASSUME NEW q \in Runs, retryOf[q] # NoRun
      PROVE  /\ ~PreMutation(retryOf[q])'
             /\ outcome[q] = outcome[retryOf[q]] /\ prep[q] = prep[retryOf[q]]
             /\ RetriesOf(retryOf[q]) = {q}
  <2>1. PICK p \in Runs : p = retryOf[q]
    BY <1>1 DEF CoreInv, TypeOK, EMMTypeOK
  <2>2. ~PreMutation(p) /\ outcome[q] = outcome[p] /\ prep[q] = prep[p] /\ RetriesOf(p) = {q}
    BY <1>1, <2>1 DEF HistoryInv, RetriesAreLinear
  <2> QED BY <2>1, <2>2 DEF PreMutation
<1> QED BY <1>1 DEF RetriesAreLinear, RetriesOf

\* Steps that touch nothing of this.
LEMMA QuietKeepsHistory ==
    ASSUME CoreInv, HistoryInv, Quiet
    PROVE  HistoryInv'
<1> USE DEF Quiet
<1>1. RetriesAreLate' /\ AppliedIsSuccess' /\ OpenMutationsAreKept'
  BY DEF HistoryInv, RetriesAreLate, AppliedIsSuccess, OpenMutationsAreKept
<1>2. RetriesAreLinear'
  BY LinearStays DEF PreMutation
<1>3. WorkerHoldsItsEvents'
  BY DEF HistoryInv, WorkerHoldsItsEvents, ActiveRuns, ReservedBy
<1>4. DoneEventsStay' /\ DoneOnce'
  BY DEF HistoryInv, DoneEventsStay, DoneOnce, Did
<1> QED BY <1>1, <1>2, <1>3, <1>4 DEF HistoryInv

\* A run that stops keeps its events if its mutation was done.
LEMMA StopKeepsHistory ==
    ASSUME CoreInv, HistoryInv, NEW r \in Runs, Stops(r)
    PROVE  HistoryInv'
<1>1. PICK s \in Failures \cup Pauses :
          StopRun(r, s) /\ (mut[r] \in {"in_flight", "needs_reconcile"} => s = "paused:reconciliation")
  BY DEF Stops
<1>2. /\ status[r] = "active" /\ status' = [status EXCEPT ![r] = s]
      /\ UNCHANGED <<phase, outcome, retryOf, prep, mut>>
  BY <1>1 DEF Stops, StopRun
<1>3. s \notin {"none", "active"}
  BY DEF Failures, Pauses
<1>4. status \in [Runs -> RunStatuses]
  BY DEF CoreInv, TypeOK, EMMTypeOK
<1>5. RetriesAreLate' /\ AppliedIsSuccess' /\ OpenMutationsAreKept'
  BY <1>1, <1>2, <1>3, <1>4 DEF HistoryInv, RetriesAreLate, AppliedIsSuccess, OpenMutationsAreKept
<1>6. RetriesAreLinear'
  BY <1>2, LinearStays DEF PreMutation
<1>7. \A e \in Events : e \notin ReservedBy(r) \/ ~PreMutation(r) =>
          evStatus'[e] = evStatus[e] /\ evRun'[e] = evRun[e]
  BY <1>1 DEF StopRun, HandleEventDisposition, ReleaseEvents, SetEvents, CoreInv, TypeOK, EMMTypeOK
<1>8. WorkerHoldsItsEvents'
  <2>1. \A x \in ActiveRuns' : x # r /\ x \in ActiveRuns
    BY <1>2, <1>3, <1>4 DEF ActiveRuns
  <2>2. \A x \in ActiveRuns' : ReservedBy(x) \subseteq ReservedBy(x)'
    BY <1>7, <2>1 DEF ReservedBy
  <2> QED BY <1>2, <2>1, <2>2 DEF HistoryInv, WorkerHoldsItsEvents
<1>9. \A x \in Runs, e \in Events : Did(x, e)' => Did(x, e)
  BY <1>2, <1>4 DEF Did
<1>10. \A x \in Runs, e \in Events : Did(x, e) => evStatus'[e] = evStatus[e] /\ evRun'[e] = evRun[e]
  BY <1>7, HolderIsDone DEF ReservedBy
<1>11. DoneEventsStay' /\ DoneOnce'
  BY <1>2, <1>9, <1>10, DoneStays DEF HistoryInv, DoneEventsStay
<1> QED BY <1>5, <1>6, <1>8, <1>11 DEF HistoryInv

\* A run that is created is no retry, has named no event and done no mutation.
LEMMA CreateKeepsHistory ==
    ASSUME CoreInv, HistoryInv, NEW r \in Runs, Creates(r)
    PROVE  HistoryInv'
<1>1. /\ status[r] = "none" /\ status' = [status EXCEPT ![r] = "active"]
      /\ UNCHANGED <<phase, outcome, retryOf, prep, eventVars, mut>>
  BY DEF Creates, CreateHandlerRun
<1>2. status \in [Runs -> RunStatuses]
  BY DEF CoreInv, TypeOK, EMMTypeOK
<1>3. phase[r] = "pending" /\ mut[r] = "none"
  BY <1>1 DEF CoreInv, RowsInv, PhaseFitsMutation, Early
<1>4. RetriesAreLate' /\ AppliedIsSuccess' /\ OpenMutationsAreKept'
  BY <1>1, <1>2 DEF HistoryInv, RetriesAreLate, AppliedIsSuccess, OpenMutationsAreKept
<1>5. RetriesAreLinear'
  BY <1>1, LinearStays DEF PreMutation
<1>6. WorkerHoldsItsEvents'
  BY <1>1, <1>2, <1>3 DEF HistoryInv, WorkerHoldsItsEvents, ActiveRuns, ReservedBy
<1>7. \A x \in Runs, e \in Events : Did(x, e)' => Did(x, e)
  BY <1>1, <1>2 DEF Did
<1>8. DoneEventsStay' /\ DoneOnce'
  BY <1>1, <1>7, DoneStays DEF HistoryInv, DoneEventsStay
<1> QED BY <1>4, <1>5, <1>6, <1>8 DEF HistoryInv

\* A retry takes over what its run named and holds.
LEMMA RetryKeepsHistory ==
    ASSUME CoreInv, HistoryInv, NEW r \in Runs, Retries(r)
    PROVE  HistoryInv'
<1>0. PICK f \in Runs : f = cur
  BY DEF Retries
<1>1. /\ status[f] # "active" /\ RetriesOf(f) = {} /\ IsPostMutation(f)
      /\ status[r] = "none" /\ status' = [status EXCEPT ![r] = "active"]
      /\ phase' = [phase EXCEPT ![r] = "emitting"] /\ outcome' = [outcome EXCEPT ![r] = outcome[f]]
      /\ retryOf' = [retryOf EXCEPT ![r] = f] /\ prep' = [prep EXCEPT ![r] = prep[f]]
      /\ mut' = mut /\ TransferReservations(f, r)
  BY <1>0 DEF Retries, CreateRetryRun
<1>2. /\ status \in [Runs -> RunStatuses] /\ phase \in [Runs -> Phases] /\ outcome \in [Runs -> Outcomes]
      /\ retryOf \in [Runs -> Runs \cup {NoRun}] /\ prep \in [Runs -> SUBSET Events]
      /\ evStatus \in [Events -> EventStates] /\ evRun \in [Events -> Runs \cup {NoRun}]
  BY DEF CoreInv, TypeOK, EMMTypeOK
<1>3. phase[r] = "pending" /\ mut[r] = "none" /\ retryOf[r] = NoRun /\ f # NoRun
  BY <1>1, NoRunAssumption DEF CoreInv, RowsInv, PhaseFitsMutation, Early, HistoryInv, RetriesAreLate
<1>4. ~PreMutation(f) /\ f # r
  <2>1. outcome[f] \in {"success", "skipped"} => ~PreMutation(f)
    BY <1>1, PhaseOfMutation
  <2>2. outcome[f] = "" /\ ~Before(phase[f], "mutated") => ~PreMutation(f)
    BY DEF PreMutation
  <2>3. PreMutation(r)
    BY <1>3, PhaseOfMutation DEF BeforeMutated
  <2> QED BY <1>1, <2>1, <2>2, <2>3 DEF IsPostMutation
<1>5. RetriesAreLate'
  BY <1>1, <1>2, <1>3 DEF HistoryInv, RetriesAreLate
<1>6. AppliedIsSuccess' /\ OpenMutationsAreKept'
  BY <1>1, <1>2, <1>3 DEF HistoryInv, AppliedIsSuccess, OpenMutationsAreKept
<1>7. RetriesAreLinear'
  <2>1. \A x \in Runs : x # r => PreMutation(x)' = PreMutation(x)
    BY <1>1, <1>2 DEF PreMutation
  <2>2. /\ retryOf'[r] = f /\ ~PreMutation(f)'
        /\ outcome'[r] = outcome'[f] /\ prep'[r] = prep'[f] /\ RetriesOf(f)' = {r}
    <3>1. RetriesOf(f)' = {r}
      BY <1>1, <1>2 DEF RetriesOf
    <3> QED BY <1>1, <1>2, <1>4, <2>1, <3>1
  <2>3. ASSUME NEW q \in Runs, q # r, retryOf[q] # NoRun, NEW p \in Runs, p = retryOf[q]
        PROVE  /\ retryOf'[q] = p /\ ~PreMutation(p)'
               /\ outcome'[q] = outcome'[p] /\ prep'[q] = prep'[p] /\ RetriesOf(p)' = {q}
    <3>1. status[p] # "none"
      BY <2>3 DEF CoreInv, RowsInv, RetriesOfEnded
    <3>2. p # r /\ p # f
      BY <1>1, <2>3, <3>1 DEF RetriesOf
    <3>3. ~PreMutation(p) /\ outcome[q] = outcome[p] /\ prep[q] = prep[p] /\ RetriesOf(p) = {q}
      BY <2>3 DEF HistoryInv, RetriesAreLinear
    <3>4. RetriesOf(p)' = {q}
      <4>1. \A x \in Runs : retryOf'[x] = p <=> retryOf[x] = p
        BY <1>1, <1>2, <1>3, <3>2, NoRunAssumption
      <4> QED BY <3>3, <4>1 DEF RetriesOf
    <3> QED BY <1>1, <1>2, <2>1, <2>3, <3>2, <3>3, <3>4
  <2>4. ASSUME NEW q \in Runs, retryOf'[q] # NoRun
        PROVE  \E p \in Runs : /\ retryOf'[q] = p /\ ~PreMutation(p)'
                              /\ outcome'[q] = outcome'[p] /\ prep'[q] = prep'[p] /\ RetriesOf(p)' = {q}
    <3>1. CASE q = r
      BY <2>2, <3>1
    <3>2. CASE q # r
      <4>1. retryOf[q] \in Runs /\ retryOf[q] # NoRun
        BY <1>1, <1>2, <2>4, <3>2
      <4> QED BY <2>3, <3>2, <4>1
    <3> QED BY <3>1, <3>2
  <2> QED BY <2>4 DEF RetriesAreLinear, PreMutation, RetriesOf
<1>8. \A e \in Events : /\ e \notin ReservedBy(f) => evStatus'[e] = evStatus[e] /\ evRun'[e] = evRun[e]
                        /\ e \in ReservedBy(f) => evStatus'[e] = "reserved" /\ evRun'[e] = r
  BY <1>1 DEF TransferReservations, SetEvents
<1>9. WorkerHoldsItsEvents'
  <2>1. \A x \in ActiveRuns' : x = r \/ (x # f /\ x # r /\ x \in ActiveRuns)
    BY <1>1, <1>2 DEF ActiveRuns
  <2>2. \A x \in Runs : x # f => ReservedBy(x) \subseteq ReservedBy(x)'
    BY <1>8 DEF ReservedBy
  <2>3. phase'[r] = "emitting"
    BY <1>1, <1>2
  <2>4. \A x \in Runs : x # r => phase'[x] = phase[x] /\ prep'[x] = prep[x]
    BY <1>1, <1>2
  <2>5. ActiveRuns' \subseteq Runs
    BY DEF ActiveRuns
  <2> QED BY <2>1, <2>2, <2>3, <2>4, <2>5 DEF HistoryInv, WorkerHoldsItsEvents
<1>10. \A x \in Runs, e \in Events : Did(x, e)' => Did(x, e)
  BY <1>1, <1>2, <1>3 DEF Did
<1>11. ASSUME NEW x \in Runs, NEW e \in Events, Did(x, e)
       PROVE  /\ evStatus'[e] \in {"reserved", "consumed"}
              /\ (evRun'[e] = evRun[e] /\ retryOf'[evRun[e]] = retryOf[evRun[e]]) \/ retryOf'[evRun'[e]] # NoRun
  <2>1. evStatus[e] \in {"reserved", "consumed"} /\ (evRun[e] = x \/ retryOf[evRun[e]] # NoRun)
    BY <1>11 DEF HistoryInv, DoneEventsStay
  <2>2. CASE e \in ReservedBy(f)
    BY <1>1, <1>2, <1>3, <1>8, <2>2
  <2>3. CASE e \notin ReservedBy(f)
    <3>1. evRun[e] # r
      BY <1>3, <1>11, HolderIsDone, PhaseOfMutation DEF BeforeMutated
    <3> QED BY <1>1, <1>2, <1>8, <2>1, <2>3, <3>1
  <2> QED BY <2>2, <2>3
<1>12. DoneEventsStay' /\ DoneOnce'
  BY <1>10, <1>11, DoneStays
<1> QED BY <1>5, <1>6, <1>7, <1>9, <1>12 DEF HistoryInv

\* Advancing a phase leaves rows, retries and events as they are.
LEMMA AdvanceKeepsHistory ==
    ASSUME CoreInv, HistoryInv, NEW r \in Runs, Advances(r)
    PROVE  HistoryInv'
<1>1. PICK to \in Phases :
          /\ status[r] = "active" /\ phase' = [phase EXCEPT ![r] = to]
          /\ \/ phase[r] \in BeforeMutated /\ to \in {"preparing", "executing", "mutated"}
             \/ phase[r] = "prepared" /\ to = "mutating"
             \/ phase[r] = "mutated" /\ to = "emitting"
          /\ UNCHANGED <<status, outcome, retryOf, prep, mut, eventVars>>
  BY DEF Advances, AdvancePhase, SetPhase, Phases, BeforeMutated
<1>2. phase \in [Runs -> Phases] /\ outcome \in [Runs -> Outcomes]
  BY DEF CoreInv, TypeOK, EMMTypeOK
<1>3. \A q \in Runs : ~PreMutation(q) => ~PreMutation(q)'
  <2>1. \A q \in Runs : q # r => PreMutation(q)' = PreMutation(q)
    BY <1>1, <1>2 DEF PreMutation
  <2>2. ~PreMutation(r) => ~PreMutation(r)'
    <3>1. phase[r] \in BeforeMutated => PreMutation(r)
      BY PhaseOfMutation
    <3>2. phase[r] = "prepared" => PreMutation(r)
      BY <3>1 DEF BeforeMutated
    <3>3. ~Before("emitting", "mutated")
      BY PhaseOrder DEF Phases
    <3>4. phase[r] = "mutated" /\ ~PreMutation(r) => ~PreMutation(r)'
      BY <1>1, <1>2, <3>3 DEF PreMutation, BeforeMutated
    <3> QED BY <1>1, <3>1, <3>2, <3>4
  <2> QED BY <2>1, <2>2
<1>4. RetriesAreLinear'
  BY <1>1, <1>3, LinearStays
<1>5. retryOf[r] # NoRun => phase[r] \in {"emitting", "committed"}
  BY DEF HistoryInv, RetriesAreLate
<1>6. RetriesAreLate'
  BY <1>1, <1>2, <1>5 DEF HistoryInv, RetriesAreLate, BeforeMutated
<1>7. AppliedIsSuccess' /\ OpenMutationsAreKept'
  BY <1>1 DEF HistoryInv, AppliedIsSuccess, OpenMutationsAreKept
<1>8. WorkerHoldsItsEvents'
  BY <1>1, <1>2 DEF HistoryInv, WorkerHoldsItsEvents, ActiveRuns, ReservedBy, BeforeMutated
<1>9. DoneEventsStay' /\ DoneOnce'
  BY <1>1, DoneStays DEF HistoryInv, DoneEventsStay, Did
<1> QED BY <1>4, <1>6, <1>7, <1>8, <1>9 DEF HistoryInv

\* A run reserves all the events it names: they were pending.
LEMMA PrepareKeepsHistory ==
    ASSUME CoreInv, HistoryInv, NEW r \in Runs, Prepares(r)
    PROVE  HistoryInv'
<1>1. PICK S \in SUBSET Events : S \subseteq PendingEvents /\ AdvanceToPrepared(r, S)
  BY DEF Prepares
<1>2. /\ status[r] = "active" /\ phase[r] = "preparing"
      /\ phase' = [phase EXCEPT ![r] = "prepared"] /\ prep' = [prep EXCEPT ![r] = S]
      /\ UNCHANGED <<status, outcome, retryOf, mut>>
  BY <1>1 DEF Prepares, AdvanceToPrepared, SetPhase
<1>3. \A e \in Events : /\ e \in S => evStatus'[e] = "reserved" /\ evRun'[e] = r /\ evStatus[e] = "pending"
                        /\ e \notin S => evStatus'[e] = evStatus[e] /\ evRun'[e] = evRun[e]
  BY <1>1 DEF AdvanceToPrepared, ReserveEvents, SetEvents, PendingEvents
<1>4. /\ phase \in [Runs -> Phases] /\ outcome \in [Runs -> Outcomes] /\ prep \in [Runs -> SUBSET Events]
      /\ retryOf \in [Runs -> Runs \cup {NoRun}]
  BY DEF CoreInv, TypeOK, EMMTypeOK
<1>5. retryOf[r] = NoRun /\ mut[r] = "none"
  BY <1>2 DEF HistoryInv, RetriesAreLate, CoreInv, RowsInv, PhaseFitsMutation, Early
<1>6. RetriesAreLate' /\ AppliedIsSuccess' /\ OpenMutationsAreKept'
  BY <1>2, <1>4, <1>5 DEF HistoryInv, RetriesAreLate, AppliedIsSuccess, OpenMutationsAreKept
<1>7. RetriesAreLinear'
  <2>1. \A q \in Runs : q # r => PreMutation(q)' = PreMutation(q)
    BY <1>2, <1>4 DEF PreMutation
  <2>2. ASSUME NEW q \in Runs, retryOf[q] # NoRun
        PROVE  /\ ~PreMutation(retryOf[q])'
               /\ outcome[q] = outcome[retryOf[q]] /\ prep'[q] = prep'[retryOf[q]]
               /\ RetriesOf(retryOf[q]) = {q}
    <3>1. PICK p \in Runs : p = retryOf[q]
      BY <1>4, <2>2
    <3>2. ~PreMutation(p) /\ outcome[q] = outcome[p] /\ prep[q] = prep[p] /\ RetriesOf(p) = {q}
      BY <2>2, <3>1 DEF HistoryInv, RetriesAreLinear
    <3>3. PreMutation(r)
      BY <1>2, PhaseOfMutation DEF BeforeMutated
    <3>4. q # r /\ p # r
      BY <1>5, <2>2, <3>2, <3>3
    <3>5. ~PreMutation(p)'
      BY <2>1, <3>2, <3>4
    <3> QED BY <1>2, <1>4, <3>1, <3>2, <3>4, <3>5 DEF PreMutation
  <2> QED BY <1>2, <2>2 DEF RetriesAreLinear, RetriesOf
<1>8. WorkerHoldsItsEvents'
  <2>1. \A x \in Runs : ReservedBy(x) \subseteq ReservedBy(x)'
    BY <1>3 DEF ReservedBy
  <2>2. S \subseteq ReservedBy(r)'
    BY <1>1, <1>3 DEF ReservedBy
  <2>3. \A x \in ActiveRuns : x # r => phase'[x] = phase[x] /\ prep'[x] = prep[x]
    BY <1>2, <1>4 DEF ActiveRuns
  <2>4. prep'[r] = S
    BY <1>2, <1>4
  <2>5. ActiveRuns' = ActiveRuns /\ ActiveRuns \subseteq Runs
    BY <1>2 DEF ActiveRuns
  <2> QED BY <2>1, <2>2, <2>3, <2>4, <2>5 DEF HistoryInv, WorkerHoldsItsEvents
<1>9. \A x \in Runs, e \in Events : Did(x, e)' => Did(x, e)
  BY <1>2, <1>4, <1>5 DEF Did
<1>10. \A x \in Runs, e \in Events : Did(x, e) =>
          evStatus'[e] = evStatus[e] /\ evRun'[e] = evRun[e] /\ evStatus[e] \in {"reserved", "consumed"}
  BY <1>3 DEF HistoryInv, DoneEventsStay
<1>11. DoneEventsStay' /\ DoneOnce'
  BY <1>2, <1>9, <1>10, DoneStays
<1> QED BY <1>6, <1>7, <1>8, <1>11 DEF HistoryInv

\* A run that commits consumes what it holds.
LEMMA CommitKeepsHistory ==
    ASSUME CoreInv, HistoryInv, NEW r \in Runs, Commits(r)
    PROVE  HistoryInv'
<1>1. /\ status[r] = "active" /\ phase[r] \in {"prepared", "emitting", "executing"}
      /\ phase' = [phase EXCEPT ![r] = "committed"] /\ status' = [status EXCEPT ![r] = "committed"]
      /\ UNCHANGED <<outcome, retryOf, prep, mut>>
  BY DEF Commits, CommitConsumer, CommitProducer, SetPhase
<1>2. /\ status \in [Runs -> RunStatuses] /\ phase \in [Runs -> Phases] /\ outcome \in [Runs -> Outcomes]
      /\ evStatus \in [Events -> EventStates] /\ evRun \in [Events -> Runs \cup {NoRun}]
  BY DEF CoreInv, TypeOK, EMMTypeOK
<1>3. mut[r] \notin UnresolvedMutations
  BY <1>1, PhaseOfMutation
<1>4. \A e \in Events : /\ evRun'[e] = evRun[e]
                        /\ evStatus'[e] = evStatus[e] \/ (e \in ReservedBy(r) /\ evStatus'[e] = "consumed")
  BY <1>2 DEF Commits, CommitConsumer, CommitProducer, ConsumeEvents, SetEvents, ReservedBy
<1>5. RetriesAreLate' /\ AppliedIsSuccess' /\ OpenMutationsAreKept'
  BY <1>1, <1>2, <1>3 DEF HistoryInv, RetriesAreLate, AppliedIsSuccess, OpenMutationsAreKept, UnresolvedMutations
<1>6. RetriesAreLinear'
  <2>1. \A q \in Runs : q # r => PreMutation(q)' = PreMutation(q)
    BY <1>1, <1>2 DEF PreMutation
  <2>2. ~PreMutation(r) => ~PreMutation(r)'
    <3>1. ~Before("committed", "mutated")
      BY PhaseOrder DEF Phases
    <3> QED BY <1>1, <1>2, <3>1 DEF PreMutation
  <2> QED BY <1>1, <2>1, <2>2, LinearStays
<1>7. WorkerHoldsItsEvents'
  <2>1. \A x \in ActiveRuns' : x # r /\ x \in ActiveRuns /\ phase'[x] = phase[x]
    BY <1>1, <1>2 DEF ActiveRuns
  <2>2. \A x \in Runs : x # r => ReservedBy(x) \subseteq ReservedBy(x)'
    BY <1>4 DEF ReservedBy
  <2>3. ActiveRuns \subseteq Runs
    BY DEF ActiveRuns
  <2> QED BY <1>1, <2>1, <2>2, <2>3 DEF HistoryInv, WorkerHoldsItsEvents
<1>8. \A x \in Runs, e \in Events : Did(x, e)' => Did(x, e)
  BY <1>1, <1>2 DEF Did
<1>9. DoneEventsStay' /\ DoneOnce'
  BY <1>1, <1>4, <1>8, DoneStays DEF HistoryInv, DoneEventsStay
<1> QED BY <1>5, <1>6, <1>7, <1>9 DEF HistoryInv

\* A call is recorded, or becomes uncertain: nothing is done by that.
LEMMA LabelKeepsHistory ==
    ASSUME CoreInv, HistoryInv, NEW r \in Runs, Calls(r) \/ Relabels(r)
    PROVE  HistoryInv'
<1>1. PICK m \in UnresolvedMutations :
          /\ mut' = [mut EXCEPT ![r] = m]
          /\ UNCHANGED <<phase, status, outcome, retryOf, prep, eventVars>>
          /\ mut[r] = "none" \/ mut[r] \in {"in_flight", "needs_reconcile"}
  BY DEF Calls, Relabels, CreateInFlight, UpdateMutationStatus, UnresolvedMutations
<1>2. mut \in [Runs -> MutationStates]
  BY DEF CoreInv, TypeOK, EMMTypeOK
<1>3. phase[r] = "mutating" /\ status[r] \in {"active", "paused:reconciliation"}
  <2>1. CASE Calls(r)
    BY <2>1 DEF Calls
  <2>2. CASE Relabels(r)
    BY <2>2, PhaseOfMutation DEF Relabels, UnresolvedMutations, HistoryInv, OpenMutationsAreKept
  <2> QED BY <2>1, <2>2
<1>4. RetriesAreLate' /\ AppliedIsSuccess' /\ OpenMutationsAreKept'
  BY <1>1, <1>2, <1>3 DEF HistoryInv, RetriesAreLate, AppliedIsSuccess, OpenMutationsAreKept, UnresolvedMutations
<1>5. RetriesAreLinear'
  BY <1>1, LinearStays DEF PreMutation
<1>6. WorkerHoldsItsEvents'
  BY <1>1 DEF HistoryInv, WorkerHoldsItsEvents, ActiveRuns, ReservedBy
<1>7. \A x \in Runs, e \in Events : Did(x, e)' => Did(x, e)
  BY <1>1, <1>2 DEF Did, UnresolvedMutations
<1>8. DoneEventsStay' /\ DoneOnce'
  BY <1>1, <1>7, DoneStays DEF HistoryInv, DoneEventsStay
<1> QED BY <1>4, <1>5, <1>6, <1>8 DEF HistoryInv

\* A mutation that is recorded as applied was made by a run that holds all its
\* events, or that is paused for it.
LEMMA ResolutionKeepsHistory ==
    ASSUME CoreInv, HistoryInv, NEW r \in Runs, Resolves(r)
    PROVE  HistoryInv'
<1>1. PICK m \in ResolvedMutations, o \in Outcomes :
          /\ mut' = [mut EXCEPT ![r] = m] /\ outcome' = [outcome EXCEPT ![r] = o]
          /\ phase' = [phase EXCEPT ![r] = "mutated"]
          /\ UNCHANGED <<status, retryOf, prep>>
          /\ m = "applied" => /\ o = "success" /\ UNCHANGED eventVars
                              /\ mut[r] \in {"in_flight", "needs_reconcile"}
  BY DEF Resolves, ApplyMutation, FailMutation, ResolveMutationFailed, ResolveMutationSkipped, ResolveRun,
     SetPhase, ResolvedMutations, Outcomes
<1>2. /\ mut \in [Runs -> MutationStates] /\ outcome \in [Runs -> Outcomes] /\ phase \in [Runs -> Phases]
      /\ evStatus \in [Events -> EventStates] /\ evRun \in [Events -> Runs \cup {NoRun}]
      /\ retryOf \in [Runs -> Runs \cup {NoRun}]
  BY DEF CoreInv, TypeOK, EMMTypeOK
<1>3. mut[r] \in UnresolvedMutations
  BY DEF Resolves, ResolveMutationFailed, ResolveMutationSkipped, UnresolvedMutations
<1>4. phase[r] = "mutating" /\ PreMutation(r)
  BY <1>3, PhaseOfMutation DEF BeforeMutated
<1>5. \A e \in Events : e \notin ReservedBy(r) => evStatus'[e] = evStatus[e] /\ evRun'[e] = evRun[e]
  BY <1>2 DEF Resolves, ApplyMutation, FailMutation, ResolveMutationFailed, ResolveMutationSkipped,
     ReleaseEvents, SkipEvents, SetEvents
<1>6. retryOf[r] = NoRun
  BY <1>4 DEF HistoryInv, RetriesAreLate
<1>7. RetriesAreLate' /\ AppliedIsSuccess' /\ OpenMutationsAreKept'
  BY <1>1, <1>2, <1>6 DEF HistoryInv, RetriesAreLate, AppliedIsSuccess, OpenMutationsAreKept, ResolvedMutations
<1>8. RetriesAreLinear'
  <2>1. \A q \in Runs : q # r => PreMutation(q)' = PreMutation(q)
    BY <1>1, <1>2 DEF PreMutation
  <2>2. ASSUME NEW q \in Runs, retryOf[q] # NoRun
        PROVE  /\ ~PreMutation(retryOf[q])'
               /\ outcome'[q] = outcome'[retryOf[q]] /\ prep[q] = prep[retryOf[q]]
               /\ RetriesOf(retryOf[q]) = {q}
    <3>1. PICK p \in Runs : p = retryOf[q]
      BY <1>2, <2>2
    <3>2. ~PreMutation(p) /\ outcome[q] = outcome[p] /\ prep[q] = prep[p] /\ RetriesOf(p) = {q}
      BY <2>2, <3>1 DEF HistoryInv, RetriesAreLinear
    <3>3. q # r /\ p # r
      BY <1>4, <1>6, <2>2, <3>2
    <3>4. ~PreMutation(p)'
      BY <2>1, <3>2, <3>3
    <3> QED BY <1>1, <1>2, <3>1, <3>2, <3>3, <3>4 DEF PreMutation
  <2> QED BY <1>1, <2>2 DEF RetriesAreLinear, RetriesOf
<1>9. WorkerHoldsItsEvents'
  <2>1. ActiveRuns' = ActiveRuns /\ ActiveRuns \subseteq Runs /\ phase'[r] = "mutated"
    BY <1>1, <1>2 DEF ActiveRuns
  <2>2. \A x \in Runs : x # r => ReservedBy(x) \subseteq ReservedBy(x)' /\ phase'[x] = phase[x]
    BY <1>1, <1>2, <1>5 DEF ReservedBy
  <2> QED BY <1>1, <2>1, <2>2 DEF HistoryInv, WorkerHoldsItsEvents
<1>10. \A x \in Runs, e \in Events : Did(x, e) =>
          evStatus'[e] = evStatus[e] /\ evRun'[e] = evRun[e] /\ evRun[e] # r
  BY <1>3, <1>5, HolderIsDone DEF ReservedBy
<1>11. CASE m # "applied"
  <2>1. \A x \in Runs, e \in Events : Did(x, e)' => Did(x, e)
    BY <1>1, <1>2, <1>11 DEF Did
  <2>2. DoneEventsStay' /\ DoneOnce'
    BY <1>1, <1>10, <2>1, DoneStays DEF HistoryInv, DoneEventsStay
  <2> QED BY <1>7, <1>8, <1>9, <2>2 DEF HistoryInv
<1>12. CASE m = "applied"
  <2>1. \A x \in Runs, e \in Events : Did(x, e)' => x = r \/ Did(x, e)
    BY <1>1, <1>2 DEF Did
  <2>2. \A e \in Events : Did(r, e)' => e \in ReservedBy(r)
    BY <1>1, <1>4, <1>12 DEF Did, HistoryInv, OpenMutationsAreKept, WorkerHoldsItsEvents, ActiveRuns
  <2>3. UNCHANGED <<eventVars, retryOf>>
    BY <1>1, <1>12
  <2> HIDE DEF Did
  <2>4. DoneEventsStay'
    BY <2>1, <2>2, <2>3 DEF HistoryInv, DoneEventsStay, ReservedBy
  <2>5. DoneOnce'
    <3>1. \A x \in Runs, e \in Events : Did(x, e) => e \notin ReservedBy(r)
      BY <1>10 DEF ReservedBy
    <3> QED BY <2>1, <2>2, <3>1 DEF HistoryInv, DoneOnce
  <2> QED BY <1>7, <1>8, <1>9, <2>4, <2>5 DEF HistoryInv
<1> QED BY <1>11, <1>12

\* A published event was never named.
LEMMA PublishKeepsHistory ==
    ASSUME CoreInv, HistoryInv, NEW e \in Events, Publishes(e)
    PROVE  HistoryInv'
<1>1. /\ evStatus[e] = "absent" /\ evStatus' = [evStatus EXCEPT ![e] = "pending"] /\ evRun' = evRun
      /\ UNCHANGED <<phase, status, outcome, retryOf, prep, mut>>
  BY DEF Publishes, PublishEvent
<1>2. RetriesAreLate' /\ AppliedIsSuccess' /\ OpenMutationsAreKept'
  BY <1>1 DEF HistoryInv, RetriesAreLate, AppliedIsSuccess, OpenMutationsAreKept
<1>3. RetriesAreLinear'
  BY <1>1, LinearStays DEF PreMutation
<1>4. evStatus \in [Events -> EventStates]
  BY DEF CoreInv, TypeOK, EMMTypeOK
<1>5. \A d \in Events : evStatus[d] # "absent" => evStatus'[d] = evStatus[d]
  BY <1>1, <1>4
<1>6. WorkerHoldsItsEvents'
  BY <1>1, <1>5 DEF HistoryInv, WorkerHoldsItsEvents, ActiveRuns, ReservedBy
<1>7. \A x \in Runs, d \in Events : Did(x, d)' => Did(x, d)
  BY <1>1 DEF Did
<1>8. DoneEventsStay' /\ DoneOnce'
  BY <1>1, <1>5, <1>7, DoneStays DEF HistoryInv, DoneEventsStay
<1> QED BY <1>2, <1>3, <1>6, <1>8 DEF HistoryInv

\* No step of any process forgets what was done, or does it twice.
LEMMA NextKeepsHistory == CoreInv /\ HistoryInv /\ [Next]_vars => HistoryInv'
BY StepIsTransaction, QuietKeepsHistory, StopKeepsHistory, CreateKeepsHistory, RetryKeepsHistory,
   AdvanceKeepsHistory, PrepareKeepsHistory, CommitKeepsHistory, LabelKeepsHistory, ResolutionKeepsHistory,
   PublishKeepsHistory DEF Transaction, RunTransaction

-----------------------------------------------------------------------------
(* Sessions: what a step does to the status of runs, to their sessions and   *)
(* to the place of the scheduler                                             *)

\* No run starts or ends; the scheduler moves on, or crashes.
Moves ==
    /\ UNCHANGED <<status, sessionOf, sessionEnd>>
    /\ \/ UNCHANGED <<pc, cur, session>>
       \/ /\ pc \in {"run", "calling"} /\ pc' \in {"run", "calling", "pausing"}
          /\ UNCHANGED <<cur, session>>
       \/ pc' = "down" /\ session' = NoRun
       \/ pc = "down" /\ pc' = "recovering" /\ UNCHANGED session
       \/ pc' = "idle" /\ session' = NoRun /\ ActiveRuns = {}
       \/ pc = "idle" /\ pc' \in {"retry", "session"} /\ UNCHANGED session
       \/ pc' \in {"post", "escalating", "exiting"} /\ ActiveRuns = {}

\* A working run stops: the one of the scheduler, or one left by a crash.
Ends(r) ==
    /\ status[r] = "active"
    /\ \E s \in Failures \cup Pauses : status' = [status EXCEPT ![r] = s]
    /\ FinalizeSession(r)
    /\ UNCHANGED sessionOf
    /\ (pc = "recovering" /\ UNCHANGED <<pc, session>>) \/ pc' = "post"

\* A run is created, in a session of its own or in the one at hand.
Opens(r, s) ==
    /\ status[r] = "none"
    /\ \/ s = r /\ pc \in {"retry", "session"}
       \/ s = session /\ session # NoRun /\ pc = "session"
    /\ status' = [status EXCEPT ![r] = "active"]
    /\ sessionOf' = [sessionOf EXCEPT ![r] = s]
    /\ sessionEnd' = [sessionEnd EXCEPT ![s] = "open"]
    /\ pc' = "run" /\ cur' = r /\ session' = s

\* The run at hand commits.
GoesOn ==
    /\ pc = "run"
    /\ status' = [status EXCEPT ![cur] = "committed"]
    /\ pc' = "session"
    /\ UNCHANGED <<sessionOf, sessionEnd, session>>

\* A session whose runs all committed is completed.
Completes(s) ==
    /\ ActiveRuns = {}
    /\ \A q \in RunsOfSession(s) : status[q] = "committed"
    /\ sessionEnd' = [sessionEnd EXCEPT ![s] = "completed"]
    /\ UNCHANGED <<status, sessionOf>>
    /\ (pc = "recovering" /\ UNCHANGED <<pc, session>>) \/ pc' = "post"

SessionChange ==
    \/ Moves
    \/ \E r \in Runs : Ends(r)
    \/ \E r, s \in Runs : Opens(r, s)
    \/ GoesOn
    \/ \E s \in Runs : Completes(s)

\* A step of the handler of the run at hand changes its session in one of the
\* ways above.
LEMMA RunStepChangesSession ==
  ASSUME CoreInv, NEW r \in Runs, RunStep(r) PROVE SessionChange
<1> USE DEF Executing
<1>0. pc \in {"run", "calling", "pausing"} => cur \in Runs /\ status[cur] = "active"
  BY DEF CoreInv, SchedulerOwnsItsRun
<1>1. CASE BeginRun(r) \/ MutateWithoutCall(r)
  BY <1>1 DEF BeginRun, MutateWithoutCall, AdvancePhase, engineVars, SessionChange, Moves
<1>2. CASE BeginMutating(r) \/ BeginEmitting(r)
  BY <1>2 DEF BeginMutating, BeginEmitting, AdvanceToMutating, AdvanceToEmitting, AdvancePhase,
     engineVars, SessionChange, Moves
<1>3. ASSUME NEW e \in ErrorTypes, ScriptFails(r, e) PROVE SessionChange
  <2>1. errorTypeToRunStatus[e] \in Failures \cup Pauses
    BY DEF ErrorTypes, errorTypeToRunStatus, Failures, Pauses
  <2> QED BY <1>0, <1>3, <2>1 DEF ScriptFails, Stop, StopRun, Goto, SessionChange, Ends
<1>4. ASSUME NEW e \in Events, Publish(r, e) PROVE SessionChange
  BY <1>4 DEF Publish, engineVars, SessionChange, Moves
<1>5. CASE ProducerReturns(r)
  BY <1>5 DEF ProducerReturns, CommitProducer, GotoSession, SessionChange, GoesOn
<1>6. CASE NothingPrepared(r) \/ NextReturns(r)
  BY <1>6 DEF NothingPrepared, NextReturns, CommitConsumer, GotoSession, SessionChange, GoesOn
<1>7. ASSUME NEW S \in SUBSET Events, PrepareReturns(r, S) PROVE SessionChange
  BY <1>7 DEF PrepareReturns, AdvanceToPrepared, engineVars, SessionChange, Moves
<1>8. CASE CallMutationTool(r)
  BY <1>8 DEF CallMutationTool, CreateInFlight, Goto, SessionChange, Moves
<1>9. CASE ObserveUncertain(r)
  BY <1>9 DEF ObserveUncertain, emmVars, Goto, SessionChange, Moves
<1>10. CASE EmitAfterFailedMutation(r)
  BY <1>0, <1>10 DEF EmitAfterFailedMutation, Stop, StopRun, Goto, SessionChange, Ends, Failures
<1> QED BY <1>1, <1>2, <1>3, <1>4, <1>5, <1>6, <1>7, <1>8, <1>9, <1>10 DEF RunStep

\* So does a step of the tool call.
LEMMA CallStepChangesSession == ASSUME CoreInv, CallStep PROVE SessionChange
<1>0. pc \in {"run", "calling", "pausing"} => cur \in Runs /\ status[cur] = "active"
  BY DEF CoreInv, SchedulerOwnsItsRun
<1>1. CASE MutationTakesEffect
  BY <1>1 DEF MutationTakesEffect, emmVars, SessionChange, Moves
<1>2. CASE ToolSucceeds \/ \E e \in ErrorTypes : ToolFails(e)
  BY <1>2 DEF ToolSucceeds, ToolFails, ApplyMutation, FailMutation, ResolveRun, Goto, SessionChange, Moves
<1>3. ASSUME NEW e, NEW a, ToolLeavesUncertain(e, a) \/ ScriptSwallowsToolError(e, a)
      PROVE  SessionChange
  BY <1>3 DEF ToolLeavesUncertain, ScriptSwallowsToolError, HandleUncertainOutcome, ApplyMutation,
     FailMutation, UpdateMutationStatus, ResolveRun, Goto, SessionChange, Moves
<1>4. CASE PauseForReconciliation
  BY <1>0, <1>4 DEF PauseForReconciliation, Stop, StopRun, Goto, SessionChange, Ends, Pauses
<1> QED BY <1>1, <1>2, <1>3, <1>4 DEF CallStep

\* So does every step of every process.
LEMMA StepChangesSession ==
  ASSUME CoreInv, SessionInv, [Next]_vars PROVE SessionChange
<1>0. /\ pc \notin {"down", "recovering", "run", "calling", "pausing"} => ActiveRuns = {}
      /\ pc = "session" /\ session # NoRun =>
            \A q \in RunsOfSession(session) : q # NoRun => status[q] = "committed"
      /\ pc = "down" => session = NoRun
      /\ session \in Runs \cup {NoRun}
      /\ NoRun \notin Runs
  BY NoRunAssumption DEF SessionInv, OneRunAtATime, SchedulerKeepsItsSession, CommittedBut, CoreInv,
     TypeOK, ProcessTypeOK
<1>1. CASE UNCHANGED vars \/ Start \/ PickRetry \/ PickSession
  BY <1>1 DEF vars, emmVars, engineVars, Start, PickRetry, PickSession, Goto, SessionChange, Moves
<1>2. CASE RejectSecondRetry \/ RejectPreMutationRetry
  BY <1>0, <1>2 DEF RejectSecondRetry, RejectPreMutationRetry, emmVars, GotoIdle, SessionChange, Moves
<1>3. CASE FinishStartup
  BY <1>3 DEF FinishStartup, Recovered, EnterMaintenanceMode, WriteWorkflow, emmVars, GotoIdle,
     SessionChange, Moves
<1>4. CASE CompleteSession
  <2>1. CASE session = NoRun
    BY <1>0, <1>4, <2>1 DEF CompleteSession, emmVars, Goto, SessionChange, Moves
  <2>2. CASE session # NoRun
    <3>1. session \in Runs /\ Completes(session)
      BY <1>0, <1>4, <2>2 DEF CompleteSession, FinishSession, Goto, Completes, RunsOfSession
    <3> QED BY <3>1 DEF SessionChange
  <2> QED BY <2>1, <2>2
<1>5. ASSUME NEW s \in Runs, RecoverSession(s) PROVE SessionChange
  BY <1>5 DEF RecoverSession, UnfinishedSessions, FinishSession, engineVars, SessionChange, Completes
<1>6. ASSUME NEW r \in Runs, RecoverRun(r) PROVE SessionChange
  BY <1>6 DEF RecoverRun, StopRun, engineVars, SessionChange, Ends, Failures, Pauses
<1>7. ASSUME NEW r \in Runs, StartRetry(r) PROVE SessionChange
  BY <1>7 DEF StartRetry, CreateRetryRun, GotoRun, SessionChange, Opens
<1>8. ASSUME NEW r \in Runs, NEW k \in {"consumer", "producer"}, StartRun(r, k) PROVE SessionChange
  <2>1. CASE session = NoRun
    <3>1. Opens(r, r)
      BY <1>8, <2>1 DEF StartRun, CreateHandlerRun, GotoRun, Opens
    <3> QED BY <3>1 DEF SessionChange
  <2>2. CASE session # NoRun
    <3>1. session \in Runs
      BY <1>0, <2>2
    <3>2. Opens(r, session)
      BY <1>8, <2>2 DEF StartRun, CreateHandlerRun, GotoRun, Opens
    <3> QED BY <3>1, <3>2 DEF SessionChange
  <2> QED BY <2>1, <2>2
<1>9. CASE PostStep
  <2> SUFFICES Moves
    BY DEF SessionChange
  <2>1. UNCHANGED <<status, sessionOf, sessionEnd>> /\ pc \in {"post", "escalating", "exiting"}
    BY <1>9 DEF PostStep, PostCompleted, PostTransient, PostAttention, PostMaintenance, Escalate,
       EscalateExitMaintenance, EscalateResetCount, ResetMaintenanceFixCount, ExitMaintenanceMode,
       EnterMaintenanceMode, WriteWorkflow, BlockWorkflow, emmVars
  <2>2. (pc' = "idle" /\ session' = NoRun) \/ pc' \in {"post", "escalating", "exiting"}
    BY <1>9 DEF PostStep, PostCompleted, PostTransient, PostAttention, PostMaintenance, Escalate,
       EscalateExitMaintenance, EscalateResetCount, GotoIdle, Goto
  <2> QED BY <1>0, <2>1, <2>2 DEF Moves
<1>10. CASE Crash
  BY <1>10 DEF Crash, emmVars, SessionChange, Moves
<1>11. CASE UserStep \/ \E r \in Runs : Reconcile(r)
  BY <1>11 DEF UserStep, Reconcile, PauseWorkflow, ResumeWorkflow, WriteWorkflow, ResolveMutationFailed,
     ResolveMutationSkipped, ApplyMutation, FailMutation, UpdateMutationStatus, ScheduleNextReconcile,
     ResolveRun, engineVars, SessionChange, Moves
<1>12. CASE \E r \in Runs : MaintainerFixes(r) \/ MaintainerGivesUp(r)
  BY <1>12 DEF MaintainerFixes, MaintainerGivesUp, ActivateScript, EscalateMaintainerFailure,
     WriteWorkflow, emmVars, SessionChange, Moves
<1> QED BY RunStepChangesSession, CallStepChangesSession, <1>1, <1>2, <1>3, <1>4, <1>5, <1>6, <1>7, <1>8,
           <1>9, <1>10, <1>11, <1>12 DEF Next, SchedulerStep, StartupStep, SessionStep

-----------------------------------------------------------------------------
(* Each of these changes keeps the invariant of the sessions *)

\* Runs have sessions, whatever changes.
LEMMA SessionsRemain ==
  ASSUME CoreInv, RunsHaveSessions, SchedulerKeepsItsSession, SessionChange
  PROVE  RunsHaveSessions'
<1>0. /\ status \in [Runs -> RunStatuses] /\ sessionOf \in [Runs -> Runs \cup {NoRun}]
      /\ NoRun \notin Runs
      /\ pc = "run" => cur \in Runs /\ status[cur] = "active"
      /\ pc = "session" /\ session # NoRun => status[session] # "none"
  BY NoRunAssumption DEF CoreInv, TypeOK, EMMTypeOK, SchedulerOwnsItsRun, SchedulerKeepsItsSession
<1>1. CASE Moves \/ \E s \in Runs : Completes(s)
  BY <1>1 DEF Moves, Completes, RunsHaveSessions
<1>2. ASSUME NEW r \in Runs, Ends(r) PROVE RunsHaveSessions'
  BY <1>0, <1>2 DEF Ends, Failures, Pauses, RunsHaveSessions
<1>3. ASSUME NEW r \in Runs, NEW s \in Runs, Opens(r, s) PROVE RunsHaveSessions'
  <2>1. s # r => s = session /\ session # NoRun /\ pc = "session"
    BY <1>3 DEF Opens
  <2>2. s # r => status[s] # "none"
    BY <1>0, <2>1
  <2> QED BY <1>0, <1>3, <2>2 DEF Opens, RunsHaveSessions
<1>4. CASE GoesOn
  BY <1>0, <1>4 DEF GoesOn, RunsHaveSessions
<1> QED BY <1>1, <1>2, <1>3, <1>4 DEF SessionChange

\* At most one run works, and the scheduler knows which.
LEMMA OneRunRemains ==
  ASSUME CoreInv, OneRunAtATime, SchedulerKeepsItsSession, SessionChange
  PROVE  OneRunAtATime'
<1>0. /\ status \in [Runs -> RunStatuses]
      /\ pc = "run" => cur \in Runs /\ status[cur] = "active"
      /\ \A r, q \in Runs : status[r] = "active" /\ status[q] = "active" => r = q
      /\ pc \in {"retry", "session", "idle"} => \A q \in Runs : status[q] # "active"
  BY DEF CoreInv, TypeOK, EMMTypeOK, SchedulerOwnsItsRun, OneRunAtATime, ActiveRuns
<1>1. CASE Moves
  BY <1>0, <1>1 DEF Moves, OneRunAtATime, ActiveRuns
<1>2. CASE \E s \in Runs : Completes(s)
  BY <1>2 DEF Completes, OneRunAtATime, ActiveRuns
<1>3. ASSUME NEW r \in Runs, Ends(r) PROVE OneRunAtATime'
  <2>1. \A q \in Runs : status'[q] # "active"
    BY <1>0, <1>3 DEF Ends, Failures, Pauses
  <2> QED BY <2>1 DEF OneRunAtATime, ActiveRuns
<1>4. ASSUME NEW r \in Runs, NEW s \in Runs, Opens(r, s) PROVE OneRunAtATime'
  <2>1. \A q \in Runs : status'[q] = "active" => q = r
    BY <1>0, <1>4 DEF Opens
  <2> QED BY <1>4, <2>1 DEF Opens, OneRunAtATime, ActiveRuns
<1>5. CASE GoesOn
  <2>1. \A q \in Runs : status'[q] # "active"
    BY <1>0, <1>5 DEF GoesOn
  <2> QED BY <2>1 DEF OneRunAtATime, ActiveRuns
<1> QED BY <1>1, <1>2, <1>3, <1>4, <1>5 DEF SessionChange

\* The scheduler stays in the session of its run.
LEMMA SchedulerKeepsSession ==
  ASSUME CoreInv, RunsHaveSessions, OneRunAtATime, SchedulerKeepsItsSession, SessionChange
  PROVE  SchedulerKeepsItsSession'
<1> USE DEF CommittedBut, RunsOfSession
<1>0. /\ status \in [Runs -> RunStatuses] /\ sessionOf \in [Runs -> Runs \cup {NoRun}]
      /\ NoRun \notin Runs
      /\ pc \in {"run", "calling", "pausing"} =>
            /\ cur \in Runs /\ status[cur] = "active" /\ session \in Runs
            /\ \A q \in Runs : sessionOf[q] = session /\ q # cur => status[q] = "committed"
  BY NoRunAssumption DEF CoreInv, TypeOK, EMMTypeOK, SchedulerOwnsItsRun, SchedulerKeepsItsSession
<1>1. CASE Moves
  BY <1>1 DEF Moves, SchedulerKeepsItsSession
<1>2. ASSUME NEW r \in Runs, Ends(r) PROVE SchedulerKeepsItsSession'
  BY <1>2 DEF Ends, SchedulerKeepsItsSession
<1>3. ASSUME NEW r \in Runs, NEW s \in Runs, Opens(r, s) PROVE SchedulerKeepsItsSession'
  <2>1. \A q \in Runs : sessionOf[q] = s => status[q] = "committed"
    <3>1. CASE s = r
      BY <1>0, <1>3, <3>1 DEF Opens, RunsHaveSessions
    <3>2. CASE s # r
      BY <1>0, <1>3, <3>2 DEF Opens, SchedulerKeepsItsSession
    <3> QED BY <3>1, <3>2
  <2> QED BY <1>0, <1>3, <2>1 DEF Opens, SchedulerKeepsItsSession
<1>4. CASE GoesOn
  <2>1. status'[session] # "none"
    BY <1>0, <1>4 DEF GoesOn, RunsHaveSessions, SchedulerKeepsItsSession
  <2>2. \A q \in Runs : sessionOf'[q] = session => status'[q] = "committed"
    BY <1>0, <1>4 DEF GoesOn
  <2> QED BY <1>4, <2>1, <2>2 DEF GoesOn, SchedulerKeepsItsSession
<1>5. ASSUME NEW s \in Runs, Completes(s) PROVE SchedulerKeepsItsSession'
  BY <1>5 DEF Completes, SchedulerKeepsItsSession
<1> QED BY <1>1, <1>2, <1>3, <1>4, <1>5 DEF SessionChange

\* How a session ended agrees with how its runs did.
LEMMA SessionsFollow ==
  ASSUME CoreInv, RunsHaveSessions, OneRunAtATime, SchedulerKeepsItsSession, SessionsFollowRuns,
         SessionChange
  PROVE  SessionsFollowRuns'
<1> USE DEF CommittedBut, RunsOfSession
<1>0. /\ status \in [Runs -> RunStatuses] /\ sessionOf \in [Runs -> Runs \cup {NoRun}]
      /\ sessionEnd \in [Runs -> SessionEnds] /\ NoRun \notin Runs
      /\ pc = "run" => cur \in Runs /\ status[cur] = "active"
      /\ \A r, q \in Runs : status[r] = "active" /\ status[q] = "active" => r = q
      /\ \A r \in Runs : status[r] # "none" => sessionOf[r] \in Runs
  BY NoRunAssumption DEF CoreInv, TypeOK, EMMTypeOK, SchedulerOwnsItsRun, OneRunAtATime, ActiveRuns,
     RunsHaveSessions
<1>1. CASE Moves
  BY <1>1 DEF Moves, SessionsFollowRuns, Stopped
<1>2. ASSUME NEW r \in Runs, Ends(r) PROVE SessionsFollowRuns'
  <2>1. PICK s \in Failures \cup Pauses : status' = [status EXCEPT ![r] = s]
    BY <1>2 DEF Ends
  <2> QED BY <1>0, <1>2, <2>1 DEF Ends, FinalizeSession, Failures, Pauses, SessionsFollowRuns, Stopped
<1>3. ASSUME NEW r \in Runs, NEW s \in Runs, Opens(r, s) PROVE SessionsFollowRuns'
  <2>1. \A q \in Runs : sessionOf[q] = s => status[q] = "committed"
    <3>1. CASE s = r
      BY <1>0, <1>3, <3>1 DEF Opens, RunsHaveSessions
    <3>2. CASE s # r
      BY <1>0, <1>3, <3>2 DEF Opens, SchedulerKeepsItsSession
    <3> QED BY <3>1, <3>2
  <2> QED BY <1>0, <1>3, <2>1 DEF Opens, SessionsFollowRuns, Stopped, Failures, Pauses
<1>4. CASE GoesOn
  BY <1>0, <1>4 DEF GoesOn, SessionsFollowRuns, Stopped, Failures, Pauses
<1>5. ASSUME NEW s \in Runs, Completes(s) PROVE SessionsFollowRuns'
  BY <1>0, <1>5 DEF Completes, SessionsFollowRuns, Stopped, Failures, Pauses
<1> QED BY <1>1, <1>2, <1>3, <1>4, <1>5 DEF SessionChange

\* Every step keeps the invariant of the sessions.
LEMMA NextKeepsSessions == ASSUME CoreInv, SessionInv, [Next]_vars PROVE SessionInv'
<1>1. SessionChange
  BY StepChangesSession
<1> QED BY <1>1, SessionsRemain, OneRunRemains, SchedulerKeepsSession, SessionsFollow DEF SessionInv

-----------------------------------------------------------------------------
(* The invariant, and what it says *)

\* Before the first start there is no run, no event and no session.
LEMMA InitIInv == Init => IInv
<1> SUFFICES ASSUME Init PROVE IInv
  OBVIOUS
<1>1. CoreInv
  BY InitCore
<1>2. /\ pc = "down" /\ session = NoRun
      /\ \A r \in Runs : /\ status[r] = "none" /\ sessionOf[r] = NoRun /\ retryOf[r] = NoRun
                         /\ mut[r] = "none" /\ prep[r] = {}
      /\ \A e \in Events : evStatus[e] = "absent"
  BY DEF Init, EMMInit
<1>3. SessionInv
  BY <1>2 DEF SessionInv, RunsHaveSessions, OneRunAtATime, SchedulerKeepsItsSession, SessionsFollowRuns,
     ActiveRuns
<1>4. HistoryInv
  BY <1>2 DEF HistoryInv, RetriesAreLate, RetriesAreLinear, AppliedIsSuccess, OpenMutationsAreKept,
     WorkerHoldsItsEvents, DoneEventsStay, DoneOnce, Did, ActiveRuns
<1> QED BY <1>1, <1>3, <1>4 DEF IInv

\* Every step of every process keeps the invariant.
LEMMA NextKeepsIInv == IInv /\ [Next]_vars => IInv'
BY NextKeepsCore, NextKeepsSessions, NextKeepsHistory DEF IInv

\* Rows, sessions and scheduler agree, and what was recorded of earlier runs
\* stays true, in every state the engine can reach: whatever crashes,
\* recoveries, retries, resolutions and clicks came before.
THEOREM Invariance == Spec => []IInv
BY InitIInv, NextKeepsIInv, PTL DEF Spec

\* A session is open while a run of it works, fails with the run that stops,
\* and is completed only when every run of it committed.
THEOREM SessionsFollowTheirRuns == Spec => []SessionsFollowRuns
<1>1. IInv => SessionsFollowRuns
  BY DEF IInv, SessionInv
<1> QED BY <1>1, Invariance, PTL

\* A run is retried at most once, with its outcome and its reservations, and
\* only when its mutation is done.
THEOREM RetriesLinear == Spec => []RetriesAreLinear
<1>1. IInv => RetriesAreLinear
  BY DEF IInv, HistoryInv
<1> QED BY <1>1, Invariance, PTL

\* No event has two recorded mutations that both took effect, unless the
\* engine had left one of them to the user.
THEOREM NoRepeat == Spec => []NoRepeatAfterRecordedSuccess
<1>1. ASSUME IInv, NEW r \in effect, NEW q \in effect, r # q, prep[r] \cap prep[q] # {}
      PROVE  \E x \in {r, q} : mut[x] # "applied" \/ status[x] = "paused:reconciliation"
  <2>1. r \in Runs /\ q \in Runs
    BY <1>1 DEF IInv, CoreInv, TypeOK, ProcessTypeOK
  <2>2. PICK e \in prep[r] \cap prep[q] : TRUE
    BY <1>1
  <2>3. e \in Events
    BY <1>1, <2>1, <2>2 DEF IInv, CoreInv, TypeOK, EMMTypeOK
  <2>4. ~(Did(r, e) /\ Did(q, e))
    BY <1>1, <2>1, <2>3 DEF IInv, HistoryInv, DoneOnce
  <2> QED BY <2>2, <2>4 DEF Did
<1>2. IInv => NoRepeatAfterRecordedSuccess
  BY <1>1 DEF NoRepeatAfterRecordedSuccess
<1> QED BY <1>2, Invariance, PTL

-----------------------------------------------------------------------------
(* The events of a run whose mutation is recorded as applied *)

\* Such an event stays with its run, is consumed, or passes to the retry.
LEMMA AppliedEventStays ==
  ASSUME CoreInv, [Next]_vars, NEW r \in Runs, outcome[r] = "success", NEW e \in ReservedBy(r)
  PROVE  /\ evStatus'[e] \in {"reserved", "consumed"}
         /\ evRun'[e] = r \/ retryOf'[evRun'[e]] = r
<1>1. e \in Events /\ evStatus[e] = "reserved" /\ evRun[e] = r
  BY DEF ReservedBy
<1>2. ~PreMutation(r) /\ mut[r] \notin UnresolvedMutations
  BY PhaseOfMutation
<1>3. /\ retryOf \in [Runs -> Runs \cup {NoRun}]
      /\ evStatus \in [Events -> EventStates] /\ evRun \in [Events -> Runs \cup {NoRun}]
  BY DEF CoreInv, TypeOK, EMMTypeOK
<1>4. CASE Quiet \/ \E d \in Events : Publishes(d)
  BY <1>1, <1>3, <1>4 DEF Quiet, Publishes, PublishEvent
<1>5. ASSUME NEW q \in Runs, Creates(q) \/ Advances(q) \/ Calls(q) \/ Relabels(q)
      PROVE  evStatus'[e] = evStatus[e] /\ evRun'[e] = evRun[e]
  BY <1>5 DEF Creates, CreateHandlerRun, Advances, AdvancePhase, Calls, CreateInFlight, Relabels,
     UpdateMutationStatus
<1>6. ASSUME NEW q \in Runs, Stops(q) PROVE evStatus'[e] = evStatus[e] /\ evRun'[e] = evRun[e]
  BY <1>1, <1>2, <1>6 DEF Stops, StopRun, HandleEventDisposition, ReleaseEvents, SetEvents, ReservedBy
<1>7. ASSUME NEW q \in Runs, Prepares(q) PROVE evStatus'[e] = evStatus[e] /\ evRun'[e] = evRun[e]
  BY <1>1, <1>7 DEF Prepares, AdvanceToPrepared, ReserveEvents, SetEvents, PendingEvents
<1>8. ASSUME NEW q \in Runs, Commits(q)
      PROVE  evStatus'[e] \in {"reserved", "consumed"} /\ evRun'[e] = r
  BY <1>1, <1>8 DEF Commits, CommitConsumer, CommitProducer, ConsumeEvents, SetEvents, ReservedBy
<1>9. ASSUME NEW q \in Runs, Resolves(q) PROVE evStatus'[e] = evStatus[e] /\ evRun'[e] = evRun[e]
  <2>1. mut[q] \in UnresolvedMutations
    BY <1>9 DEF Resolves, ResolveMutationFailed, ResolveMutationSkipped, UnresolvedMutations
  <2>2. q # r
    BY <1>2, <2>1
  <2> QED BY <1>1, <1>9, <2>2 DEF Resolves, ApplyMutation, FailMutation, ResolveMutationFailed,
          ResolveMutationSkipped, ReleaseEvents, SkipEvents, SetEvents, ReservedBy
<1>10. ASSUME NEW q \in Runs, Retries(q)
       PROVE  evStatus'[e] = "reserved" /\ (evRun'[e] = r \/ retryOf'[evRun'[e]] = r)
  <2>1. PICK f \in Runs : f = cur
    BY <1>10 DEF Retries
  <2>2. TransferReservations(f, q) /\ retryOf' = [retryOf EXCEPT ![q] = f]
    BY <1>10, <2>1 DEF Retries, CreateRetryRun
  <2> QED BY <1>1, <1>3, <2>2 DEF TransferReservations, SetEvents, ReservedBy
<1> QED BY StepIsTransaction, <1>1, <1>4, <1>5, <1>6, <1>7, <1>8, <1>9, <1>10
        DEF Transaction, RunTransaction

\* Once a mutation is recorded as applied, the events its run holds are never
\* free again.
THEOREM AppliedKeeps == Spec => AppliedKeepsItsEvents
<1>1. CoreInv /\ [Next]_vars =>
         [\A r \in Runs : outcome[r] = "success" =>
             \A e \in ReservedBy(r) :
                 /\ evStatus'[e] \in {"reserved", "consumed"}
                 /\ evRun'[e] = r \/ retryOf'[evRun'[e]] = r]_vars
  BY AppliedEventStays
<1> QED BY <1>1, CoreInvariance, PTL DEF Spec, AppliedKeepsItsEvents

-----------------------------------------------------------------------------
(* The engine implements the ledger of its events *)

LHolder == [e \in Events |-> IF evStatus[e] = "reserved" THEN evRun[e] ELSE NoRun]
LTook   == {r \in Runs : phase[r] \notin {"pending", "preparing"} /\ kind[r] = "consumer"}

LedgerStep == [Ledger!Next]_<<evStatus, LHolder, LTook>>

\* Moving events in the store is a move of the ledger; only reserved events
\* have a holder there.
LEMMA EventsMoveInLedger ==
  ASSUME NEW S, NEW s, NEW r, SetEvents(S, s, r)
  PROVE  Ledger!Put(S, s, IF s = "reserved" THEN r ELSE NoRun)
BY DEF SetEvents, Ledger!Put

\* Both speak of the same reservations, and a run that did not get as far as
\* prepared, or is no consumer, has none.
LEMMA LedgerHolds ==
  ASSUME CoreInv, NEW r \in Runs
  PROVE  Ledger!Held(r) = ReservedBy(r) /\ (r \notin LTook => ReservedBy(r) = {})
<1>1. Ledger!Held(r) = ReservedBy(r)
  BY NoRunAssumption DEF Ledger!Held, ReservedBy
<1>2. r \notin LTook => ReservedBy(r) = {}
  BY DEF LTook, ReservedBy, CoreInv, RowsInv, EventsFitRuns, EventFitsRun
<1> QED BY <1>1, <1>2

\* Moving no event at all leaves the store as it is.
LEMMA NothingMoves ==
  ASSUME CoreInv, NEW s, NEW r, SetEvents({}, s, r) PROVE UNCHANGED eventVars
BY DEF SetEvents, CoreInv, TypeOK, EMMTypeOK

\* A run that gives its events up, in one way or another, does so in the ledger.
LEMMA GivingUp ==
  ASSUME CoreInv, NEW r \in Runs, NEW s \in {"pending", "consumed", "skipped"}, NEW q,
         SetEvents(ReservedBy(r), s, q), LTook' = LTook
  PROVE  LedgerStep
<1>1. CASE r \in LTook
  <2>1. Ledger!Put(Ledger!Held(r), s, NoRun)
    BY LedgerHolds, EventsMoveInLedger
  <2>2. Ledger!GiveUp(r, s)
    BY <1>1, <2>1 DEF Ledger!GiveUp, LTook
  <2> QED BY <2>2 DEF LedgerStep, Ledger!Next
<1>2. CASE r \notin LTook
  <2>1. UNCHANGED eventVars
    BY <1>2, LedgerHolds, NothingMoves
  <2> QED BY <2>1 DEF LedgerStep, LHolder
<1> QED BY <1>1, <1>2

\* The rows a transaction leaves alone.
LEMMA SameTook ==
  ASSUME CoreInv, UNCHANGED kind, NEW r \in Runs, NEW p \in Phases,
         phase' = [phase EXCEPT ![r] = p], r \in LTook \/ kind[r] = "producer",
         p \notin {"pending", "preparing"}
  PROVE  LTook' = LTook
BY DEF LTook, CoreInv, TypeOK, EMMTypeOK

\* Transactions of one run, seen in the ledger.
LEMMA TransactionInLedger ==
  ASSUME CoreInv, NEW r \in Runs, RunTransaction(r) PROVE LedgerStep
<1>0. /\ phase \in [Runs -> Phases] /\ kind \in [Runs -> {"consumer", "producer"}]
      /\ status[r] = "none" => phase[r] = "pending"
      /\ kind[r] = "consumer" => phase[r] # "executing"
      /\ mut[r] \in UnresolvedMutations => phase[r] = "mutating"
      /\ {"prepared", "mutating", "mutated", "emitting", "committed"} \subseteq Phases
  BY DEF CoreInv, TypeOK, EMMTypeOK, RowsInv, PhaseFitsMutation, Phases
<1>1. CASE Stops(r)
  <2>1. UNCHANGED <<phase, kind>> /\ HandleEventDisposition(r)
    BY <1>1 DEF Stops, StopRun
  <2>2. LTook' = LTook
    BY <2>1 DEF LTook
  <2>3. CASE UNCHANGED eventVars
    BY <2>2, <2>3 DEF LedgerStep, LHolder
  <2>4. CASE SetEvents(ReservedBy(r), "pending", NoRun)
    BY <2>2, <2>4, GivingUp
  <2> QED BY <2>1, <2>3, <2>4 DEF HandleEventDisposition, ReleaseEvents
<1>2. CASE Creates(r)
  <2>1. PICK k \in {"consumer", "producer"} :
           kind' = [kind EXCEPT ![r] = k] /\ status[r] = "none" /\ UNCHANGED <<phase, eventVars>>
    BY <1>2 DEF Creates, CreateHandlerRun
  <2>2. LTook' = LTook
    BY <1>0, <2>1 DEF LTook
  <2> QED BY <2>1, <2>2 DEF LedgerStep, LHolder
<1>3. CASE Retries(r)
  <2>0. PICK f \in Runs : f = cur
    BY <1>3 DEF Retries
  <2>1. /\ IsPostMutation(f) /\ status[r] = "none" /\ SetEvents(ReservedBy(f), "reserved", r)
        /\ kind' = [kind EXCEPT ![r] = kind[f]] /\ phase' = [phase EXCEPT ![r] = "emitting"]
    BY <1>3, <2>0 DEF Retries, CreateRetryRun, TransferReservations
  <2>2. r \notin LTook /\ phase[r] = "pending"
    BY <1>0, <2>1 DEF LTook
  <2>3. CASE kind[f] = "consumer"
    <3>1. ~PreMutation(f)
      <4>1. outcome[f] \in {"success", "skipped"} => ~PreMutation(f)
        BY PhaseOfMutation
      <4>2. outcome[f] = "" /\ ~Before(phase[f], "mutated") => ~PreMutation(f)
        BY DEF PreMutation
      <4> QED BY <2>1, <4>1, <4>2 DEF IsPostMutation
    <3>2. f \in LTook
      BY <2>3, <3>1, PhaseOfMutation DEF LTook, BeforeMutated
    <3>3. LTook' = LTook \cup {r}
      BY <1>0, <2>1, <2>3 DEF LTook
    <3>4. Ledger!Put(Ledger!Held(f), "reserved", r)
      BY <2>1, LedgerHolds, EventsMoveInLedger
    <3>5. Ledger!HandOver(f, r)
      BY <2>2, <3>2, <3>3, <3>4 DEF Ledger!HandOver, LTook
    <3> QED BY <3>5 DEF LedgerStep, Ledger!Next
  <2>4. CASE kind[f] = "producer"
    <3>1. f \notin LTook
      BY <2>4 DEF LTook
    <3>2. UNCHANGED eventVars
      BY <2>1, <3>1, LedgerHolds, NothingMoves
    <3>3. LTook' = LTook
      BY <1>0, <2>1, <2>2, <2>4 DEF LTook
    <3> QED BY <3>2, <3>3 DEF LedgerStep, LHolder
  <2> QED BY <1>0, <2>3, <2>4
<1>4. CASE Advances(r)
  <2>1. UNCHANGED <<kind, eventVars>>
    BY <1>4 DEF Advances, AdvancePhase
  <2>2. LTook' = LTook
    BY <1>0, <1>4 DEF Advances, AdvancePhase, SetPhase, LTook
  <2> QED BY <2>1, <2>2 DEF LedgerStep, LHolder
<1>5. CASE Prepares(r)
  <2>1. PICK S \in SUBSET Events : S \subseteq PendingEvents /\ AdvanceToPrepared(r, S)
    BY <1>5 DEF Prepares
  <2>2. S \cap PendingEvents = S /\ \A e \in S : evStatus[e] = "pending"
    BY <2>1 DEF PendingEvents
  <2>3. Ledger!Put(S, "reserved", r)
    BY <2>1, <2>2, EventsMoveInLedger DEF AdvanceToPrepared, ReserveEvents
  <2>4. r \notin LTook /\ LTook' = LTook \cup {r}
    BY <1>0, <1>5, <2>1 DEF Prepares, AdvanceToPrepared, SetPhase, LTook
  <2>5. Ledger!Reserve(r, S)
    BY <2>2, <2>3, <2>4 DEF Ledger!Reserve, LTook
  <2> QED BY <2>5 DEF LedgerStep, Ledger!Next
<1>6. CASE Commits(r)
  <2>1. /\ UNCHANGED kind /\ phase' = [phase EXCEPT ![r] = "committed"]
        /\ kind[r] = "producer" \/ phase[r] \in {"prepared", "emitting"}
        /\ UNCHANGED eventVars \/ SetEvents(ReservedBy(r), "consumed", r)
    BY <1>6 DEF Commits, CommitConsumer, CommitProducer, ConsumeEvents, SetPhase
  <2>2. LTook' = LTook
    BY <1>0, <2>1, SameTook DEF LTook
  <2>3. CASE UNCHANGED eventVars
    BY <2>2, <2>3 DEF LedgerStep, LHolder
  <2> QED BY <2>1, <2>2, <2>3, GivingUp
<1>7. CASE Calls(r) \/ Relabels(r)
  BY <1>7 DEF Calls, CreateInFlight, Relabels, UpdateMutationStatus, LedgerStep, LHolder, LTook
<1>8. CASE Resolves(r)
  <2>1. /\ UNCHANGED kind /\ phase' = [phase EXCEPT ![r] = "mutated"]
        /\ mut[r] \in UnresolvedMutations
        /\ \/ UNCHANGED eventVars
           \/ \E s \in {"pending", "skipped"}, q \in Runs \cup {NoRun} : SetEvents(ReservedBy(r), s, q)
    BY <1>8 DEF Resolves, ApplyMutation, FailMutation, ResolveMutationFailed, ResolveMutationSkipped,
       ResolveRun, SetPhase, ReleaseEvents, SkipEvents, UnresolvedMutations
  <2>2. LTook' = LTook
    BY <1>0, <2>1, SameTook DEF LTook
  <2>3. CASE UNCHANGED eventVars
    BY <2>2, <2>3 DEF LedgerStep, LHolder
  <2> QED BY <2>1, <2>2, <2>3, GivingUp
<1> QED BY <1>1, <1>2, <1>3, <1>4, <1>5, <1>6, <1>7, <1>8 DEF RunTransaction

\* Every step of the engine is a step of the ledger, or leaves it alone: an
\* event is handled once, by a run that took it once in its life.
THEOREM ImplementsLedger == Spec => LedgerSpec
<1>1. ASSUME Init PROVE Ledger!Init
  <2>1. /\ evStatus = [e \in Events |-> "absent"] /\ phase = [r \in Runs |-> "pending"]
        /\ \A e \in Events : evStatus[e] # "reserved"
    BY <1>1 DEF Init, EMMInit
  <2>2. LHolder = [e \in Events |-> NoRun]
    BY <2>1 DEF LHolder
  <2>3. LTook = {}
    BY <2>1 DEF LTook
  <2> QED BY <2>1, <2>2, <2>3 DEF Ledger!Init, LHolder, LTook
<1>2. ASSUME CoreInv, [Next]_vars PROVE LedgerStep
  <2>1. CASE Quiet
    BY <2>1 DEF Quiet, LedgerStep, LHolder, LTook
  <2>2. ASSUME NEW e \in Events, Publishes(e) PROVE LedgerStep
    <3>1. evStatus[e] = "absent" /\ UNCHANGED LTook
      BY <2>2 DEF Publishes, PublishEvent, LTook
    <3>2. Ledger!Put({e}, "pending", NoRun)
      BY <1>2, <2>2 DEF Publishes, PublishEvent, Ledger!Put, CoreInv, TypeOK, EMMTypeOK
    <3>3. Ledger!Publish(e)
      BY <3>1, <3>2 DEF Ledger!Publish, LTook
    <3> QED BY <3>3 DEF LedgerStep, Ledger!Next
  <2> QED BY <1>2, <2>1, <2>2, StepIsTransaction, TransactionInLedger DEF Transaction
<1> QED BY <1>1, <1>2, CoreInvariance, PTL
        DEF Spec, LedgerSpec, Ledger!Spec, LedgerStep, Ledger!vars, LHolder, LTook
=============================================================================
