-------------------------- MODULE WorkflowInvariant --------------------------
(* The inductive invariant behind the safety properties of WorkflowEngine:   *)
(* how the row of a run, its mutation, its events and the place of the       *)
(* scheduler agree in every state.                                           *)
EXTENDS WorkflowEngine

\* The run the scheduler works on is active, and no other process stops it;
\* a retry is picked only when no run is active; while a tool is called, its
\* mutation is in flight, which no other process touches.
SchedulerOwnsItsRun ==
    /\ pc \in {"run", "calling", "pausing"} => cur \in Runs /\ status[cur] = "active"
    /\ pc = "calling" => mut[cur] = "in_flight"
    /\ pc = "retry" => cur \in Runs /\ ActiveRuns = {}

Early == {"pending", "preparing", "prepared", "executing"}

\* The phase of a run says what its mutation and its outcome can be.
PhaseFitsMutation ==
    \A r \in Runs :
        /\ status[r] = "none" => phase[r] = "pending"
        /\ status[r] = "committed" => phase[r] = "committed"
        /\ kind[r] = "consumer" => phase[r] # "executing"
        /\ phase[r] \in Early => mut[r] = "none"
        /\ phase[r] \in Early \cup {"mutating"} => outcome[r] = ""
        /\ mut[r] \in UnresolvedMutations => phase[r] = "mutating"
        /\ mut[r] = "failed" => outcome[r] = "failure"
        /\ outcome[r] = "failure" => phase[r] = "mutated"

\* An event that left the queue belongs to a run that named it, and says how
\* that run stands.
EventFitsRun(e) ==
    LET r == evRun[e]
    IN  /\ r \in Runs /\ kind[r] = "consumer"
        /\ phase[r] \notin {"pending", "preparing"} /\ e \in prep[r]
        /\ evStatus[e] = "consumed" => status[r] = "committed"
        /\ evStatus[e] = "skipped" => outcome[r] = "skipped"
        /\ evStatus[e] = "reserved" =>
              \/ status[r] = "active" /\ outcome[r] # "failure"
              \/ Stopped(r) /\ ~PreMutation(r) /\ RetriesOf(r) = {}

EventsFitRuns ==
    \A e \in Events : evStatus[e] \in {"reserved", "consumed", "skipped"} => EventFitsRun(e)

\* Only a run that ended is retried.
RetriesOfEnded ==
    \A q \in Runs : retryOf[q] \in Runs => status[retryOf[q]] \notin {"none", "active"}

\* What holds of the rows alone; every transaction keeps it.
RowsInv ==
    /\ EMMTypeOK
    /\ PhaseFitsMutation
    /\ EventsFitRuns
    /\ RetriesOfEnded

\* The part of the invariant that says how rows and scheduler agree now.
CoreInv ==
    /\ TypeOK
    /\ SchedulerOwnsItsRun
    /\ RowsInv

-----------------------------------------------------------------------------
(* Sessions *)

\* A run has a session from its creation on, named by a run that was created.
RunsHaveSessions ==
    \A r \in Runs :
        /\ status[r] = "none" <=> sessionOf[r] = NoRun
        /\ sessionOf[r] # NoRun => status[sessionOf[r]] # "none"

\* One run works at a time, and only while the scheduler has it in hand, or has
\* crashed and not yet recovered it.
OneRunAtATime ==
    /\ \A r, q \in ActiveRuns : r = q
    /\ pc \notin {"down", "recovering", "run", "calling", "pausing"} => ActiveRuns = {}

\* All runs of session s have committed, with the possible exception of r.
CommittedBut(s, r) == \A q \in RunsOfSession(s) : q # r => status[q] = "committed"

\* The scheduler is in the session of its run, and in no session before it has
\* work; whatever else ran in its session has committed.
SchedulerKeepsItsSession ==
    /\ pc \in {"run", "calling", "pausing"} =>
          session \in Runs /\ sessionOf[cur] = session /\ CommittedBut(session, cur)
    /\ pc = "session" /\ session # NoRun =>
          status[session] # "none" /\ CommittedBut(session, NoRun)
    /\ pc \in {"down", "recovering", "idle", "retry"} => session = NoRun

SessionInv ==
    /\ RunsHaveSessions
    /\ OneRunAtATime
    /\ SchedulerKeepsItsSession
    /\ SessionsFollowRuns

-----------------------------------------------------------------------------
(* What was recorded of the runs before *)

\* A retry starts where the mutation is done, and calls none itself.
RetriesAreLate ==
    \A q \in Runs : retryOf[q] # NoRun =>
        status[q] # "none" /\ phase[q] \in {"emitting", "committed"} /\ mut[q] = "none"

\* What is recorded of a mutation is recorded of its run.
AppliedIsSuccess == \A r \in Runs : mut[r] = "applied" => outcome[r] = "success"

\* Reconciliation is left with the mutation of a run that works or that was
\* paused for it.
OpenMutationsAreKept ==
    \A r \in Runs : mut[r] \in {"in_flight", "needs_reconcile"} =>
        status[r] \in {"active", "paused:reconciliation"}

\* Until its mutation is done, a working run holds all the events it named.
WorkerHoldsItsEvents ==
    \A r \in ActiveRuns : phase[r] \in {"prepared", "mutating"} => prep[r] \subseteq ReservedBy(r)

\* Run r did the mutation for event e, and the engine kept track of it.
Did(r, e) == e \in prep[r] /\ mut[r] = "applied" /\ status[r] # "paused:reconciliation"

\* An event for which a mutation was done is with the run that did it or with
\* a retry, never free for another run.
DoneEventsStay ==
    \A r \in Runs, e \in Events : Did(r, e) =>
        /\ evStatus[e] \in {"reserved", "consumed"}
        /\ evRun[e] = r \/ retryOf[evRun[e]] # NoRun

\* No two runs did the mutation for the same event.
DoneOnce == \A r, q \in Runs, e \in Events : Did(r, e) /\ Did(q, e) => r = q

HistoryInv ==
    /\ RetriesAreLate
    /\ RetriesAreLinear
    /\ AppliedIsSuccess
    /\ OpenMutationsAreKept
    /\ WorkerHoldsItsEvents
    /\ DoneEventsStay
    /\ DoneOnce

\* The invariant the proofs carry through every step.
IInv ==
    /\ CoreInv
    /\ SessionInv
    /\ HistoryInv
=============================================================================
