----------------------------- MODULE Scheduling -----------------------------
(***************************************************************************)
(* When the workflow scheduler runs what: workflow-scheduler.ts with the   *)
(* flags it keeps in memory (scheduler-state.ts), the schedules and        *)
(* wake-up times it keeps in the database, and the consumer loop of        *)
(* session-orchestration.ts.  What a handler run does to events, mutations *)
(* and phases is in WorkflowEngine; here a run publishes, reserves and     *)
(* ends in one of the ways the scheduler tells apart.                      *)
(*                                                                         *)
(* Workflow 1 is the first that listWorkflows returns, consumer 1 the      *)
(* first of the configuration; every consumer has a topic of its own.      *)
(***************************************************************************)
EXTENDS Integers, FiniteSets

CONSTANTS
    NumWorkflows, NumConsumers,
    Scheduled,      \* the workflows that have a producer
    MaxEvents,      \* events published, of all workflows together
    MaxIterations,  \* consumer runs of a session (100 in the code)
    MaxRetries,     \* MAX_NETWORK_RETRIES (5 in the code)
    MaxFires,       \* times a schedule comes due
    MaxWakes,       \* wake-up times that prepare asks for
    MaxChanges      \* restarts and steps of the user or the maintainer, together

Workflows == 1 .. NumWorkflows
Consumers == 1 .. NumConsumers

ASSUME SchedulingConstants ==
    /\ {NumWorkflows, NumConsumers, MaxIterations} \subseteq Nat \ {0}
    /\ Scheduled \subseteq Workflows
    /\ {MaxEvents, MaxRetries, MaxFires, MaxWakes, MaxChanges} \subseteq Nat

VARIABLES
    \* the database
    active,    \* workflow.status is "active"
    halt,      \* "none", or why it does not run: "error" or "maintenance"
    script,    \* active_script_id
    retry,     \* the consumer of pending_retry_run_id, Refused, or 0
    broken,    \* the same for the run the maintainer has to do with
    due,       \* the producer's next_run_at has come
    stored,    \* wake_at of a consumer: "none", "later" or "due"
    pending,   \* pending events of a consumer's topic
    held,      \* events reserved by the run to retry
    \* the memory of the scheduler
    tracked,   \* the script the flags were made for, or 0
    dirty,
    wake,      \* wakeAt
    retries,   \* retryCount
    backoff,   \* nextStart has not come
    session,   \* the session that runs
    \* bounds
    published, fires, wakes, changes,
    \* history
    declined,  \* events a consumer's last empty run looked at and left
    woken      \* the consumer has reserved events while it was not dirty

database == <<active, halt, script, retry, broken, due, stored, pending, held>>
memory == <<tracked, dirty, wake, retries, backoff, session>>
bounds == <<published, fires, wakes, changes>>
history == <<declined, woken>>
vars == <<database, memory, bounds, history>>

NoSession == [w |-> 0, trigger |-> "none", step |-> "off", c |-> 0, n |-> 0, runs |-> 0]
Refused == -1  \* a run that failed before its mutation has no retry
Idle == session = NoSession
Runnable(w) == active[w] /\ halt[w] = "none"

PerConsumer(x) == [w \in Workflows |-> [c \in Consumers |-> x]]

Init ==
    /\ active = [w \in Workflows |-> TRUE]
    /\ halt = [w \in Workflows |-> "none"]
    /\ script = [w \in Workflows |-> 1]
    /\ retry = [w \in Workflows |-> 0] /\ broken = retry
    /\ due = [w \in Workflows |-> FALSE]
    /\ stored = PerConsumer("none") /\ pending = PerConsumer(0)
    /\ held = [w \in Workflows |-> 0]
    /\ tracked = script
    /\ dirty = PerConsumer(TRUE) /\ wake = PerConsumer("none")
    /\ retries = [w \in Workflows |-> 0] /\ backoff = [w \in Workflows |-> FALSE]
    /\ session = NoSession
    /\ published = 0 /\ fires = 0 /\ wakes = 0 /\ changes = 0
    /\ declined = PerConsumer(0) /\ woken = PerConsumer(FALSE)

-----------------------------------------------------------------------------
\* processNextWorkflow (482-501): flags for a workflow that became active or
\* whose script changed since.  Wake-up times are not read from the database.
Track(w) ==
    /\ Idle /\ Runnable(w) /\ tracked[w] # script[w]
    /\ tracked' = [tracked EXCEPT ![w] = script[w]]
    /\ dirty' = [dirty EXCEPT ![w] = [c \in Consumers |-> TRUE]]
    /\ wake' = [wake EXCEPT ![w] = [c \in Consumers |-> "none"]]
    /\ UNCHANGED <<database, retries, backoff, session, bounds, history>>

Checked == Idle /\ \A w \in Workflows : Runnable(w) => tracked[w] = script[w]
First(set) == {w \in set : \A v \in set : w <= v}

Retriable == {w \in Workflows : Runnable(w) /\ retry[w] # 0 /\ ~backoff[w]}
\* Fault: a due schedule does not wait for the end of the backoff.
Due_InBackoff == {w \in Workflows : Runnable(w) /\ due[w]}

Due == {w \in Workflows : Runnable(w) /\ due[w] /\ ~backoff[w]}
HasWork(w) == \E c \in Consumers : dirty[w][c] \/ wake[w][c] = "due"
Waiting == {w \in Workflows : Runnable(w) /\ retry[w] = 0 /\ ~backoff[w] /\ HasWork(w)}

Begin(w, trigger, step) ==
    session' = [NoSession EXCEPT !.w = w, !.trigger = trigger, !.step = step]

\* Priority 1 (503-535): a run to be retried; its events go to the new run.
PickRetry ==
    /\ Checked
    /\ \E w \in First(Retriable) :
        /\ retry[w] # Refused
        /\ session' = [NoSession EXCEPT !.w = w, !.trigger = "retry", !.step = "emit",
                                        !.c = retry[w], !.n = held[w]]
        /\ retry' = [retry EXCEPT ![w] = 0]
        /\ held' = [held EXCEPT ![w] = 0]
    /\ UNCHANGED <<active, halt, script, broken, due, stored, pending,
                   tracked, dirty, wake, retries, backoff, bounds, history>>

\* createRetryRun refuses (execution-model.ts:849-855): the session ends, the
\* workflow is still to be retried, and the scheduler begins again.
RefuseRetry ==
    /\ Checked
    /\ \E w \in First(Retriable) :
        /\ retry[w] = Refused
        /\ retries' = [retries EXCEPT ![w] = 0]
    /\ UNCHANGED <<database, tracked, dirty, wake, backoff, session, bounds, history>>

\* Priorities 2 and 3 (537-613): due producers before consumers with work.
PickScheduled ==
    /\ Checked /\ Retriable = {}
    /\ \E w \in First(Due) : Begin(w, "schedule", "producer")
    /\ UNCHANGED <<database, tracked, dirty, wake, retries, backoff, bounds, history>>

PickConsumers ==
    /\ Checked /\ Retriable = {} /\ Due = {}
    /\ \E w \in First(Waiting) : Begin(w, "event", "loop")
    /\ UNCHANGED <<database, tracked, dirty, wake, retries, backoff, bounds, history>>

-----------------------------------------------------------------------------
\* A handler publishes at most one event to each of these topics, and the
\* consumers that subscribe become dirty (tool-lists.ts 164-173).
Publish(S) ==
    LET w == session.w IN
    /\ published + Cardinality(S) <= MaxEvents
    /\ published' = published + Cardinality(S)
    /\ pending' = [pending EXCEPT ![w] = [c \in Consumers |-> @[c] + IF c \in S THEN 1 ELSE 0]]
    /\ dirty' = [dirty EXCEPT ![w] = [c \in Consumers |-> @[c] \/ c \in S]]

ProducerCommits ==
    /\ session.step = "producer"
    /\ \E S \in SUBSET Consumers : Publish(S)
    /\ due' = [due EXCEPT ![session.w] = FALSE]
    /\ session' = [session EXCEPT !.step = "loop"]
    /\ UNCHANGED <<active, halt, script, retry, broken, stored, held, tracked, wake, retries,
                   backoff, fires, wakes, changes, history>>

\* findConsumerWithPendingWork (177-216): a dirty consumer before one whose
\* wake-up time has come.
Found(w) ==
    LET ds == {c \in Consumers : dirty[w][c]}
        ws == {c \in Consumers : wake[w][c] = "due"}
    IN IF ds # {} THEN First(ds) ELSE ws

StartRun ==
    /\ session.step = "loop" /\ session.runs < MaxIterations
    /\ \E c \in Found(session.w) : session' = [session EXCEPT !.step = "prepare", !.c = c]
    /\ UNCHANGED <<database, tracked, dirty, wake, retries, backoff, bounds, history>>

\* preparing (723-745): reserve some events and ask for a wake-up or not.  A
\* time that is not asked for is cleared in memory alone.
Prepared(n, time) ==
    LET w == session.w
        c == session.c
    IN
    /\ wake' = [wake EXCEPT ![w][c] = time]
    /\ stored' = IF time = "none" THEN stored ELSE [stored EXCEPT ![w][c] = time]
    /\ wakes' = wakes + IF time = "none" THEN 0 ELSE 1
    /\ wakes' <= MaxWakes
    /\ pending' = [pending EXCEPT ![w][c] = @ - n]
    /\ UNCHANGED <<active, halt, script, retry, broken, due, held, tracked, retries, backoff,
                   published, fires, changes>>

\* prepared (766-781): nothing reserved, so the run commits and the consumer
\* is clean.
PrepareNothing ==
    LET w == session.w
        c == session.c
    IN
    /\ session.step = "prepare"
    /\ \E time \in {"none", "later"} : Prepared(0, time)
    /\ session' = [session EXCEPT !.step = "loop", !.c = 0, !.runs = @ + 1]
    /\ dirty' = [dirty EXCEPT ![w][c] = FALSE]
    /\ declined' = [declined EXCEPT ![w][c] = pending[w][c]]
    /\ woken' = [woken EXCEPT ![w][c] = FALSE]

\* Fault: a consumer is clean as soon as it has reserved events.
PrepareEvents_Cleans ==
    LET w == session.w
        c == session.c
    IN
    /\ session.step = "prepare"
    /\ \E time \in {"none", "later"}, n \in 1 .. pending[w][c] :
        /\ Prepared(n, time)
        /\ session' = [session EXCEPT !.step = "mutate", !.n = n]
        /\ declined' = [declined EXCEPT ![w][c] = IF @ < pending[w][c] - n THEN @ ELSE pending[w][c] - n]
    /\ woken' = [woken EXCEPT ![w][c] = @ \/ ~dirty[w][c]]
    /\ dirty' = [dirty EXCEPT ![w][c] = FALSE]

PrepareEvents ==
    LET w == session.w
        c == session.c
    IN
    /\ session.step = "prepare"
    /\ \E time \in {"none", "later"}, n \in 1 .. pending[w][c] :
        /\ Prepared(n, time)
        /\ session' = [session EXCEPT !.step = "mutate", !.n = n]
        /\ declined' = [declined EXCEPT ![w][c] = IF @ < pending[w][c] - n THEN @ ELSE pending[w][c] - n]
    /\ woken' = [woken EXCEPT ![w][c] = @ \/ ~dirty[w][c]]
    /\ UNCHANGED dirty

Mutate ==
    /\ session.step = "mutate"
    /\ session' = [session EXCEPT !.step = "emit"]
    /\ UNCHANGED <<database, tracked, dirty, wake, retries, backoff, bounds, history>>

\* emitting (892, 952): the events are consumed, the dirty flag stays as it is.
ConsumerCommits ==
    /\ session.step = "emit"
    /\ \E S \in SUBSET Consumers : Publish(S)
    /\ session' = [session EXCEPT !.step = "loop", !.c = 0, !.n = 0, !.runs = @ + 1]
    /\ UNCHANGED <<active, halt, script, retry, broken, due, stored, held, tracked, wake, retries,
                   backoff, fires, wakes, changes, history>>

-----------------------------------------------------------------------------
\* The session ends completed: no work is found or the budget is spent; the
\* "done" signal forgets the failures so far.
Complete ==
    /\ session.step = "loop"
    /\ session.runs >= MaxIterations \/ Found(session.w) = {}
    /\ session' = NoSession
    /\ retries' = [retries EXCEPT ![session.w] = 0]
    /\ backoff' = [backoff EXCEPT ![session.w] = FALSE]
    /\ UNCHANGED <<database, tracked, dirty, wake, bounds, history>>

\* What stopping the run does to its events and to the pending retry: before
\* the mutation they are released, after it they wait for the retry.
Disposed(w, clearRetry) ==
    /\ pending' = IF session.step = "mutate"
                  THEN [pending EXCEPT ![w][session.c] = @ + session.n] ELSE pending
    /\ held' = [held EXCEPT ![w] = IF session.step = "emit" /\ ~clearRetry THEN session.n ELSE @]
    /\ retry' = [retry EXCEPT ![w] = IF session.step = "emit" /\ ~clearRetry THEN session.c ELSE @]

Running == session.step \in {"producer", "prepare", "mutate", "emit"}

\* Fault: the count of failures in a row starts anew with every failure.
FailTransient_KeepsCount ==
    LET w == session.w IN
    /\ Running
    /\ Disposed(w, FALSE)
    /\ backoff' = [backoff EXCEPT ![w] = TRUE]
    /\ session' = NoSession
    /\ UNCHANGED <<active, halt, script, broken, due, stored, retries, tracked, dirty, wake, bounds,
                   history>>

\* A transient error (handleWorkerSignal, 67-114): back off, and give up after
\* too many in a row.
FailTransient ==
    LET w == session.w
        giveUp == retries[w] >= MaxRetries
    IN
    /\ Running
    /\ Disposed(w, giveUp)
    /\ retries' = [retries EXCEPT ![w] = IF giveUp THEN 0 ELSE @ + 1]
    /\ backoff' = [backoff EXCEPT ![w] = ~giveUp]
    /\ halt' = [halt EXCEPT ![w] = IF giveUp THEN "error" ELSE @]
    /\ session' = NoSession
    /\ UNCHANGED <<active, script, broken, due, stored, tracked, dirty, wake, bounds, history>>

\* Any other error stops the workflow until the user or the maintainer acts.
FailForGood(why) ==
    LET w == session.w IN
    /\ Running
    /\ Disposed(w, FALSE)
    /\ retries' = [retries EXCEPT ![w] = 0]
    /\ backoff' = [backoff EXCEPT ![w] = FALSE]
    /\ halt' = [halt EXCEPT ![w] = why]
    /\ broken' = [broken EXCEPT ![w] = IF why = "error" THEN @
                                       ELSE IF session.step = "emit" THEN session.c ELSE Refused]
    /\ session' = NoSession
    /\ UNCHANGED <<active, script, due, stored, tracked, dirty, wake, bounds, history>>

-----------------------------------------------------------------------------
\* Time passes.
ScheduleFires(w) ==
    /\ w \in Scheduled /\ ~due[w]
    /\ fires < MaxFires
    /\ fires' = fires + 1
    /\ due' = [due EXCEPT ![w] = TRUE]
    /\ UNCHANGED <<active, halt, script, retry, broken, stored, pending, held, memory,
                   published, wakes, changes, history>>

WakeComes(w, c) ==
    /\ "later" \in {wake[w][c], stored[w][c]}
    /\ wake' = [wake EXCEPT ![w][c] = IF @ = "later" THEN "due" ELSE @]
    /\ stored' = [stored EXCEPT ![w][c] = "due"]
    /\ UNCHANGED <<active, halt, script, retry, broken, due, pending, held,
                   tracked, dirty, retries, backoff, session, bounds, history>>

BackoffEnds(w) ==
    /\ backoff[w]
    /\ backoff' = [backoff EXCEPT ![w] = FALSE]
    /\ UNCHANGED <<database, tracked, dirty, wake, retries, session, bounds, history>>

-----------------------------------------------------------------------------
Changing == changes < MaxChanges /\ changes' = changes + 1

\* The process stops and starts (start, 176-239): what ran is recovered, all
\* consumers of active workflows are dirty and their wake-up times are read.
Restart ==
    /\ Changing
    /\ IF Running THEN Disposed(session.w, FALSE) ELSE UNCHANGED <<pending, held, retry>>
    /\ tracked' = [w \in Workflows |-> IF active[w] THEN script[w] ELSE 0]
    /\ dirty' = [w \in Workflows |-> [c \in Consumers |-> active[w]]]
    /\ wake' = [w \in Workflows |-> [c \in Consumers |-> IF active[w] THEN stored[w][c] ELSE "none"]]
    /\ retries' = [w \in Workflows |-> 0] /\ backoff' = [w \in Workflows |-> FALSE]
    /\ session' = NoSession
    /\ UNCHANGED <<active, halt, script, broken, due, stored, published, fires, wakes, history>>

Pause(w) ==
    /\ Changing /\ active[w]
    /\ active' = [active EXCEPT ![w] = FALSE]
    /\ UNCHANGED <<halt, script, retry, broken, due, stored, pending, held, memory,
                   published, fires, wakes, history>>

Resume(w) ==
    /\ Changing /\ (~active[w] \/ halt[w] = "error")
    /\ active' = [active EXCEPT ![w] = TRUE]
    /\ halt' = [halt EXCEPT ![w] = IF @ = "error" THEN "none" ELSE @]
    /\ UNCHANGED <<script, retry, broken, due, stored, pending, held, memory,
                   published, fires, wakes, history>>

\* activateScript (api.ts:409-513): all producers are due.
Activate(w) ==
    /\ Changing
    /\ script' = [script EXCEPT ![w] = @ + 1]
    /\ halt' = [halt EXCEPT ![w] = IF @ = "maintenance" THEN "none" ELSE @]
    /\ due' = [due EXCEPT ![w] = w \in Scheduled]
    /\ UNCHANGED <<broken, stored, pending, held, memory, published, fires, wakes, history>>

\* The user activates another version, and may start the workflow with it.
UserActivates(w) ==
    /\ Activate(w)
    /\ active' \in {active, [active EXCEPT ![w] = TRUE]}
    /\ UNCHANGED retry

\* The maintainer's fix makes the run that failed the one to be retried
\* (task-worker.ts:811-816), whatever it had come to.
FixIsActivated(w) ==
    /\ halt[w] = "maintenance"
    /\ Activate(w)
    /\ retry' = [retry EXCEPT ![w] = broken[w]]
    /\ UNCHANGED active

-----------------------------------------------------------------------------
Scheduler ==
    \/ \E w \in Workflows : Track(w)
    \/ PickRetry \/ RefuseRetry \/ PickScheduled \/ PickConsumers
    \/ ProducerCommits \/ StartRun \/ PrepareNothing \/ PrepareEvents \/ Mutate \/ ConsumerCommits
    \/ Complete \/ FailTransient \/ FailForGood("error") \/ FailForGood("maintenance")

Time ==
    \/ \E w \in Workflows : ScheduleFires(w) \/ BackoffEnds(w)
    \/ \E w \in Workflows, c \in Consumers : WakeComes(w, c)

Outside ==
    \/ Restart
    \/ \E w \in Workflows : Pause(w) \/ Resume(w) \/ UserActivates(w) \/ FixIsActivated(w)

Next == Scheduler \/ Time \/ Outside

Spec == Init /\ [][Next]_vars

\* The 10-second interval and the immediate repetition keep the scheduler
\* going, and timers fire.
FairSpec == Spec /\ WF_vars(Scheduler) /\ \A w \in Workflows : WF_vars(BackoffEnds(w))

-----------------------------------------------------------------------------
\* The state stays within its types.
Flags ==
    /\ active \in [Workflows -> BOOLEAN] /\ due \in [Workflows -> BOOLEAN]
    /\ backoff \in [Workflows -> BOOLEAN]
    /\ dirty \in [Workflows -> [Consumers -> BOOLEAN]]
    /\ woken \in [Workflows -> [Consumers -> BOOLEAN]]

ScriptTypes ==
    /\ halt \in [Workflows -> {"none", "error", "maintenance"}]
    /\ script \in [Workflows -> Nat \ {0}] /\ tracked \in [Workflows -> Nat]
    /\ \A w \in Workflows : tracked[w] <= script[w]

RunRef == Consumers \cup {0, Refused}

RunTypes ==
    /\ retry \in [Workflows -> RunRef] /\ broken \in [Workflows -> RunRef]
    /\ held \in [Workflows -> 0 .. MaxEvents] /\ retries \in [Workflows -> 0 .. MaxRetries]

ConsumerTypes ==
    /\ stored \in [Workflows -> [Consumers -> {"none", "later", "due"}]]
    /\ wake \in [Workflows -> [Consumers -> {"none", "later", "due"}]]
    /\ pending \in [Workflows -> [Consumers -> 0 .. MaxEvents]]
    /\ declined \in [Workflows -> [Consumers -> 0 .. MaxEvents]]

Sessions ==
    [w : 0 .. NumWorkflows, trigger : {"none", "retry", "schedule", "event"},
     step : {"off", "producer", "loop", "prepare", "mutate", "emit"},
     c : 0 .. NumConsumers, n : 0 .. MaxEvents, runs : Nat]

SessionTypes ==
    /\ session \in Sessions
    /\ session.step # "off" => session.w \in Workflows
    /\ session.step \in {"prepare", "mutate", "emit"} => session.c \in Consumers
    /\ session.n # 0 => session.step \in {"mutate", "emit"}

CounterTypes ==
    published \in 0 .. MaxEvents /\ fires \in Nat /\ wakes \in Nat /\ changes \in Nat

SchedulingTypeOK == Flags /\ ScriptTypes /\ RunTypes /\ ConsumerTypes /\ SessionTypes /\ CounterTypes

\* An event no empty run of its consumer has passed over keeps the consumer
\* dirty, through failures that release it, retries, restarts and new scripts:
\* no wake-up is lost.  Except for a consumer that a wake-up time made run:
\* it reserves events without being dirty, and when they are released or some
\* are left nothing calls it again (onConsumerCommit, 116-123).
NoLostWakeup ==
    \A w \in Workflows, c \in Consumers :
        tracked[w] = script[w] /\ pending[w][c] > declined[w][c] /\ ~woken[w][c] => dirty[w][c]

\* A wake-up time in memory is also in the database, so that it survives a
\* restart (workflow-scheduler.ts 356-362).
WakesAreStored ==
    \A w \in Workflows, c \in Consumers : wake[w][c] # "none" => stored[w][c] = wake[w][c]

\* While a run waits to be retried no fresh session of the workflow runs, also
\* when the backoff ends while the scheduler looks for work (503-613).
RetriesComeFirst ==
    session.step # "off" /\ session.trigger # "retry" => retry[session.w] = 0

\* Only a workflow that is neither in error nor in the maintainer's hands runs.
SessionsMayRun == session.step # "off" => halt[session.w] = "none"

\* The run a fix makes the one to be retried is still to be retried, or has no
\* retry at all.
BrokenIsRetried ==
    \A w \in Workflows : halt[w] = "maintenance" => broken[w] \in {Refused, retry[w]}

\* A run that holds reserved events was called by its dirty flag, which it
\* keeps, or by a wake-up time.
RunWasCalled ==
    session.step = "mutate" => dirty[session.w][session.c] \/ woken[session.w][session.c]

\* An event is pending, in the run or with the run to be retried, and nowhere
\* twice: releasing, stopping and retrying make no event of none.
InRun(w, c) == IF session.w = w /\ session.c = c THEN session.n ELSE 0
ToRetry(w, c) == IF retry[w] = c THEN held[w] ELSE 0
NothingIsDoubled ==
    \A w \in Workflows, c \in Consumers : pending[w][c] + InRun(w, c) + ToRetry(w, c) <= published

\* Failures in a row do not go on for ever: a workflow that may run and has a
\* due producer is served, or something stops it.  Except when the maintainer
\* has fixed a run that failed before its mutation: the scheduler then tries in
\* vain to retry it, before everything else and without end.
DueIsServed ==
    \A w \in Scheduled :
        due[w] /\ Runnable(w) ~>
            ~due[w] \/ ~Runnable(w) \/ \E v \in Workflows : retry[v] = Refused

\* The state stays within its types, memory and database agree on wake-up times,
\* sessions are begun in the right order, and no event is in two places.
SchedulingInv ==
    /\ SchedulingTypeOK /\ WakesAreStored /\ RetriesComeFirst
    /\ SessionsMayRun /\ BrokenIsRetried /\ RunWasCalled /\ NothingIsDoubled
=============================================================================
