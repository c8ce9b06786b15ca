------------------------------- MODULE Tasks -------------------------------
(***************************************************************************)
(* The task scheduler and worker (agent/src/task-scheduler.ts,             *)
(* task-worker.ts) with the rows they live on: the inbox, the tasks and    *)
(* their runs, the scripts that planners save and maintainers fix, the     *)
(* workflow's maintenance flag and the flag that says the user has to pay. *)
(*                                                                         *)
(* One workflow with its planner and its maintainers; workers have no      *)
(* workflow.  An item is a message of the user or the request a maintainer *)
(* was made for, which is named after it.  The model's answers are a       *)
(* choice: it ends well or in one of the ways the worker tells apart.      *)
(* Texts, threads, histories and costs are left out, and the `asks' of a   *)
(* task, which no tool sets (agent.ts:405).                                *)
(***************************************************************************)
EXTENDS Integers, FiniteSets, Sequences

CONSTANTS
    Planner,      \* the planner task of the workflow
    Workers,      \* tasks of other chats
    Maintainers,  \* tasks that enterMaintenanceMode makes, each once
    Messages,     \* what the user writes
    MaxScripts,   \* versions of the script
    MaxCalls,     \* calls of checkWork at once
    MaxFailures,  \* of the model and of the database
    MaxCrashes

Chats == {Planner} \cup Workers
AllTasks == Chats \cup Maintainers
Items == Messages \cup Maintainers

ASSUME TasksConstants ==
    /\ {MaxScripts, MaxCalls, MaxFailures, MaxCrashes} \subseteq Nat
    /\ Planner \notin Workers /\ Chats \cap Maintainers = {}
    /\ AllTasks \cap Messages = {}

VARIABLES
    \* the database
    inbox,       \* an item: "none", "new" or "handled"
    to,          \* the task a message is for
    state,       \* a task: "open", "finished" or "error"
    open,        \* tasks with a run that has no end, but for failed setups
    scripts,     \* the versions, in the order they were saved
    active,      \* active_script_id, or 0
    maintenance, \* the workflow waits for a maintainer
    ran,         \* the script of the workflow's run under way, or 0
    failed,      \* the script whose failure a maintainer is to fix
    broken,      \* the script of the last run that failed, or 0
    needAuth,
    \* the memory of scheduler and worker
    recovering,  \* the start has found the workflow in maintenance
    calls,       \* calls of checkWork that have read needAuth
    pc, task,    \* what the worker does, and for which task
    items, left, \* the items it has read, and has still to mark
    fix,         \* the script its maintainer saved, or 0
    retry,       \* tasks whose backoff lasts
    paused,      \* globalPauseUntil lies ahead
    \* bounds and history
    failures, crashes,
    read,        \* items of runs whose model calls have ended
    answered,    \* answers to a message
    stranded     \* the workflow was left in maintenance, see Strands

rows == <<inbox, to, state, open>>
workflow == <<scripts, active, maintenance, ran, failed, broken, recovering>>
worker == <<pc, task, items, left, fix>>
scheduler == <<calls, retry, paused>>
history == <<failures, crashes, read, answered, stranded>>
vars == <<rows, workflow, needAuth, worker, scheduler, history>>

Init ==
    /\ inbox = [i \in Items |-> "none"] /\ to = [i \in Messages |-> Planner]
    /\ state = [t \in AllTasks |-> "open"] /\ open = {}
    /\ scripts = << >> /\ active = 0 /\ maintenance = FALSE
    /\ ran = 0 /\ failed = [m \in Maintainers |-> 0] /\ broken = 0 /\ recovering = FALSE
    /\ needAuth = FALSE
    /\ calls = 0 /\ retry = {} /\ paused = FALSE
    /\ pc = "idle" /\ task = Planner /\ items = {} /\ left = {} /\ fix = 0
    /\ failures = 0 /\ crashes = 0 /\ read = {} /\ answered = [i \in Messages |-> 0]
    /\ stranded = FALSE

Target(i) == IF i \in Maintainers THEN i ELSE to[i]
Unhandled(t) == {i \in Items : inbox[i] = "new" /\ Target(i) = t}

\* A new name, in a fixed order: which of them is taken makes no difference.
Fresh(i, names) == inbox[i] = "none" /\ i = CHOOSE j \in names : inbox[j] = "none"

\* executeTask begins or ends, with nothing in its hands.
Turns(next, t) == pc' = next /\ task' = t /\ items' = {} /\ left' = {} /\ fix' = 0

-----------------------------------------------------------------------------
(* The user, and the runs of the workflow.                                 *)

\* addMessage, createTask (api.ts:80-160, 271-394): the message and its inbox
\* item in one transaction.
UserMessage(i, t) ==
    /\ Fresh(i, Messages)
    /\ inbox' = [inbox EXCEPT ![i] = "new"] /\ to' = [to EXCEPT ![i] = t]
    /\ UNCHANGED <<state, open, workflow, needAuth, worker, scheduler, history>>

\* activateScript, called by the user for any version there is.
Activate(s) ==
    /\ active' = s /\ maintenance' = FALSE
    /\ UNCHANGED <<rows, scripts, ran, failed, broken, recovering, needAuth, worker, scheduler, history>>

\* The user has signed in again or paid.
Authenticate ==
    /\ needAuth /\ needAuth' = FALSE
    /\ UNCHANGED <<rows, workflow, worker, scheduler, history>>

RunStarts ==
    /\ active # 0 /\ ~maintenance /\ ~recovering /\ ran = 0 /\ ran' = active
    /\ UNCHANGED <<rows, scripts, active, maintenance, failed, broken, recovering, needAuth, worker,
                   scheduler, history>>

RunEnds ==
    /\ ran # 0 /\ ran' = 0
    /\ UNCHANGED <<rows, scripts, active, maintenance, failed, broken, recovering, needAuth, worker,
                   scheduler, history>>

\* enterMaintenanceMode (api.ts:528-592): flag, task and item at once.
Request(m, s) ==
    /\ Fresh(m, Maintainers) /\ inbox' = [inbox EXCEPT ![m] = "new"]
    /\ maintenance' = TRUE /\ failed' = [failed EXCEPT ![m] = s]
    /\ UNCHANGED <<to, state, open, scripts, active, needAuth, worker, scheduler, history>>

\* The run fails with a logic error.
EnterMaintenance(m) ==
    /\ ran # 0 /\ ran' = 0 /\ broken' = ran /\ Request(m, ran)
    /\ UNCHANGED recovering

\* start (workflow-scheduler.ts:197-205, 245-271): another maintainer for the
\* last run that failed.  The one there may be is not found, as no maintainer
\* is ever in the state "wait" that is looked for.
Recover(m) ==
    /\ recovering /\ recovering' = FALSE /\ Request(m, broken)
    /\ UNCHANGED <<ran, broken>>

-----------------------------------------------------------------------------
(* The scheduler.                                                          *)

\* checkWork, called by a timer, for changed tables and after every task: the
\* flag is read, and the rest happens later.
CheckWork ==
    /\ ~needAuth /\ calls < MaxCalls /\ calls' = calls + 1
    /\ UNCHANGED <<rows, workflow, needAuth, worker, retry, paused, history>>

\* Fault: a task that was finished is not taken again.
Available_Open == {t \in AllTasks : Unhandled(t) # {} /\ t \notin retry /\ state[t] = "open"}

Available == {t \in AllTasks : Unhandled(t) # {} /\ t \notin retry}

\* selectTaskByPriority: planner, then worker, then maintainer.
Selected ==
    IF Planner \in Available THEN {Planner}
    ELSE IF Workers \cap Available # {} THEN Workers \cap Available
    ELSE Available

\* Fault: a task is looked for during the pause.
Proceed_Pausing ==
    /\ calls > 0 /\ calls' = calls - 1
    /\ IF pc # "idle" \/ Available = {} THEN UNCHANGED worker
       ELSE \E t \in Selected : Turns("start", t)
    /\ UNCHANGED <<rows, workflow, needAuth, retry, paused, history>>

\* checkWork and processNextTask: nothing is done while a task is worked on or
\* the pause lasts.
Proceed ==
    /\ calls > 0 /\ calls' = calls - 1
    /\ IF pc # "idle" \/ paused \/ Available = {} THEN UNCHANGED worker
       ELSE \E t \in Selected : Turns("start", t)
    /\ UNCHANGED <<rows, workflow, needAuth, retry, paused, history>>

BackoffEnds(t) ==
    /\ t \in retry /\ retry' = retry \ {t}
    /\ UNCHANGED <<rows, workflow, needAuth, worker, calls, paused, history>>

\* Ten minutes are longer than a query of the flag takes.
PauseEnds ==
    /\ paused /\ calls = 0 /\ paused' = FALSE
    /\ UNCHANGED <<rows, workflow, needAuth, worker, calls, retry, history>>

-----------------------------------------------------------------------------
(* The worker: executeTask.                                                *)

\* getInboxItems, createTaskRun, createSandbox, createEnv (137-235)
Begin ==
    /\ pc = "start" /\ pc' = "loop"
    /\ items' = Unhandled(task) /\ fix' = 0 /\ open' = open \cup {task}
    /\ UNCHANGED <<inbox, to, state, workflow, needAuth, task, left, scheduler, history>>

\* An error before the inner try: it is caught by the scheduler, without a
\* backoff.  A run that has its row already stays open until a restart.
BeginFails ==
    /\ pc = "start" /\ Turns("idle", Planner)
    /\ failures < MaxFailures /\ failures' = failures + 1
    /\ UNCHANGED <<inbox, to, state, open, workflow, needAuth, scheduler,
                   crashes, read, answered, stranded>>

Releases == {s \in DOMAIN scripts : scripts[s].minor = 0}

\* The save tool (save.ts:54-140): the next major version after those that the
\* task has saved.
Save ==
    /\ pc = "loop" /\ task = Planner /\ Len(scripts) < MaxScripts
    /\ \E n \in 1 .. MaxScripts :
        /\ \A s \in Releases : scripts[s].major < n
        /\ n = 1 \/ \E s \in Releases : scripts[s].major = n - 1
        /\ scripts' = Append(scripts, [major |-> n, minor |-> 0])
    /\ UNCHANGED <<rows, active, maintenance, ran, failed, broken, recovering, needAuth, worker,
                   scheduler, history>>

\* The fix tool (fix.ts:48-98): the next minor version after the script that
\* failed, whatever was saved since.
SaveFix ==
    /\ pc = "loop" /\ task \in Maintainers /\ Len(scripts) < MaxScripts
    /\ scripts' = Append(scripts, [scripts[failed[task]] EXCEPT !.minor = @ + 1])
    /\ fix' = Len(scripts) + 1
    /\ UNCHANGED <<rows, active, maintenance, ran, failed, broken, recovering, needAuth, pc, task,
                   items, left, scheduler, history>>

\* The model has given its last answer (263-299).
LoopEnds ==
    /\ pc = "loop" /\ pc' = "handling" /\ left' = items /\ read' = read \cup items
    /\ UNCHANGED <<rows, workflow, needAuth, task, items, fix, scheduler,
                   failures, crashes, answered, stranded>>

\* Fault: what is in the inbox now is marked, not what was read.
HandleItem_Unread(i) ==
    /\ pc \in {"handling", "rejecting"} /\ i \in Unhandled(task)
    /\ inbox' = [inbox EXCEPT ![i] = "handled"] /\ left' = left \ {i}
    /\ UNCHANGED <<to, state, open, workflow, needAuth, pc, task, items, fix, scheduler, history>>

\* handleInboxItems (947-951), one after another.
HandleItem(i) ==
    /\ pc \in {"handling", "rejecting"} /\ i \in left
    /\ inbox' = [inbox EXCEPT ![i] = "handled"] /\ left' = left \ {i}
    /\ UNCHANGED <<to, state, open, workflow, needAuth, pc, task, items, fix, scheduler, history>>

\* finishTaskRun (308-319)
FinishRun ==
    /\ pc = "handling" /\ left = {}
    /\ open' = open \ {task}
    /\ pc' = IF task \in Maintainers THEN "completing" ELSE "closing"
    /\ UNCHANGED <<inbox, to, state, workflow, needAuth, task, items, left, fix, scheduler,
                   failures, crashes, read, answered, stranded>>

\* Fault: the workflow is told, and stays in maintenance.
GiveUp_InMaintenance ==
    /\ pc = "completing" /\ fix = 0 /\ pc' = "closing"
    /\ retry' = retry \ {Planner}
    /\ UNCHANGED <<rows, workflow, needAuth, task, items, left, fix, calls, paused, history>>

\* escalateMaintainerFailure (825-900): it ends the backoff of the workflow's
\* planner, whose id is in its signal.
GiveUp ==
    /\ pc = "completing" /\ fix = 0 /\ pc' = "closing"
    /\ maintenance' = FALSE
    /\ retry' = retry \ {Planner}
    /\ UNCHANGED <<rows, scripts, active, ran, failed, broken, recovering, needAuth, task, items,
                   left, fix, calls, paused, history>>

\* handleMaintainerCompletion (782-806) reads the workflow.  A fix of another
\* script than the active one is kept as a version, and nothing else changes:
\* the workflow stays in maintenance, if no other maintainer ends it.
Compare ==
    /\ pc = "completing" /\ fix # 0
    /\ pc' = IF active = failed[task] THEN "activating" ELSE "closing"
    /\ stranded' = (stranded \/ (active # failed[task] /\ maintenance))
    /\ UNCHANGED <<rows, workflow, needAuth, task, items, left, fix, scheduler,
                   failures, crashes, read, answered>>

ActivateFix ==
    /\ pc = "activating" /\ pc' = "closing"
    /\ active' = fix /\ maintenance' = FALSE
    /\ UNCHANGED <<rows, scripts, ran, failed, broken, recovering, needAuth, task, items, left, fix,
                   scheduler, failures, crashes, read, answered, stranded>>

\* finishTask; the reply comes after it, and a maintainer sends none.
FinishTask ==
    /\ pc = "closing" /\ state' = [state EXCEPT ![task] = "finished"]
    /\ IF task \in Maintainers
       THEN Turns("idle", Planner) /\ retry' = retry \ {task}
       ELSE pc' = "replying" /\ UNCHANGED <<task, items, left, fix, retry>>
    /\ UNCHANGED <<inbox, to, open, workflow, needAuth, calls, paused, history>>

\* handleReply, and the signal that all is done (365-375)
Reply ==
    /\ pc = "replying" /\ Turns("idle", Planner)
    /\ answered' = [i \in Messages |-> IF i \in items THEN answered[i] + 1 ELSE answered[i]]
    /\ retry' = retry \ {task}
    /\ UNCHANGED <<rows, workflow, needAuth, calls, paused, failures, crashes, read, stranded>>

-----------------------------------------------------------------------------
(* Failures.                                                               *)

\* The workflow is in maintenance and its maintainer is left half-way, with
\* the request marked as handled.
Strands ==
    maintenance /\ task \in Maintainers /\ inbox[task] = "handled"
        /\ pc \in {"handling", "rejecting", "completing", "activating"}

\* The inner catch (376-411): the run is ended, the task is opened again and
\* has to wait.
Fails ==
    /\ failures < MaxFailures /\ failures' = failures + 1
    /\ open' = open \ {task}
    /\ state' = [state EXCEPT ![task] = "open"]
    /\ retry' = retry \cup {task}
    /\ stranded' = (stranded \/ Strands)
    /\ UNCHANGED <<inbox, to, workflow, needAuth, calls, paused, crashes, read, answered>>

\* The model cannot be reached or runs out of steps, or a write fails.
StepFails ==
    /\ pc \in {"loop", "handling", "completing", "activating", "closing", "replying"}
    /\ Fails /\ Turns("idle", Planner)

\* PAYMENT_REQUIRED
PaymentFails == pc = "loop" /\ Fails /\ Turns("billing", Planner)

\* The flag is stored, if that works, and the scheduler pauses (435-458).
Bill ==
    /\ pc = "billing" /\ Turns("idle", Planner)
    /\ needAuth' \in {TRUE, needAuth} /\ paused' = TRUE
    /\ UNCHANGED <<rows, workflow, calls, retry, history>>

\* BAD_REQUEST: the items are marked, and the task ends with an error.
BadRequest ==
    /\ pc = "loop" /\ pc' = "rejecting" /\ left' = items /\ read' = read \cup items
    /\ failures < MaxFailures /\ failures' = failures + 1
    /\ open' = open \ {task}
    /\ UNCHANGED <<inbox, to, state, workflow, needAuth, task, items, fix, scheduler,
                   crashes, answered, stranded>>

Reject ==
    /\ pc = "rejecting" /\ left = {} /\ Turns("idle", Planner)
    /\ state' = [state EXCEPT ![task] = "error"]
    /\ retry' = retry \ {task}
    /\ stranded' = (stranded \/ Strands)
    /\ UNCHANGED <<inbox, to, open, workflow, needAuth, calls, paused,
                   failures, crashes, read, answered>>

Stops ==
    /\ crashes < MaxCrashes /\ crashes' = crashes + 1
    /\ calls' = 0 /\ retry' = {} /\ paused' = FALSE
    /\ Turns("idle", Planner)
    /\ ran' = 0 /\ recovering' = maintenance /\ stranded' = FALSE
    /\ UNCHANGED <<inbox, to, state, scripts, active, maintenance, failed, broken, needAuth,
                   failures, read, answered>>

\* The server stops anywhere and starts again: markOrphanedTaskRuns
\* (server.ts:557-576), and Recover if the workflow is in maintenance.
Restart == Stops /\ open' = {}

-----------------------------------------------------------------------------
User ==
    \/ \E i \in Messages, t \in Chats : UserMessage(i, t)
    \/ \E s \in DOMAIN scripts : Activate(s)
    \/ Authenticate

Workflow == RunStarts \/ RunEnds \/ \E m \in Maintainers : EnterMaintenance(m) \/ Recover(m)

Work ==
    \/ Begin \/ BeginFails \/ Save \/ SaveFix \/ LoopEnds
    \/ \E i \in Items : HandleItem(i)
    \/ FinishRun \/ GiveUp \/ Compare \/ ActivateFix \/ FinishTask \/ Reply
    \/ StepFails \/ PaymentFails \/ Bill \/ BadRequest \/ Reject

Time == PauseEnds \/ \E t \in AllTasks : BackoffEnds(t)

Next == User \/ Workflow \/ CheckWork \/ Proceed \/ Work \/ Time \/ Restart

Spec == Init /\ [][Next]_vars

\* The timer calls checkWork again and again, a call goes on, what the worker
\* waits for answers or fails, and time passes: strongly, as the pause ends
\* whether or not a call has begun again when it is looked at.  Nothing is
\* assumed of the user, of the workflow and of restarts.
FairSpec ==
    /\ Spec
    /\ WF_vars(CheckWork) /\ WF_vars(Proceed) /\ WF_vars(Work) /\ SF_vars(Time)

-----------------------------------------------------------------------------
Flags ==
    /\ maintenance \in BOOLEAN /\ recovering \in BOOLEAN /\ needAuth \in BOOLEAN
    /\ paused \in BOOLEAN /\ stranded \in BOOLEAN

RowTypes ==
    /\ inbox \in [Items -> {"none", "new", "handled"}] /\ to \in [Messages -> Chats]
    /\ state \in [AllTasks -> {"open", "finished", "error"}]
    /\ open \subseteq AllTasks /\ retry \subseteq AllTasks

ScriptTypes ==
    /\ scripts \in Seq([major : Nat, minor : Nat])
    /\ active \in 0 .. Len(scripts) /\ ran \in 0 .. Len(scripts)
    /\ fix \in 0 .. Len(scripts) /\ broken \in 0 .. Len(scripts)
    /\ failed \in [Maintainers -> 0 .. Len(scripts)]
    /\ \A m \in Maintainers : inbox[m] # "none" => failed[m] # 0

WorkerTypes ==
    /\ pc \in {"idle", "start", "loop", "handling", "completing", "activating", "closing",
               "replying", "billing", "rejecting"}
    /\ task \in AllTasks /\ items \subseteq Items /\ left \subseteq items /\ read \subseteq Items
    /\ \A i \in items : inbox[i] # "none" /\ Target(i) = task

CounterTypes ==
    /\ calls \in Nat /\ failures \in Nat /\ crashes \in Nat /\ answered \in [Messages -> Nat]

\* The state stays within its types, a maintainer has a script to fix, and
\* only items that are in the inbox are marked and answered.
TasksTypeOK == Flags /\ RowTypes /\ ScriptTypes /\ WorkerTypes /\ CounterTypes

\* A message that arrives while its task is worked on is not lost: an item is
\* marked as handled (947-951) only if a run that came to an end had read it.
HandledWasRead == \A i \in Items : inbox[i] = "handled" => i \in read

\* The user is not answered twice for a message, whatever fails or stops
\* between the model's last answer and the reply (300-375).
AnsweredOnce == \A i \in Messages : answered[i] <= 1

\* Every release of a planner has a major version of its own, also after the
\* user went back to an earlier one (save.ts:64-83).
ReleasesAreDistinct == \A s, u \in Releases : scripts[s].major = scripts[u].major => s = u

\* A run without an end is the one that is worked on, or one that could not be
\* set up: no failure and no restart leaves others (308-319, 384-388, server.ts:570).
OpenRunsAreWorkedOn ==
    \A t \in open : t = task /\ pc \in {"loop", "handling"}

\* A workflow in maintenance has a maintainer that will end it: its request is
\* still in the inbox, or is worked on, or is made by the start that goes on;
\* a restart leaves nothing half-way.  Except, until the next restart, when a
\* maintainer failed after its request was marked, was refused by the model,
\* or fixed a script that was no longer active.
MaintenanceHasWork ==
    maintenance /\ ~stranded =>
        \/ recovering
        \/ \E m \in Maintainers :
            inbox[m] = "new" \/ (task = m /\ pc \in {"handling", "rejecting", "completing", "activating"})

\* No task is started while the user has to pay or to sign in, even by a call
\* that read the flag before it was set (task-scheduler.ts:171-206, 238-245).
UnpaidStops == [][pc = "idle" /\ pc' = "start" => ~needAuth]_vars

\* Every item is handled in the end, through failures, backoffs, pauses and
\* restarts: the inbox is emptied again and again, if the flag does not stay up
\* or come back for ever.
ItemsAreHandled ==
    <>[]~needAuth => []<>(\A i \in Items : inbox[i] # "new")

\* What the worker holds: nothing between two tasks; then the items it has
\* read, of which those it has not left are handled; and a maintainer that was
\* asked for.  Who was answered has no message in its hands any more.
InHand ==
    /\ pc \in {"idle", "start", "billing"} => items = {} /\ left = {} /\ fix = 0
    /\ pc \in {"idle", "billing"} => task = Planner
    /\ task \in Maintainers => inbox[task] # "none"
    /\ pc \in {"completing", "activating"} => task \in Maintainers
    /\ pc \in {"completing", "activating", "closing", "replying"} => left = {}
    /\ pc \in {"handling", "rejecting", "completing", "activating", "closing", "replying"} =>
        \A i \in items \ left : inbox[i] = "handled"
    /\ left \subseteq read
    /\ \A i \in Messages : answered[i] # 0 => inbox[i] = "handled" /\ i \notin items

\* A maintainer is asked for to fix what has failed; and while the user has to pay
\* no call goes on that has read the flag before, unless it meets the pause.
Asked ==
    /\ maintenance \/ recovering => broken # 0
    /\ needAuth => calls = 0 \/ paused

\* The state stays within its types, and items, answers, releases and runs are
\* accounted for; with what this rests on, it is inductive.
TasksInv ==
    /\ TasksTypeOK /\ HandledWasRead /\ AnsweredOnce /\ ReleasesAreDistinct /\ OpenRunsAreWorkedOn
    /\ InHand /\ Asked
=============================================================================
