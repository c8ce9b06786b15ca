--------------------------- MODULE ScriptSandbox ---------------------------
(***************************************************************************)
(* One consumer run from the inside: the script in its QuickJS sandbox     *)
(* (agent/src/sandbox/sandbox.ts), the tools it calls (tool-wrapper.ts),   *)
(* and the phases that evaluate it (handler-state-machine.ts).             *)
(*                                                                         *)
(* A script calls tools and awaits them at once, later or never; a tool is *)
(* a host function that goes on, whatever becomes of the script.  An       *)
(* evaluation ends with the script or with its time.  WorkflowEngine takes *)
(* an evaluation as one step; here its calls may be late.                  *)
(*                                                                         *)
(* A tool is the mutation or another one: reads in prepare, publishing in  *)
(* next.  No caller passes an abort signal, so that there is none here.    *)
(* Events, sessions, the background reconciliation, the user and crashes   *)
(* are in WorkflowEngine.                                                  *)
(***************************************************************************)
EXTENDS Integers, FiniteSets

CONSTANT MaxCalls  \* the calls of tools that the script makes in a run

Calls == 1 .. MaxCalls

ASSUME SandboxConstants == MaxCalls \in Nat

VARIABLES
    \* the rows of the run and of its mutation
    phase, status, mut, outcome,
    \* the handler: what it does, and what it knows of the evaluation
    at, result, row, answer, told,
    \* the script
    sandbox,   \* the phase whose sandbox is alive, or "none"
    guest,     \* "running", "waiting", "returned", "threw" or "gone"
    waits,     \* the calls it waits for
    \* the tool wrapper and the context of the sandbox
    executed, applied, classified,
    \* the calls
    step, in, tool, deferred,
    effect,    \* mutations that have taken place
    \* history
    loose,     \* an evaluation ended before its calls
    excused    \* the error of the mutation was misread, see LedgerIsRight

rows == <<phase, status, mut, outcome>>
handler == <<at, result, row, answer, told>>
script == <<sandbox, guest, waits>>
wrapper == <<executed, applied, classified>>
calls == <<step, in, tool, deferred>>
history == <<loose, excused>>
vars == <<rows, handler, script, wrapper, calls, effect, history>>

Evaluated == {"prepare", "mutate", "next"}
Terminal == {"applied", "failed"}
MutationStatus == {"none", "in_flight", "needs_reconcile", "indeterminate"} \cup Terminal

Init ==
    /\ phase = "preparing" /\ status = "active" /\ mut = "none" /\ outcome = "none"
    /\ at = "loop" /\ result = "none" /\ row = "none" /\ answer = "none" /\ told = "nothing"
    /\ sandbox = "none" /\ guest = "gone" /\ waits = {}
    /\ executed = {} /\ applied = FALSE /\ classified = "none"
    /\ step = [c \in Calls |-> "none"] /\ in = [c \in Calls |-> "none"]
    /\ tool = [c \in Calls |-> "none"] /\ deferred = [c \in Calls |-> "none"]
    /\ effect = {} /\ loose = FALSE /\ excused = FALSE

Live(c) == deferred[c] = "live"
Alive(c) == sandbox = in[c]

-----------------------------------------------------------------------------
(* The script.                                                             *)

\* createFunctionHandle (sandbox.ts:493-567): the tool begins, and the guest
\* gets a promise whose handles are kept in pendingDeferreds.
GuestCalls(c, t) ==
    /\ guest = "running" /\ step[c] = "none" /\ \A d \in Calls : d < c => step[d] # "none"
    /\ step' = [step EXCEPT ![c] = "check"] /\ in' = [in EXCEPT ![c] = sandbox]
    /\ tool' = [tool EXCEPT ![c] = t] /\ deferred' = [deferred EXCEPT ![c] = "live"]
    /\ UNCHANGED <<rows, handler, script, wrapper, effect, history>>

GuestAwaits(c) ==
    /\ guest = "running" /\ Alive(c) /\ Live(c)
    /\ guest' = "waiting" /\ waits' = {c}
    /\ UNCHANGED <<rows, handler, sandbox, wrapper, calls, effect, history>>

GuestEnds ==
    /\ guest = "running" /\ guest' \in {"returned", "threw"}
    /\ UNCHANGED <<rows, handler, sandbox, waits, wrapper, calls, effect, history>>

-----------------------------------------------------------------------------
(* A tool call (tool-wrapper.ts:384-512), each await a step of its own.     *)

Goto(c, s) == step' = [step EXCEPT ![c] = s]

\* classifiedError belongs to the context of its own sandbox.
Classify(c, e) == classified' = IF Alive(c) THEN e ELSE classified

\* PHASE_RESTRICTIONS (65-71)
Allowed(p, t) == t = "mutation" <=> p = "mutate"

\* 390-418: the workflow is not active, the input is not valid, or the phase
\* does not allow the call, as the second mutation of a phase.  Only invalid
\* input is noted for the handler.
CheckFails(c) ==
    /\ step[c] = "check" /\ Goto(c, "settle")
    /\ \/ UNCHANGED <<classified, excused>>
       \/ /\ Classify(c, "logic")
          /\ excused' = (excused \/ (Alive(c) /\ classified = "network"))
    /\ UNCHANGED <<rows, handler, script, executed, applied, in, tool, deferred, effect, loose>>

CheckPasses(c) ==
    /\ step[c] = "check" /\ Allowed(in[c], tool[c])
    /\ IF tool[c] = "mutation"
       THEN /\ in[c] \notin executed /\ executed' = executed \cup {in[c]}
            /\ Goto(c, IF in[c] = "mutate" THEN "record" ELSE "execute")
       ELSE Goto(c, "execute") /\ UNCHANGED executed
    /\ UNCHANGED <<rows, handler, script, applied, classified, in, tool, deferred, effect, history>>

\* createInFlight: one mutation for a run, recorded before it is made.
Record(c) ==
    /\ step[c] = "record"
    /\ IF mut = "none" THEN mut' = "in_flight" /\ Goto(c, "execute")
       ELSE Goto(c, "settle") /\ UNCHANGED mut
    /\ UNCHANGED <<phase, status, outcome, handler, script, wrapper, in, tool, deferred, effect, history>>

TakesEffect(c) ==
    /\ step[c] = "execute" /\ tool[c] = "mutation" /\ c \notin effect
    /\ effect' = effect \cup {c}
    /\ UNCHANGED <<rows, handler, script, wrapper, calls, history>>

\* tool.execute returns, with a result that is as declared.
Succeeds(c) ==
    /\ step[c] = "execute" /\ (tool[c] = "mutation" => c \in effect)
    /\ Goto(c, IF tool[c] = "mutation" THEN "apply" ELSE "settle")
    /\ UNCHANGED <<rows, handler, script, wrapper, in, tool, deferred, effect, history>>

\* It throws, or its result is not as declared.  Errors of permission and
\* logic are thrown by calls that did nothing, and invalid output comes from one
\* that did.
ExecuteFails(c) ==
    /\ step[c] = "execute" /\ Goto(c, "settle")
    /\ \/ Classify(c, "network") /\ UNCHANGED excused
       \/ c \notin effect /\ Classify(c, "logic") /\ UNCHANGED excused
       \/ /\ tool[c] = "mutation" => c \in effect
          /\ Classify(c, "logic") /\ excused' = (excused \/ tool[c] = "mutation")
    /\ UNCHANGED <<rows, handler, script, executed, applied, in, tool, deferred, effect, loose>>

\* applyMutation: refused when the mutation is resolved or its run has gone
\* beyond the phase, and then all is rolled back.
Apply(c) ==
    /\ step[c] = "apply" /\ Goto(c, "settle")
    /\ IF mut \notin Terminal /\ phase = "mutating"
       THEN /\ mut' = "applied" /\ outcome' = "success" /\ phase' = "mutated"
            /\ applied' = TRUE
       ELSE UNCHANGED <<mut, outcome, phase, applied>>
    /\ UNCHANGED <<status, handler, script, executed, classified, in, tool, deferred, effect, history>>

\* The promise of the tool is settled (sandbox.ts:523-560): so is that of the
\* guest, which goes on, unless the sandbox is gone.  It goes on after its
\* evaluation as well.
Settles(c) ==
    /\ step[c] = "settle" /\ Goto(c, "done")
    /\ deferred' = IF Alive(c) THEN [deferred EXCEPT ![c] = "settled"] ELSE deferred
    /\ IF Alive(c) /\ guest = "waiting" /\ c \in waits
       THEN guest' = "running" /\ waits' = {} ELSE UNCHANGED <<guest, waits>>
    /\ UNCHANGED <<rows, handler, sandbox, wrapper, in, tool, effect, history>>

-----------------------------------------------------------------------------
(* The evaluation.                                                         *)

Begin(p) ==
    /\ at' = "eval" /\ sandbox' = p /\ guest' = "running" /\ waits' = {}
    /\ applied' = FALSE /\ classified' = "none" /\ result' = "none"
    /\ UNCHANGED <<rows, row, answer, executed, calls, effect, history>>

Unsettled == \E c \in Calls : Alive(c) /\ Live(c)

\* The result of an evaluation; when the mutation was applied, it does not matter
\* what the script made of it (handler-state-machine.ts:1048-1057).
Ends(r) ==
    /\ at = "eval" /\ at' = "judge"
    /\ result' = IF sandbox = "mutate" /\ applied THEN "applied" ELSE r
    /\ loose' = (loose \/ Unsettled)

EvalReturns ==
    /\ guest \in {"returned", "threw"}
    /\ Ends(IF guest = "returned" THEN "ok" ELSE "error")
    /\ UNCHANGED <<rows, row, answer, told, script, wrapper, calls, effect, excused>>

\* Fault: a script that waits for a tool is waited for.
EvalTimesOut_Running ==
    /\ guest = "running" /\ guest' = "threw"
    /\ Ends("error")
    /\ UNCHANGED <<rows, row, answer, told, sandbox, waits, wrapper, calls, effect, excused>>

\* The time is over: a script that runs is interrupted, one that waits is left
\* waiting (sandbox.ts:262-273).
EvalTimesOut ==
    /\ guest \in {"running", "waiting"}
    /\ guest' = IF guest = "running" THEN "threw" ELSE guest
    /\ Ends("error")
    /\ UNCHANGED <<rows, row, answer, told, sandbox, waits, wrapper, calls, effect, excused>>

\* Fault: only the handles of calls that the script waits for are freed.
Dispose_Waited ==
    /\ at = "dispose" /\ sandbox # "none"
    /\ sandbox' = "none" /\ guest' = "gone" /\ waits' = {}
    /\ deferred' = [c \in Calls |-> IF Live(c) /\ c \in waits THEN "freed" ELSE deferred[c]]
    /\ at' = IF status = "active" THEN "loop" ELSE "over"
    /\ UNCHANGED <<rows, result, row, answer, told, wrapper, step, in, tool, effect, history>>

\* dispose (sandbox.ts:100-112): the handles of promises that are not settled go
\* first, or freeing the runtime would stop the process.
Dispose ==
    /\ at = "dispose" /\ sandbox # "none"
    /\ sandbox' = "none" /\ guest' = "gone" /\ waits' = {}
    /\ deferred' = [c \in Calls |-> IF Live(c) THEN "freed" ELSE deferred[c]]
    /\ at' = IF status = "active" THEN "loop" ELSE "over"
    /\ UNCHANGED <<rows, result, row, answer, told, wrapper, step, in, tool, effect, history>>

-----------------------------------------------------------------------------
(* The handler's judgement.                                                *)

Judges(place) == at' = place /\ UNCHANGED <<result, row, answer, told, script, wrapper, calls, effect, history>>

\* Without a usable result the run fails; else what it reserved is reserved.
JudgePrepare ==
    /\ at = "judge" /\ sandbox = "prepare"
    /\ IF result = "ok" THEN phase' = "prepared" /\ UNCHANGED status
       ELSE status' = "failed" /\ UNCHANGED phase
    /\ Judges("dispose") /\ UNCHANGED <<mut, outcome>>

JudgeNext ==
    /\ at = "judge" /\ sandbox = "next"
    /\ IF result = "ok" THEN phase' = "committed" /\ status' = "committed"
       ELSE status' = "failed" /\ UNCHANGED phase
    /\ Judges("dispose") /\ UNCHANGED <<mut, outcome>>

\* 1051: the row is read, and the branch taken by what it was then.
ReadMutation ==
    /\ at = "judge" /\ sandbox = "mutate" /\ row' = mut
    /\ at' = IF result = "applied" THEN "dispose" ELSE "write"
    /\ UNCHANGED <<rows, result, answer, told, script, wrapper, calls, effect, history>>

\* Fault: no error is uncertain.
Definite_Always == TRUE

\* isDefiniteFailure; an error that nothing noted, such as the time's end, is
\* taken for one of the script.
Definite == classified \in {"none", "logic"}

\* failMutation; when it is refused, the error that this raises is uncertain,
\* and the mutation no longer in flight (1102-1126).
WriteFailed ==
    /\ at = "write" /\ result = "error" /\ row # "none" /\ Definite
    /\ IF mut \in Terminal THEN UNCHANGED <<mut, outcome, phase>>
       ELSE mut' = "failed" /\ outcome' = "failure" /\ phase' = "mutated"
    /\ Judges("dispose") /\ UNCHANGED status

WriteUncertain ==
    /\ at = "write" /\ result = "error" /\ row # "none" /\ ~Definite
    /\ Judges(IF row = "in_flight" THEN "reconcile" ELSE "dispose") /\ UNCHANGED rows

\* No mutation was recorded: the run fails, lest mutate be tried for ever.
WriteNothing ==
    /\ at = "write" /\ result = "error" /\ row = "none"
    /\ status' = "failed"
    /\ Judges("dispose") /\ UNCHANGED <<phase, mut, outcome>>

\* The script is through: without a record, so is the phase.
WriteDone ==
    /\ at = "write" /\ result = "ok"
    /\ phase' = IF row = "none" /\ phase = "mutating" THEN "mutated" ELSE phase
    /\ Judges("dispose") /\ UNCHANGED <<status, mut, outcome>>

\* handleUncertainOutcome: a reconcile method does not lie; one that is missing
\* makes the mutation indeterminate, and one that fails leaves it open.
Ask ==
    /\ at = "reconcile" /\ at' = "conclude"
    /\ answer' \in {"indeterminate", "needs_reconcile", IF effect = {} THEN "failed" ELSE "applied"}
    /\ UNCHANGED <<rows, result, row, told, script, wrapper, calls, effect, history>>

\* A verdict on a mutation that has been resolved meanwhile is refused, and the
\* refusal noted as an attempt that failed: updateMutationStatus writes over
\* what is there.
Conclude ==
    LET refused == mut \in Terminal /\ answer \in Terminal
        resolved == answer \in Terminal /\ ~refused
    IN
    /\ at = "conclude"
    /\ mut' = IF refused THEN "needs_reconcile" ELSE answer
    /\ outcome' = IF ~resolved THEN outcome ELSE IF answer = "applied" THEN "success" ELSE "failure"
    /\ phase' = IF resolved THEN "mutated" ELSE phase
    /\ status' = IF sandbox = "none" /\ ~resolved THEN "paused" ELSE status
    /\ Judges(IF sandbox # "none" THEN "dispose" ELSE IF resolved THEN "loop" ELSE "over")

-----------------------------------------------------------------------------
(* executeHandler's loop: what the phase asks for.                         *)

Dispatch(p) == at = "loop" /\ phase = p

Stop(s) == status' = s /\ Judges("over")

Prepare == Dispatch("preparing") /\ Begin("prepare") /\ UNCHANGED told

Commit == phase' = "committed" /\ Stop("committed") /\ UNCHANGED <<mut, outcome>>

Prepared ==
    /\ Dispatch("prepared")
    /\ \/ Commit
       \/ phase' = "mutating" /\ Judges("loop") /\ UNCHANGED <<status, mut, outcome>>

Mutate ==
    /\ Dispatch("mutating") /\ mut = "none"
    /\ \/ Begin("mutate") /\ UNCHANGED told
       \/ phase' = "mutated" /\ Judges("loop") /\ UNCHANGED <<status, mut, outcome>>

\* A mutation in flight was made by a process that stopped, or by a script that
\* did not wait for it.
MutatingInFlight ==
    /\ Dispatch("mutating") /\ mut = "in_flight"
    /\ Judges("reconcile") /\ UNCHANGED rows

MutatingUncertain ==
    /\ Dispatch("mutating") /\ mut \in {"needs_reconcile", "indeterminate"}
    /\ Stop("paused") /\ UNCHANGED <<phase, mut, outcome>>

\* updateConsumerPhase refuses to go on after a failed mutation.
Mutated ==
    /\ Dispatch("mutated")
    /\ IF outcome = "failure" THEN Stop("failed") /\ UNCHANGED <<phase, mut, outcome>>
       ELSE phase' = "emitting" /\ Judges("loop") /\ UNCHANGED <<status, mut, outcome>>

\* getMutationResultForNextPhase (210-242)
MutationResult == IF mut = "applied" THEN "applied" ELSE "none"

Emitting ==
    /\ Dispatch("emitting")
    /\ \/ Commit
       \/ Begin("next") /\ told' = MutationResult

-----------------------------------------------------------------------------
Guest ==
    \/ \E c \in Calls : \E t \in {"mutation", "other"} : GuestCalls(c, t)
    \/ \E c \in Calls : GuestAwaits(c)
    \/ GuestEnds

Tool(c) ==
    \/ CheckFails(c) \/ CheckPasses(c) \/ Record(c) \/ TakesEffect(c) \/ Succeeds(c)
    \/ ExecuteFails(c) \/ Apply(c) \/ Settles(c)

Handler ==
    \/ EvalReturns \/ EvalTimesOut \/ Dispose
    \/ JudgePrepare \/ JudgeNext \/ ReadMutation
    \/ WriteFailed \/ WriteUncertain \/ WriteNothing \/ WriteDone \/ Ask \/ Conclude
    \/ Prepare \/ Prepared \/ Mutate \/ MutatingInFlight \/ MutatingUncertain \/ Mutated \/ Emitting

Next == Guest \/ Handler \/ \E c \in Calls : Tool(c)

Spec == Init /\ [][Next]_vars

\* The handler goes on: its queries and reconcile methods answer, and the time of
\* an evaluation ends.  Neither scripts nor tools have to.
FairSpec == Spec /\ WF_vars(Handler)

-----------------------------------------------------------------------------
Flags == applied \in BOOLEAN /\ loose \in BOOLEAN /\ excused \in BOOLEAN

\* The state stays within its types, and only the sandbox of the evaluation
\* under way is alive: none outlives its phase.
SandboxTypeOK ==
    /\ Flags
    /\ phase \in {"preparing", "prepared", "mutating", "mutated", "emitting", "committed"}
    /\ status \in {"active", "failed", "paused", "committed"}
    /\ mut \in MutationStatus /\ row \in MutationStatus
    /\ outcome \in {"none", "success", "failure"}
    /\ at \in {"loop", "eval", "judge", "write", "reconcile", "conclude", "dispose", "over"}
    /\ result \in {"none", "ok", "error", "applied"}
    /\ answer \in MutationStatus \ {"in_flight"} /\ (at = "conclude" => answer # "none")
    /\ told \in {"nothing", "none", "applied"}
    /\ guest \in {"running", "waiting", "returned", "threw", "gone"}
    /\ guest = "gone" <=> sandbox = "none"
    /\ waits \subseteq Calls /\ executed \subseteq Evaluated /\ effect \subseteq Calls
    /\ classified \in {"none", "logic", "network"}
    /\ step \in [Calls -> {"none", "check", "record", "execute", "apply", "settle", "done"}]
    /\ in \in [Calls -> Evaluated \cup {"none"}]
    /\ tool \in [Calls -> {"none", "mutation", "other"}]
    /\ deferred \in [Calls -> {"none", "live", "settled", "freed"}]
    /\ at \in {"loop", "over"} => sandbox = "none"
    /\ at \in {"eval", "judge", "dispose"} => sandbox \in Evaluated
    /\ at = "write" => sandbox = "mutate"
    /\ at \in {"reconcile", "conclude"} => sandbox \in {"mutate", "none"}
    /\ guest = "waiting" => waits # {} /\ \A c \in waits : Alive(c) /\ Live(c)

UnderWay(c) == step[c] \notin {"none", "done"}

\* The calls that are or were allowed to mutate.
Mutates(c) == c \in effect \/ (tool[c] = "mutation" /\ step[c] \in {"record", "execute", "apply"})

\* When a runtime is freed no handle of it is left, whatever calls are under
\* way: the library would stop the process (sandbox.ts:74-79).
HandlesAreFreed == \A c \in Calls : Live(c) => Alive(c)

\* A run mutates once, however its script calls, and whatever phase its late
\* calls fall into (tool-wrapper.ts:198-207, 424-433).
OneEffect == Cardinality(effect) <= 1

\* The ledger is right about the world: what took effect was recorded before,
\* what is recorded as applied took effect, and what is recorded as failed did
\* not.  Except when an evaluation ended before its calls, when the output of
\* the mutation was not as declared, or when a later call with invalid input
\* replaced its error: these count as definite failures.
LedgerIsRight ==
    /\ effect # {} => mut # "none"
    /\ mut = "applied" => effect # {}
    /\ mut = "failed" /\ ~loose /\ ~excused => effect = {}

\* next is told that the mutation was applied only if it was, and that there
\* was none only if there was none, unless an evaluation ended before its calls
\* (handler-state-machine.ts:908-910).
NextIsToldRight ==
    /\ told = "applied" => effect # {}
    /\ told = "none" /\ ~loose => effect = {}

\* A call that is under way in a living sandbox has a promise there.  Calls
\* outlive their evaluation, and the script goes on after it, only if it was
\* not done with its calls when it ended.
Quiet ==
    /\ \A c \in Calls : Live(c) \/ UnderWay(c) => in[c] # "none"
    /\ \A c \in Calls : Alive(c) /\ UnderWay(c) => Live(c)
    /\ ~loose => \A c \in Calls : UnderWay(c) => at = "eval" /\ Alive(c)
    /\ ~loose /\ at # "eval" => guest \in {"returned", "threw", "gone"}

Begun(p) == sandbox = p \/ \E c \in Calls : in[c] = p

\* No phase is evaluated twice: what is begun of it is under way, or it leaves
\* the run at the end or further on.
BegunOnce ==
    /\ at \notin {"dispose", "over"} => status = "active"
    /\ at \in {"eval", "judge"} /\ sandbox = "prepare" => phase = "preparing"
    /\ at \in {"eval", "judge"} /\ sandbox = "next" => phase = "emitting"
    /\ (at = "write" /\ row # "none") \/ at \in {"reconcile", "conclude"} => mut # "none"
    /\ result = "applied" \/ (sandbox = "mutate" /\ applied) => mut # "none"
    /\ Begun("prepare") /\ phase = "preparing" =>
        status # "active" \/ (sandbox = "prepare" /\ at # "dispose")
    /\ Begun("mutate") => phase \notin {"preparing", "prepared"}
    /\ Begun("mutate") /\ phase = "mutating" /\ mut = "none" =>
        status # "active" \/ (sandbox = "mutate" /\ at # "dispose")
    /\ Begun("next") => told # "nothing"

\* One mutation passes the check, and it belongs to the phase mutate; what is
\* executed there has been recorded, and what is to be applied has been made.
OneMutation ==
    /\ \A c \in Calls : Mutates(c) => tool[c] = "mutation" /\ in[c] = "mutate" /\ "mutate" \in executed
    /\ \A c, d \in Calls : Mutates(c) /\ Mutates(d) => c = d
    /\ \A c \in Calls : step[c] \in {"record", "apply"} => tool[c] = "mutation"
    /\ \A c \in Calls : step[c] = "execute" /\ in[c] = "mutate" => tool[c] = "mutation"
    /\ \A c \in Calls : step[c] \in {"execute", "apply"} /\ tool[c] = "mutation" => mut # "none"
    /\ \A c \in Calls : step[c] = "apply" => c \in effect
    /\ \A c \in effect : step[c] \in {"execute", "apply", "settle", "done"}

\* What the handler read and was told is still so when it writes, if the
\* evaluation was done with its calls; and a mutation that took effect in it has
\* left an error that is uncertain, unless that was misread.
Judged ==
    LET mutating == at \in {"eval", "judge", "write"} /\ sandbox = "mutate" IN
    /\ mutating => mut \in Terminal \/ phase = "mutating"
    /\ at = "eval" /\ mutating => mut \in {"none", "in_flight", "applied"}
    /\ mutating => \A c \in effect :
            step[c] \in {"settle", "done"} => excused \/ classified = "network" \/ mut \in Terminal
    /\ at = "write" /\ ~loose => row = mut
    /\ at \in {"reconcile", "conclude"} /\ ~loose => mut = "in_flight"
    /\ at = "conclude" /\ answer = "applied" => effect # {}
    /\ at = "conclude" /\ answer = "failed" /\ ~loose => effect = {}

\* Only what is resolved is left behind, and only a success reaches next.
LeftBehind ==
    /\ phase \in {"preparing", "prepared"} => mut = "none"
    /\ ~loose /\ phase \in {"mutated", "emitting", "committed"} => mut \in {"none"} \cup Terminal
    /\ ~loose /\ mut = "failed" => phase = "mutated" /\ outcome = "failure"
    /\ told # "nothing" => sandbox = "next" \/ at = "over"
    /\ told # "nothing" /\ at = "dispose" => status # "active"

\* Every run comes to an end though its script runs for ever or awaits a
\* tool that never answers (sandbox.ts:262-273, handler-state-machine.ts:1079-1084).
RunComesToAnEnd == status = "active" ~> status # "active"

\* The state stays within its types, no handle outlives its runtime, a run
\* mutates once, and next hears of that; with what this rests on, it is
\* inductive together with LedgerIsRight.
SandboxInv ==
    /\ SandboxTypeOK /\ HandlesAreFreed /\ OneEffect /\ NextIsToldRight
    /\ Quiet /\ BegunOnce /\ OneMutation /\ Judged /\ LeftBehind
=============================================================================
