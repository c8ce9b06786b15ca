------------------------ MODULE ScriptSandbox_proofs ------------------------
(* Proofs about ScriptSandbox, for any number of calls that a script makes. *)
(* SandboxInv and LedgerIsRight are inductive together.  Each part of them  *)
(* has a lemma, with one case per action that says what the action does to  *)
(* the part; the theorems follow at the end.                                *)
EXTENDS ScriptSandbox, FiniteSetTheorems, TLAPS

USE DEF rows, handler, script, wrapper, calls, history, Live, Alive, UnderWay, Mutates, Evaluated, Terminal, MutationStatus, Calls

\* The steps of a call up to its recording.
LEMMA CheckPassesEffect ==
    ASSUME NEW c \in Calls, CheckPasses(c)
    PROVE  /\ step[c] = "check" /\ (tool[c] = "mutation" <=> in[c] = "mutate")
           /\ step' = [step EXCEPT ![c] = IF tool[c] = "mutation" THEN "record" ELSE "execute"]
           /\ tool[c] = "mutation" => "mutate" \notin executed /\ "mutate" \in executed'
           /\ tool[c] # "mutation" => UNCHANGED executed
           /\ UNCHANGED <<rows, handler, script, in, tool, deferred, effect, loose>>
BY DEF CheckPasses, Goto, Allowed

\* createInFlight finds a mutation, or makes one.
LEMMA RecordEffect ==
    ASSUME NEW c \in Calls, Record(c)
    PROVE  \E s \in {"execute", "settle"} :
               /\ step[c] = "record" /\ step' = [step EXCEPT ![c] = s]
               /\ mut' # "none"
               /\ UNCHANGED <<handler, script, executed, in, tool, deferred, effect, loose>>
<1>1. CASE mut = "none"
  BY <1>1 DEF Record, Goto
<1>2. CASE mut # "none"
  BY <1>2 DEF Record, Goto
<1> QED BY <1>1, <1>2

\* Every step keeps the flags Boolean.
LEMMA FlagsStep ==
    ASSUME Flags, [Next]_vars
    PROVE  Flags'
<1> USE DEF Flags
<1>1. CASE UNCHANGED vars
  BY <1>1 DEF vars
<1>2. CASE Guest
  BY <1>2, Zenon DEF Guest, GuestCalls, GuestAwaits, GuestEnds
<1>3. ASSUME NEW c \in Calls, Tool(c) PROVE Flags'
  BY <1>3, Zenon DEF Tool, CheckFails, CheckPasses, Record, TakesEffect, Succeeds, ExecuteFails, Apply, Settles
<1>4. CASE Handler
  <2>1. CASE EvalReturns \/ EvalTimesOut
    BY <2>1, Zenon DEF EvalReturns, EvalTimesOut, Ends, Unsettled
  <2>2. CASE Prepare \/ Mutate \/ Emitting
    BY <2>2, Zenon DEF Prepare, Mutate, Emitting, Begin, Commit, Stop, Judges
  <2>3. CASE Dispose \/ JudgePrepare \/ JudgeNext \/ ReadMutation \/ WriteFailed \/ WriteUncertain \/ WriteNothing \/ WriteDone
    BY <2>3, Zenon DEF Dispose, JudgePrepare, JudgeNext, ReadMutation, WriteFailed, WriteUncertain, WriteNothing, WriteDone, Judges
  <2>4. CASE Ask \/ Conclude \/ Prepared \/ MutatingInFlight \/ MutatingUncertain \/ Mutated
    BY <2>4, Zenon DEF Ask, Conclude, Prepared, MutatingInFlight, MutatingUncertain, Mutated, Commit, Stop, Judges
  <2> QED BY <1>4, <2>1, <2>2, <2>3, <2>4 DEF Handler
<1> QED BY <1>1, <1>2, <1>3, <1>4 DEF Next

\* Every step keeps the types, and the sandbox that its place asks for.
LEMMA TypeStep ==
    ASSUME SandboxInv, LedgerIsRight, [Next]_vars
    PROVE  SandboxTypeOK'
<1> USE DEF SandboxInv, SandboxTypeOK, HandlesAreFreed
<1>0. Flags'
  BY FlagsStep
<1>1. CASE UNCHANGED vars
  BY <1>0, <1>1 DEF vars
<1>2. ASSUME NEW c \in Calls, NEW t \in {"mutation", "other"}, GuestCalls(c, t) PROVE SandboxTypeOK'
  BY <1>0, <1>2 DEF GuestCalls
<1>3. ASSUME NEW c \in Calls, GuestAwaits(c) PROVE SandboxTypeOK'
  BY <1>0, <1>3 DEF GuestAwaits
<1>4. CASE GuestEnds
  BY <1>0, <1>4 DEF GuestEnds
<1>5. ASSUME NEW c \in Calls, Tool(c) PROVE SandboxTypeOK'
  <2>1. CASE CheckFails(c)
    BY <1>0, <2>1 DEF CheckFails, Goto, Classify
  <2>2. CASE CheckPasses(c)
    <3>0. in[c] \in Evaluated \/ tool[c] # "mutation"
      BY <2>2 DEF CheckPasses, Allowed
    <3>1. step[c] = "check" /\ executed' \subseteq Evaluated
      BY <2>2, <3>0 DEF CheckPasses
    <3>2. step' = [step EXCEPT ![c] = "execute"] \/ step' = [step EXCEPT ![c] = "record"]
      BY <2>2 DEF CheckPasses, Goto
    <3>3. UNCHANGED <<rows, handler, script, applied, classified, in, tool, deferred, effect, history>>
      BY <2>2 DEF CheckPasses
    <3> QED BY <1>0, <3>1, <3>2, <3>3
  <2>3. CASE Record(c)
    BY <1>0, <2>3 DEF Record, Goto
  <2>4. CASE TakesEffect(c)
    BY <1>0, <2>4 DEF TakesEffect
  <2>5. CASE Succeeds(c)
    BY <1>0, <2>5 DEF Succeeds, Goto
  <2>6. CASE ExecuteFails(c)
    BY <1>0, <2>6 DEF ExecuteFails, Goto, Classify
  <2>7. CASE Apply(c)
    BY <1>0, <2>7 DEF Apply, Goto
  <2>8. CASE Settles(c)
    <3>1. UNCHANGED <<rows, handler, sandbox, wrapper, in, tool, effect, history>> /\ step' = [step EXCEPT ![c] = "done"]
      BY <2>8 DEF Settles, Goto
    <3>2. deferred' \in [Calls -> {"none", "live", "settled", "freed"}]
      BY <2>8 DEF Settles
    <3>3. guest' \in {"running", "waiting", "returned", "threw", "gone"} /\ (guest' = "gone" <=> sandbox' = "none") /\ waits' \subseteq Calls
      BY <2>8 DEF Settles
    <3>4. ASSUME guest' = "waiting" PROVE waits' # {} /\ \A d \in waits' : Alive(d)' /\ Live(d)'
      <4>1. guest = "waiting" /\ waits' = waits /\ c \notin waits
        BY <2>8, <3>4 DEF Settles
      <4>2. \A d \in waits : deferred'[d] = deferred[d] /\ Alive(d)'
        BY <2>8, <4>1, <3>1 DEF Settles
      <4> QED BY <4>1, <4>2
    <3> QED BY <1>0, <3>1, <3>2, <3>3, <3>4
  <2> QED BY <1>5, <2>1, <2>2, <2>3, <2>4, <2>5, <2>6, <2>7, <2>8 DEF Tool
<1>6. CASE Handler
  <2>1. CASE EvalReturns
    BY <1>0, <2>1 DEF EvalReturns, Ends, Unsettled
  <2>2. CASE EvalTimesOut
    BY <1>0, <2>2 DEF EvalTimesOut, Ends, Unsettled
  <2>3. CASE Dispose
    BY <1>0, <2>3 DEF Dispose
  <2>4. CASE JudgePrepare
    BY <1>0, <2>4 DEF JudgePrepare, Judges
  <2>5. CASE JudgeNext
    BY <1>0, <2>5 DEF JudgeNext, Judges
  <2>6. CASE ReadMutation
    BY <1>0, <2>6 DEF ReadMutation
  <2>7. CASE WriteFailed
    BY <1>0, <2>7 DEF WriteFailed, Judges, Definite
  <2>8. CASE WriteUncertain
    BY <1>0, <2>8 DEF WriteUncertain, Judges, Definite
  <2>9. CASE WriteNothing
    BY <1>0, <2>9 DEF WriteNothing, Judges
  <2>10. CASE WriteDone
    BY <1>0, <2>10 DEF WriteDone, Judges
  <2>11. CASE Ask
    BY <1>0, <2>11 DEF Ask
  <2>12. CASE Conclude
    BY <1>0, <2>12 DEF Conclude, Judges
  <2>13. CASE Prepare
    BY <1>0, <2>13 DEF Prepare, Dispatch, Begin
  <2>14. CASE Prepared
    <3>1. CASE Commit
      BY <1>0, <2>14, <3>1 DEF Prepared, Dispatch, Commit, Stop, Judges
    <3>2. CASE phase' = "mutating" /\ Judges("loop") /\ UNCHANGED <<status, mut, outcome>>
      BY <1>0, <2>14, <3>2 DEF Prepared, Dispatch, Commit, Stop, Judges
    <3> QED BY <2>14, <3>1, <3>2 DEF Prepared
  <2>15. CASE Mutate
    <3>1. CASE Begin("mutate") /\ UNCHANGED told
      BY <1>0, <2>15, <3>1 DEF Mutate, Dispatch, Begin, Judges
    <3>2. CASE phase' = "mutated" /\ Judges("loop") /\ UNCHANGED <<status, mut, outcome>>
      BY <1>0, <2>15, <3>2 DEF Mutate, Dispatch, Begin, Judges
    <3> QED BY <2>15, <3>1, <3>2 DEF Mutate
  <2>16. CASE MutatingInFlight
    BY <1>0, <2>16 DEF MutatingInFlight, Dispatch, Judges
  <2>17. CASE MutatingUncertain
    BY <1>0, <2>17 DEF MutatingUncertain, Dispatch, Stop, Judges
  <2>18. CASE Mutated
    <3>1. /\ phase' \in {"mutated", "emitting"} /\ (status' = status \/ status' = "failed") /\ at' \in {"loop", "over"}
          /\ sandbox = "none" /\ UNCHANGED <<mut, outcome, result, row, answer, told, script, wrapper, calls, effect, history>> /\ at = "loop" /\ (at' = "loop" => status' = status) /\ phase = "mutated" /\ (outcome = "failure" => phase' = phase)
      BY <2>18 DEF Mutated, Dispatch, Stop, Judges
    <3> QED BY <1>0, <3>1
  <2>19. CASE Emitting
    <3>1. CASE Commit
      BY <1>0, <2>19, <3>1 DEF Emitting, Dispatch, Commit, Stop, Judges, Begin, MutationResult
    <3>2. CASE Begin("next") /\ told' = MutationResult
      BY <1>0, <2>19, <3>2 DEF Emitting, Dispatch, Commit, Stop, Judges, Begin, MutationResult
    <3> QED BY <2>19, <3>1, <3>2 DEF Emitting
  <2> QED BY <1>6, <2>1, <2>2, <2>3, <2>4, <2>5, <2>6, <2>7, <2>8, <2>9, <2>10, <2>11, <2>12, <2>13, <2>14, <2>15, <2>16, <2>17, <2>18, <2>19 DEF Handler
<1> QED BY <1>1, <1>2, <1>3, <1>4, <1>5, <1>6 DEF Next, Guest

\* Handles belong to the sandbox that is alive: only its own end disturbs that,
\* and it frees them all.
LEMMA FreedStep ==
    ASSUME SandboxInv, LedgerIsRight, [Next]_vars
    PROVE  HandlesAreFreed'
<1> USE DEF SandboxInv, SandboxTypeOK, HandlesAreFreed, Quiet
<1>1. CASE UNCHANGED vars
  BY <1>1 DEF vars
<1>2. ASSUME NEW c \in Calls, NEW t \in {"mutation", "other"}, GuestCalls(c, t) PROVE HandlesAreFreed'
  BY <1>2 DEF GuestCalls
<1>3. ASSUME NEW c \in Calls, GuestAwaits(c) PROVE HandlesAreFreed'
  BY <1>3 DEF GuestAwaits
<1>4. CASE GuestEnds
  BY <1>4 DEF GuestEnds
<1>5. ASSUME NEW c \in Calls, Tool(c) PROVE HandlesAreFreed'
  <2>1. CASE CheckFails(c)
    BY <2>1 DEF CheckFails, Goto, Classify
  <2>2. CASE CheckPasses(c)
    <3>1. CASE tool[c] = "mutation"
      BY <2>2, <3>1 DEF CheckPasses, Goto, Allowed
    <3>2. CASE tool[c] # "mutation"
      BY <2>2, <3>2 DEF CheckPasses, Goto, Allowed
    <3> QED BY <2>2, <3>1, <3>2 DEF CheckPasses
  <2>3. CASE Record(c)
    <3>1. CASE mut = "none"
      BY <2>3, <3>1 DEF Record, Goto
    <3>2. CASE mut # "none"
      BY <2>3, <3>2 DEF Record, Goto
    <3> QED BY <2>3, <3>1, <3>2 DEF Record
  <2>4. CASE TakesEffect(c)
    BY <2>4 DEF TakesEffect
  <2>5. CASE Succeeds(c)
    BY <2>5 DEF Succeeds, Goto
  <2>6. CASE ExecuteFails(c)
    BY <2>6 DEF ExecuteFails, Goto, Classify
  <2>7. CASE Apply(c)
    BY <2>7 DEF Apply, Goto
  <2>8. CASE Settles(c)
    BY <2>8 DEF Settles, Goto
  <2> QED BY <1>5, <2>1, <2>2, <2>3, <2>4, <2>5, <2>6, <2>7, <2>8 DEF Tool
<1>6. CASE Handler
  <2>1. CASE EvalReturns
    BY <2>1 DEF EvalReturns, Ends, Unsettled
  <2>2. CASE EvalTimesOut
    BY <2>2 DEF EvalTimesOut, Ends, Unsettled
  <2>3. CASE Dispose
    BY <2>3 DEF Dispose
  <2>4. CASE JudgePrepare
    BY <2>4 DEF JudgePrepare, Judges
  <2>5. CASE JudgeNext
    BY <2>5 DEF JudgeNext, Judges
  <2>6. CASE ReadMutation
    BY <2>6 DEF ReadMutation
  <2>7. CASE WriteFailed
    BY <2>7 DEF WriteFailed, Judges, Definite
  <2>8. CASE WriteUncertain
    BY <2>8 DEF WriteUncertain, Judges, Definite
  <2>9. CASE WriteNothing
    BY <2>9 DEF WriteNothing, Judges
  <2>10. CASE WriteDone
    BY <2>10 DEF WriteDone, Judges
  <2>11. CASE Ask
    BY <2>11 DEF Ask
  <2>12. CASE Conclude
    BY <2>12 DEF Conclude, Judges
  <2>13. CASE Prepare
    BY <2>13 DEF Prepare, Dispatch, Begin
  <2>14. CASE Prepared
    BY <2>14 DEF Prepared, Dispatch, Commit, Stop, Judges
  <2>15. CASE Mutate
    BY <2>15 DEF Mutate, Dispatch, Begin, Judges
  <2>16. CASE MutatingInFlight
    BY <2>16 DEF MutatingInFlight, Dispatch, Judges
  <2>17. CASE MutatingUncertain
    BY <2>17 DEF MutatingUncertain, Dispatch, Stop, Judges
  <2>18. CASE Mutated
    BY <2>18 DEF Mutated, Dispatch, Stop, Judges
  <2>19. CASE Emitting
    BY <2>19 DEF Emitting, Dispatch, Commit, Stop, Judges, Begin, MutationResult
  <2> QED BY <1>6, <2>1, <2>2, <2>3, <2>4, <2>5, <2>6, <2>7, <2>8, <2>9, <2>10, <2>11, <2>12, <2>13, <2>14, <2>15, <2>16, <2>17, <2>18, <2>19 DEF Handler
<1> QED BY <1>1, <1>2, <1>3, <1>4, <1>5, <1>6 DEF Next, Guest

\* A script that was done with its calls leaves nothing under way behind.
LEMMA QuietStep ==
    ASSUME SandboxInv, LedgerIsRight, [Next]_vars
    PROVE  Quiet'
<1> USE DEF SandboxInv, SandboxTypeOK, HandlesAreFreed, Quiet, BegunOnce, LeftBehind, Begun
<1>1. CASE UNCHANGED vars
  BY <1>1 DEF vars
<1>2. ASSUME NEW c \in Calls, NEW t \in {"mutation", "other"}, GuestCalls(c, t) PROVE Quiet'
  BY <1>2 DEF GuestCalls
<1>3. ASSUME NEW c \in Calls, GuestAwaits(c) PROVE Quiet'
  BY <1>3 DEF GuestAwaits
<1>4. CASE GuestEnds
  BY <1>4 DEF GuestEnds
<1>5. ASSUME NEW c \in Calls, Tool(c) PROVE Quiet'
  <2>1. CASE CheckFails(c)
    BY <2>1 DEF CheckFails, Goto, Classify
  <2>2. CASE CheckPasses(c)
    <3>0. PICK s : step[c] = "check" /\ step' = [step EXCEPT ![c] = s]
      BY <1>5, <2>2, CheckPassesEffect
    <3>1. \A d \in Calls : UnderWay(d)' => UnderWay(d)
      BY <1>5, <3>0
    <3>2. UNCHANGED <<at, guest, sandbox, in, deferred, loose>>
      BY <1>5, <2>2, CheckPassesEffect
    <3> HIDE DEF UnderWay
    <3> QED BY <3>1, <3>2
  <2>3. CASE Record(c)
    <3>0. PICK s : step[c] = "record" /\ step' = [step EXCEPT ![c] = s]
      BY <1>5, <2>3, RecordEffect
    <3>1. \A d \in Calls : UnderWay(d)' => UnderWay(d)
      BY <1>5, <3>0
    <3>2. UNCHANGED <<at, guest, sandbox, in, deferred, loose>>
      BY <2>3, RecordEffect
    <3> HIDE DEF UnderWay
    <3> QED BY <3>1, <3>2
  <2>4. CASE TakesEffect(c)
    BY <2>4 DEF TakesEffect
  <2>5. CASE Succeeds(c)
    BY <2>5 DEF Succeeds, Goto
  <2>6. CASE ExecuteFails(c)
    BY <2>6 DEF ExecuteFails, Goto, Classify
  <2>7. CASE Apply(c)
    BY <2>7 DEF Apply, Goto
  <2>8. CASE Settles(c)
    BY <2>8 DEF Settles, Goto
  <2> QED BY <1>5, <2>1, <2>2, <2>3, <2>4, <2>5, <2>6, <2>7, <2>8 DEF Tool
<1>6. CASE Handler
  <2>1. CASE EvalReturns
    <3>1. at = "eval" /\ at' = "judge" /\ (loose' <=> loose \/ Unsettled)
      BY <2>1, Zenon DEF EvalReturns, Ends
    <3>2. UNCHANGED <<sandbox, calls>> /\ (guest' = guest \/ guest' = "threw")
      BY <2>1 DEF EvalReturns
    <3>3. guest' \in {"waiting", "returned", "threw"}
      BY <2>1 DEF EvalReturns
    <3>4. ~loose' => \A c \in Calls : ~(Alive(c) /\ Live(c))
      <4> HIDE DEF Alive, Live, Calls, SandboxInv, LedgerIsRight
      <4>1. ~loose' => ~Unsettled
        BY <3>1
      <4>2. ~Unsettled => \A c \in Calls : ~(Alive(c) /\ Live(c))
        BY ONLY Zenon DEF Unsettled
      <4> QED BY <4>1, <4>2
    <3>5. ~loose' => ~loose /\ \A c \in Calls : ~UnderWay(c)
      <4>1. ~loose' => ~loose
        BY <3>1
      <4> QED BY <3>1, <3>4, <4>1
    <3>6. ~loose' => guest' # "waiting"
      <4>1. ~loose' => guest # "waiting"
        <5> HIDE DEF Alive, Live, Calls
        <5> QED BY <3>4
      <4> QED BY <3>2, <4>1
    <3> HIDE DEF UnderWay, Live, Alive
    <3>7. UNCHANGED <<in, deferred, sandbox>> /\ \A c \in Calls : UnderWay(c)' <=> UnderWay(c)
      BY <3>2 DEF UnderWay
    <3>8. /\ \A c \in Calls : Live(c)' <=> Live(c)
          /\ \A c \in Calls : Alive(c)' <=> Alive(c)
      BY <3>7 DEF Live, Alive
    <3>9. /\ \A c \in Calls : Live(c)' \/ UnderWay(c)' => in'[c] # "none"
          /\ \A c \in Calls : Alive(c)' /\ UnderWay(c)' => Live(c)'
      BY <3>7, <3>8
    <3>10. ~loose' => \A c \in Calls : ~UnderWay(c)'
      BY <3>5, <3>7
    <3>11. ~loose' => guest' \in {"returned", "threw", "gone"}
      BY <3>3, <3>6
    <3> HIDE DEF SandboxInv, LedgerIsRight
    <3> QED BY <3>9, <3>10, <3>11
  <2>2. CASE EvalTimesOut
    <3>1. at = "eval" /\ at' = "judge" /\ (loose' <=> loose \/ Unsettled)
      BY <2>2, Zenon DEF EvalTimesOut, Ends
    <3>2. UNCHANGED <<sandbox, calls>> /\ (guest' = guest \/ guest' = "threw")
      BY <2>2 DEF EvalTimesOut
    <3>3. guest' \in {"waiting", "returned", "threw"}
      BY <2>2 DEF EvalTimesOut
    <3>4. ~loose' => \A c \in Calls : ~(Alive(c) /\ Live(c))
      <4> HIDE DEF Alive, Live, Calls, SandboxInv, LedgerIsRight
      <4>1. ~loose' => ~Unsettled
        BY <3>1
      <4>2. ~Unsettled => \A c \in Calls : ~(Alive(c) /\ Live(c))
        BY ONLY Zenon DEF Unsettled
      <4> QED BY <4>1, <4>2
    <3>5. ~loose' => ~loose /\ \A c \in Calls : ~UnderWay(c)
      <4>1. ~loose' => ~loose
        BY <3>1
      <4> QED BY <3>1, <3>4, <4>1
    <3>6. ~loose' => guest' # "waiting"
      <4>1. ~loose' => guest # "waiting"
        <5> HIDE DEF Alive, Live, Calls
        <5> QED BY <3>4
      <4> QED BY <3>2, <4>1
    <3> HIDE DEF UnderWay, Live, Alive
    <3>7. UNCHANGED <<in, deferred, sandbox>> /\ \A c \in Calls : UnderWay(c)' <=> UnderWay(c)
      BY <3>2 DEF UnderWay
    <3>8. /\ \A c \in Calls : Live(c)' <=> Live(c)
          /\ \A c \in Calls : Alive(c)' <=> Alive(c)
      BY <3>7 DEF Live, Alive
    <3>9. /\ \A c \in Calls : Live(c)' \/ UnderWay(c)' => in'[c] # "none"
          /\ \A c \in Calls : Alive(c)' /\ UnderWay(c)' => Live(c)'
      BY <3>7, <3>8
    <3>10. ~loose' => \A c \in Calls : ~UnderWay(c)'
      BY <3>5, <3>7
    <3>11. ~loose' => guest' \in {"returned", "threw", "gone"}
      BY <3>3, <3>6
    <3> HIDE DEF SandboxInv, LedgerIsRight
    <3> QED BY <3>9, <3>10, <3>11
  <2>3. CASE Dispose
    BY <2>3 DEF Dispose
  <2>4. CASE JudgePrepare
    BY <2>4 DEF JudgePrepare, Judges
  <2>5. CASE JudgeNext
    BY <2>5 DEF JudgeNext, Judges
  <2>6. CASE ReadMutation
    BY <2>6 DEF ReadMutation
  <2>7. CASE WriteFailed
    BY <2>7 DEF WriteFailed, Judges, Definite
  <2>8. CASE WriteUncertain
    BY <2>8 DEF WriteUncertain, Judges, Definite
  <2>9. CASE WriteNothing
    BY <2>9 DEF WriteNothing, Judges
  <2>10. CASE WriteDone
    BY <2>10 DEF WriteDone, Judges
  <2>11. CASE Ask
    BY <2>11 DEF Ask
  <2>12. CASE Conclude
    BY <2>12 DEF Conclude, Judges
  <2>13. CASE Prepare
    BY <2>13 DEF Prepare, Dispatch, Begin
  <2>14. CASE Prepared
    <3>1. CASE Commit
      BY <2>14, <3>1 DEF Prepared, Dispatch, Commit, Stop, Judges
    <3>2. CASE phase' = "mutating" /\ Judges("loop") /\ UNCHANGED <<status, mut, outcome>>
      BY <2>14, <3>2 DEF Prepared, Dispatch, Commit, Stop, Judges
    <3> QED BY <2>14, <3>1, <3>2 DEF Prepared
  <2>15. CASE Mutate
    <3>1. CASE Begin("mutate") /\ UNCHANGED told
      BY <2>15, <3>1 DEF Mutate, Dispatch, Begin, Judges
    <3>2. CASE phase' = "mutated" /\ Judges("loop") /\ UNCHANGED <<status, mut, outcome>>
      BY <2>15, <3>2 DEF Mutate, Dispatch, Begin, Judges
    <3> QED BY <2>15, <3>1, <3>2 DEF Mutate
  <2>16. CASE MutatingInFlight
    BY <2>16 DEF MutatingInFlight, Dispatch, Judges
  <2>17. CASE MutatingUncertain
    BY <2>17 DEF MutatingUncertain, Dispatch, Stop, Judges
  <2>18. CASE Mutated
    <3>1. /\ phase' \in {"mutated", "emitting"} /\ (status' = status \/ status' = "failed") /\ at' \in {"loop", "over"}
          /\ sandbox = "none" /\ UNCHANGED <<mut, outcome, result, row, answer, told, script, wrapper, calls, effect, history>> /\ at = "loop" /\ (at' = "loop" => status' = status) /\ phase = "mutated" /\ (outcome = "failure" => phase' = phase)
      BY <2>18 DEF Mutated, Dispatch, Stop, Judges
    <3> QED BY <3>1
  <2>19. CASE Emitting
    <3>1. CASE Commit
      BY <2>19, <3>1 DEF Emitting, Dispatch, Commit, Stop, Judges, Begin, MutationResult
    <3>2. CASE Begin("next") /\ told' = MutationResult
      BY <2>19, <3>2 DEF Emitting, Dispatch, Commit, Stop, Judges, Begin, MutationResult
    <3> QED BY <2>19, <3>1, <3>2 DEF Emitting
  <2> QED BY <1>6, <2>1, <2>2, <2>3, <2>4, <2>5, <2>6, <2>7, <2>8, <2>9, <2>10, <2>11, <2>12, <2>13, <2>14, <2>15, <2>16, <2>17, <2>18, <2>19 DEF Handler
<1> QED BY <1>1, <1>2, <1>3, <1>4, <1>5, <1>6 DEF Next, Guest

\* No step begins a phase that has calls already.
LEMMA BegunStep ==
    ASSUME SandboxInv, LedgerIsRight, [Next]_vars
    PROVE  BegunOnce'
<1> USE DEF SandboxInv, SandboxTypeOK, BegunOnce, LeftBehind, Begun
<1>1. CASE UNCHANGED vars
  BY <1>1 DEF vars
<1>2. ASSUME NEW c \in Calls, NEW t \in {"mutation", "other"}, GuestCalls(c, t) PROVE BegunOnce'
  BY <1>2 DEF GuestCalls
<1>3. ASSUME NEW c \in Calls, GuestAwaits(c) PROVE BegunOnce'
  BY <1>3 DEF GuestAwaits
<1>4. CASE GuestEnds
  BY <1>4 DEF GuestEnds
<1>5. ASSUME NEW c \in Calls, Tool(c) PROVE BegunOnce'
  <2>1. CASE CheckFails(c)
    BY <2>1 DEF CheckFails, Goto, Classify
  <2>2. CASE CheckPasses(c)
    BY <2>2 DEF CheckPasses, Goto, Allowed
  <2>3. CASE Record(c)
    <3>1. /\ step' = [step EXCEPT ![c] = "execute"] \/ step' = [step EXCEPT ![c] = "settle"]
          /\ step[c] = "record" /\ UNCHANGED <<phase, status, outcome, handler, script, wrapper, in, tool, deferred, effect, history>>
          /\ (mut = "none" => mut' = "in_flight") /\ (mut # "none" => mut' = mut)
      BY <2>3 DEF Record, Goto
    <3> QED BY <3>1
  <2>4. CASE TakesEffect(c)
    BY <2>4 DEF TakesEffect
  <2>5. CASE Succeeds(c)
    BY <2>5 DEF Succeeds, Goto
  <2>6. CASE ExecuteFails(c)
    BY <2>6 DEF ExecuteFails, Goto, Classify
  <2>7. CASE Apply(c)
    BY <2>7 DEF Apply, Goto
  <2>8. CASE Settles(c)
    BY <2>8 DEF Settles, Goto
  <2> QED BY <1>5, <2>1, <2>2, <2>3, <2>4, <2>5, <2>6, <2>7, <2>8 DEF Tool
<1>6. CASE Handler
  <2>1. CASE EvalReturns
    BY <2>1 DEF EvalReturns, Ends, Unsettled
  <2>2. CASE EvalTimesOut
    BY <2>2 DEF EvalTimesOut, Ends, Unsettled
  <2>3. CASE Dispose
    BY <2>3 DEF Dispose
  <2>4. CASE JudgePrepare
    BY <2>4 DEF JudgePrepare, Judges
  <2>5. CASE JudgeNext
    BY <2>5 DEF JudgeNext, Judges
  <2>6. CASE ReadMutation
    BY <2>6 DEF ReadMutation
  <2>7. CASE WriteFailed
    BY <2>7 DEF WriteFailed, Judges, Definite
  <2>8. CASE WriteUncertain
    BY <2>8 DEF WriteUncertain, Judges, Definite
  <2>9. CASE WriteNothing
    BY <2>9 DEF WriteNothing, Judges
  <2>10. CASE WriteDone
    BY <2>10 DEF WriteDone, Judges
  <2>11. CASE Ask
    BY <2>11 DEF Ask
  <2>12. CASE Conclude
    <3>1. CASE mut \in Terminal /\ answer \in Terminal
      BY <2>12, <3>1 DEF Conclude, Judges
    <3>2. CASE ~(mut \in Terminal /\ answer \in Terminal)
      BY <2>12, <3>2 DEF Conclude, Judges
    <3> QED BY <2>12, <3>1, <3>2 DEF Conclude
  <2>13. CASE Prepare
    BY <2>13 DEF Prepare, Dispatch, Begin
  <2>14. CASE Prepared
    <3>1. CASE Commit
      BY <2>14, <3>1 DEF Prepared, Dispatch, Commit, Stop, Judges
    <3>2. CASE phase' = "mutating" /\ Judges("loop") /\ UNCHANGED <<status, mut, outcome>>
      BY <2>14, <3>2 DEF Prepared, Dispatch, Commit, Stop, Judges
    <3> QED BY <2>14, <3>1, <3>2 DEF Prepared
  <2>15. CASE Mutate
    <3>1. CASE Begin("mutate") /\ UNCHANGED told
      BY <2>15, <3>1 DEF Mutate, Dispatch, Begin, Judges
    <3>2. CASE phase' = "mutated" /\ Judges("loop") /\ UNCHANGED <<status, mut, outcome>>
      BY <2>15, <3>2 DEF Mutate, Dispatch, Begin, Judges
    <3> QED BY <2>15, <3>1, <3>2 DEF Mutate
  <2>16. CASE MutatingInFlight
    BY <2>16 DEF MutatingInFlight, Dispatch, Judges
  <2>17. CASE MutatingUncertain
    BY <2>17 DEF MutatingUncertain, Dispatch, Stop, Judges
  <2>18. CASE Mutated
    <3>1. /\ phase' \in {"mutated", "emitting"} /\ (status' = status \/ status' = "failed") /\ at' \in {"loop", "over"}
          /\ sandbox = "none" /\ UNCHANGED <<mut, outcome, result, row, answer, told, script, wrapper, calls, effect, history>> /\ at = "loop" /\ (at' = "loop" => status' = status) /\ phase = "mutated" /\ (outcome = "failure" => phase' = phase)
      BY <2>18 DEF Mutated, Dispatch, Stop, Judges
    <3> QED BY <3>1
  <2>19. CASE Emitting
    <3>1. CASE Commit
      BY <2>19, <3>1 DEF Emitting, Dispatch, Commit, Stop, Judges, Begin, MutationResult
    <3>2. CASE Begin("next") /\ told' = MutationResult
      BY <2>19, <3>2 DEF Emitting, Dispatch, Commit, Stop, Judges, Begin, MutationResult
    <3> QED BY <2>19, <3>1, <3>2 DEF Emitting
  <2> QED BY <1>6, <2>1, <2>2, <2>3, <2>4, <2>5, <2>6, <2>7, <2>8, <2>9, <2>10, <2>11, <2>12, <2>13, <2>14, <2>15, <2>16, <2>17, <2>18, <2>19 DEF Handler
<1> QED BY <1>1, <1>2, <1>3, <1>4, <1>5, <1>6 DEF Next, Guest

\* The handler leaves to the calls what belongs to them, and never takes the
\* record of the mutation back.
LEMMA HandlerLeaves ==
    ASSUME SandboxTypeOK, Handler
    PROVE  UNCHANGED <<step, in, tool, executed, effect>> /\ (mut # "none" => mut' # "none")
<1> USE DEF SandboxTypeOK
<1>1. CASE EvalReturns
  BY <1>1 DEF EvalReturns, Ends, Unsettled
<1>2. CASE EvalTimesOut
  BY <1>2 DEF EvalTimesOut, Ends, Unsettled
<1>3. CASE Dispose
  BY <1>3 DEF Dispose
<1>4. CASE JudgePrepare
  BY <1>4 DEF JudgePrepare, Judges
<1>5. CASE JudgeNext
  BY <1>5 DEF JudgeNext, Judges
<1>6. CASE ReadMutation
  BY <1>6 DEF ReadMutation
<1>7. CASE WriteFailed
  BY <1>7 DEF WriteFailed, Judges, Definite
<1>8. CASE WriteUncertain
  BY <1>8 DEF WriteUncertain, Judges, Definite
<1>9. CASE WriteNothing
  BY <1>9 DEF WriteNothing, Judges
<1>10. CASE WriteDone
  BY <1>10 DEF WriteDone, Judges
<1>11. CASE Ask
  BY <1>11 DEF Ask
<1>12. CASE Conclude
  BY <1>12 DEF Conclude, Judges
<1>13. CASE Prepare
  BY <1>13 DEF Prepare, Dispatch, Begin
<1>14. CASE Prepared
  BY <1>14 DEF Prepared, Dispatch, Commit, Stop, Judges
<1>15. CASE Mutate
  BY <1>15 DEF Mutate, Dispatch, Begin, Judges
<1>16. CASE MutatingInFlight
  BY <1>16 DEF MutatingInFlight, Dispatch, Judges
<1>17. CASE MutatingUncertain
  BY <1>17 DEF MutatingUncertain, Dispatch, Stop, Judges
<1>18. CASE Mutated
  BY <1>18 DEF Mutated, Dispatch, Stop, Judges
<1>19. CASE Emitting
  BY <1>19 DEF Emitting, Dispatch, Commit, Stop, Judges, Begin, MutationResult
<1> QED BY <1>1, <1>2, <1>3, <1>4, <1>5, <1>6, <1>7, <1>8, <1>9, <1>10, <1>11, <1>12, <1>13, <1>14, <1>15, <1>16, <1>17, <1>18, <1>19 DEF Handler

\* Only the check lets a call mutate, and it does so once in the phase mutate.
LEMMA OneMutationStep ==
    ASSUME SandboxInv, LedgerIsRight, [Next]_vars
    PROVE  OneMutation'
<1> USE DEF SandboxInv, SandboxTypeOK, OneMutation
<1>1. CASE UNCHANGED vars \/ Handler
  <2>1. UNCHANGED <<step, in, tool, executed, effect>> /\ (mut # "none" => mut' # "none")
    BY <1>1, HandlerLeaves DEF vars
  <2> QED BY <2>1
<1>2. ASSUME NEW c \in Calls, NEW t \in {"mutation", "other"}, GuestCalls(c, t) PROVE OneMutation'
  BY <1>2 DEF GuestCalls
<1>3. CASE GuestEnds \/ \E c \in Calls : GuestAwaits(c)
  <2>1. UNCHANGED <<mut, calls, executed, effect>>
    BY <1>3 DEF GuestEnds, GuestAwaits
  <2> QED BY <2>1
<1>4. ASSUME NEW c \in Calls, Tool(c) PROVE OneMutation'
  <2>1. CASE CheckFails(c)
    BY <2>1 DEF CheckFails, Goto
  <2>2. CASE CheckPasses(c)
    <3>1. step[c] = "check" /\ (tool[c] = "mutation" <=> in[c] = "mutate") /\ UNCHANGED <<in, tool, effect, mut>>
      BY <2>2 DEF CheckPasses, Allowed
    <3>3. CASE tool[c] = "mutation"
      <4>1. "mutate" \notin executed /\ "mutate" \in executed'
        BY <2>2, <3>1, <3>3 DEF CheckPasses
      <4>2. step' = [step EXCEPT ![c] = "record"]
        BY <2>2, <3>1, <3>3 DEF CheckPasses, Goto
      <4>3. \A d \in Calls : ~Mutates(d)
        BY <4>1
      <4> QED BY <3>1, <3>3, <4>1, <4>2, <4>3
    <3>4. CASE tool[c] # "mutation"
      <4>1. step' = [step EXCEPT ![c] = "execute"] /\ UNCHANGED executed
        BY <2>2, <3>4 DEF CheckPasses, Goto
      <4> QED BY <3>1, <3>4, <4>1
    <3> QED BY <3>3, <3>4
  <2>3. CASE Record(c)
    <3>1. PICK s \in {"execute", "settle"} : step[c] = "record" /\ step' = [step EXCEPT ![c] = s] /\ mut' # "none"
      BY <1>4, <2>3, RecordEffect
    <3>2. UNCHANGED <<in, tool, effect, executed>>
      BY <1>4, <2>3, RecordEffect
    <3>3. \A d \in Calls : Mutates(d)' => Mutates(d)
      BY <1>4, <3>1, <3>2
    <3>4. \A d \in Calls : d # c => step'[d] = step[d]
      BY <3>1
    <3>5. step'[c] = s /\ c \notin effect /\ tool[c] = "mutation"
      BY <1>4, <3>1
    <3> HIDE DEF Mutates, SandboxTypeOK, SandboxInv
    <3>6. /\ \A d \in Calls : Mutates(d)' => tool'[d] = "mutation" /\ in'[d] = "mutate" /\ "mutate" \in executed'
          /\ \A d, b \in Calls : Mutates(d)' /\ Mutates(b)' => d = b
      BY <3>2, <3>3 DEF SandboxInv
    <3>7. /\ \A d \in Calls : step'[d] \in {"record", "apply"} => tool'[d] = "mutation"
          /\ \A d \in Calls : step'[d] = "execute" /\ in'[d] = "mutate" => tool'[d] = "mutation"
          /\ \A d \in Calls : step'[d] = "apply" => d \in effect'
      BY <3>1, <3>2, <3>4, <3>5 DEF SandboxInv
    <3>8. \A d \in effect' : step'[d] \in {"execute", "apply", "settle", "done"}
      BY <3>1, <3>2, <3>4, <3>5 DEF SandboxInv, SandboxTypeOK
    <3> QED BY <3>1, <3>6, <3>7, <3>8
  <2>4. CASE TakesEffect(c)
    BY <2>4 DEF TakesEffect
  <2>5. CASE Succeeds(c)
    BY <2>5 DEF Succeeds, Goto
  <2>6. CASE ExecuteFails(c)
    BY <2>6 DEF ExecuteFails, Goto
  <2>7. CASE Apply(c)
    BY <2>7 DEF Apply, Goto
  <2>8. CASE Settles(c)
    BY <2>8 DEF Settles, Goto
  <2> QED BY <1>4, <2>1, <2>2, <2>3, <2>4, <2>5, <2>6, <2>7, <2>8 DEF Tool
<1> QED BY <1>1, <1>2, <1>3, <1>4 DEF Next, Guest

\* A call that has not been executed has had no effect.
LEMMA NotYet ==
    ASSUME OneMutation, NEW c \in Calls, step[c] \in {"none", "check", "record"}
    PROVE  c \notin effect
BY DEF OneMutation

\* Nothing that the handler has read changes before it writes, and an error that
\* followed an effect stays uncertain.
LEMMA JudgedStep ==
    ASSUME SandboxInv, LedgerIsRight, [Next]_vars
    PROVE  Judged'
<1> USE DEF SandboxInv, SandboxTypeOK, Quiet, BegunOnce, Begun, OneMutation, Judged, LeftBehind, LedgerIsRight
<1>1. CASE UNCHANGED vars
  BY <1>1 DEF vars
<1>2. ASSUME NEW c \in Calls, NEW t \in {"mutation", "other"}, GuestCalls(c, t) PROVE Judged'
  BY <1>2 DEF GuestCalls
<1>3. ASSUME NEW c \in Calls, GuestAwaits(c) PROVE Judged'
  BY <1>3 DEF GuestAwaits
<1>4. CASE GuestEnds
  BY <1>4 DEF GuestEnds
<1>5. ASSUME NEW c \in Calls, Tool(c) PROVE Judged'
  <2>1. CASE CheckFails(c)
    <3>0. c \notin effect
      BY <2>1, NotYet DEF CheckFails
    <3>1. excused \/ classified = "network" => excused' \/ classified' = "network"
      BY <2>1, Zenon DEF CheckFails, Classify
    <3>2. step' = [step EXCEPT ![c] = "settle"] /\ UNCHANGED <<rows, handler, script, in, tool, effect, loose>>
      BY <2>1 DEF CheckFails, Goto
    <3> QED BY <3>0, <3>1, <3>2
  <2>2. CASE CheckPasses(c)
    <3>1. UNCHANGED <<rows, handler, script, applied, classified, in, tool, deferred, effect, history>> /\ step[c] = "check"
      BY <2>2 DEF CheckPasses
    <3>2. (step' = [step EXCEPT ![c] = "execute"] \/ step' = [step EXCEPT ![c] = "record"])
      BY <2>2 DEF CheckPasses, Goto
    <3>3. c \notin effect
      BY <3>1, NotYet
    <3>4. \A d \in effect : step'[d] = step[d]
      <4>1. effect \subseteq Calls /\ step \in [Calls -> {"none", "check", "record", "execute", "apply", "settle", "done"}]
        OBVIOUS
      <4> QED BY ONLY <3>2, <3>3, <4>1
    <3> QED BY <3>1, <3>4
  <2>3. CASE Record(c)
    <3>1. /\ step' = [step EXCEPT ![c] = "execute"] \/ step' = [step EXCEPT ![c] = "settle"]
          /\ step[c] = "record" /\ UNCHANGED <<phase, status, outcome, handler, script, wrapper, in, tool, deferred, effect, history>>
          /\ (mut = "none" => mut' = "in_flight") /\ (mut # "none" => mut' = mut)
      BY <2>3 DEF Record, Goto
    <3>2. c \notin effect /\ in[c] = "mutate"
      BY <3>1
    <3> QED BY <3>1, <3>2
  <2>4. CASE TakesEffect(c)
    BY <2>4 DEF TakesEffect
  <2>5. CASE Succeeds(c)
    BY <2>5 DEF Succeeds, Goto
  <2>6. CASE ExecuteFails(c)
    <3>1. /\ step[c] = "execute" /\ step' = [step EXCEPT ![c] = "settle"]
          /\ UNCHANGED <<rows, handler, script, in, tool, effect, loose>> /\ (excused => excused')
      BY <2>6 DEF ExecuteFails, Goto
    <3>2. ASSUME sandbox = "mutate", NEW d \in effect, step'[d] \in {"settle", "done"},
                 step[d] \in {"settle", "done"} => excused \/ classified = "network"
          PROVE  excused' \/ classified' = "network"
      <4>1. CASE Alive(c)
        <5>1. Mutates(c) /\ tool[c] = "mutation" /\ d = c
          BY <3>1, <3>2, <4>1
        <5> QED BY <2>6, <3>2, <4>1, <5>1 DEF ExecuteFails, Classify
      <4>2. CASE ~Alive(c)
        <5>1. classified' = classified /\ d # c
          BY <2>6, <3>1, <3>2, <4>2 DEF ExecuteFails, Classify
        <5> QED BY <3>1, <3>2, <5>1
      <4> QED BY <4>1, <4>2
    <3> QED BY <3>1, <3>2
  <2>7. CASE Apply(c)
    BY <2>7 DEF Apply, Goto
  <2>8. CASE Settles(c)
    BY <2>8 DEF Settles, Goto
  <2> QED BY <1>5, <2>1, <2>2, <2>3, <2>4, <2>5, <2>6, <2>7, <2>8 DEF Tool
<1>6. CASE Handler
  <2>1. CASE EvalReturns
    BY <2>1 DEF EvalReturns, Ends, Unsettled
  <2>2. CASE EvalTimesOut
    BY <2>2 DEF EvalTimesOut, Ends, Unsettled
  <2>3. CASE Dispose
    BY <2>3 DEF Dispose
  <2>4. CASE JudgePrepare
    <3>1. CASE result = "ok"
      BY <2>4, <3>1 DEF JudgePrepare, Judges
    <3>2. CASE result # "ok"
      BY <2>4, <3>2 DEF JudgePrepare, Judges
    <3> QED BY <2>4, <3>1, <3>2 DEF JudgePrepare
  <2>5. CASE JudgeNext
    <3>1. CASE result = "ok"
      BY <2>5, <3>1 DEF JudgeNext, Judges
    <3>2. CASE result # "ok"
      BY <2>5, <3>2 DEF JudgeNext, Judges
    <3> QED BY <2>5, <3>1, <3>2 DEF JudgeNext
  <2>6. CASE ReadMutation
    BY <2>6 DEF ReadMutation
  <2>7. CASE WriteFailed
    BY <2>7 DEF WriteFailed, Judges, Definite
  <2>8. CASE WriteUncertain
    BY <2>8 DEF WriteUncertain, Judges, Definite
  <2>9. CASE WriteNothing
    BY <2>9 DEF WriteNothing, Judges
  <2>10. CASE WriteDone
    BY <2>10 DEF WriteDone, Judges
  <2>11. CASE Ask
    BY <2>11 DEF Ask
  <2>12. CASE Conclude
    <3>1. CASE mut \in Terminal /\ answer \in Terminal
      BY <2>12, <3>1 DEF Conclude, Judges
    <3>2. CASE ~(mut \in Terminal /\ answer \in Terminal)
      BY <2>12, <3>2 DEF Conclude, Judges
    <3> QED BY <2>12, <3>1, <3>2 DEF Conclude
  <2>13. CASE Prepare
    BY <2>13 DEF Prepare, Dispatch, Begin
  <2>14. CASE Prepared
    <3>1. CASE Commit
      BY <2>14, <3>1 DEF Prepared, Dispatch, Commit, Stop, Judges
    <3>2. CASE phase' = "mutating" /\ Judges("loop") /\ UNCHANGED <<status, mut, outcome>>
      BY <2>14, <3>2 DEF Prepared, Dispatch, Commit, Stop, Judges
    <3> QED BY <2>14, <3>1, <3>2 DEF Prepared
  <2>15. CASE Mutate
    <3>1. CASE Begin("mutate") /\ UNCHANGED told
      BY <2>15, <3>1 DEF Mutate, Dispatch, Begin, Judges
    <3>2. CASE phase' = "mutated" /\ Judges("loop") /\ UNCHANGED <<status, mut, outcome>>
      BY <2>15, <3>2 DEF Mutate, Dispatch, Begin, Judges
    <3> QED BY <2>15, <3>1, <3>2 DEF Mutate
  <2>16. CASE MutatingInFlight
    BY <2>16 DEF MutatingInFlight, Dispatch, Judges
  <2>17. CASE MutatingUncertain
    BY <2>17 DEF MutatingUncertain, Dispatch, Stop, Judges
  <2>18. CASE Mutated
    <3>1. /\ phase' \in {"mutated", "emitting"} /\ (status' = status \/ status' = "failed") /\ at' \in {"loop", "over"}
          /\ sandbox = "none" /\ UNCHANGED <<mut, outcome, result, row, answer, told, script, wrapper, calls, effect, history>> /\ at = "loop" /\ (at' = "loop" => status' = status) /\ phase = "mutated" /\ (outcome = "failure" => phase' = phase)
      BY <2>18 DEF Mutated, Dispatch, Stop, Judges
    <3> QED BY <3>1
  <2>19. CASE Emitting
    <3>1. CASE Commit
      BY <2>19, <3>1 DEF Emitting, Dispatch, Commit, Stop, Judges, Begin, MutationResult
    <3>2. CASE Begin("next") /\ told' = MutationResult
      BY <2>19, <3>2 DEF Emitting, Dispatch, Commit, Stop, Judges, Begin, MutationResult
    <3> QED BY <2>19, <3>1, <3>2 DEF Emitting
  <2> QED BY <1>6, <2>1, <2>2, <2>3, <2>4, <2>5, <2>6, <2>7, <2>8, <2>9, <2>10, <2>11, <2>12, <2>13, <2>14, <2>15, <2>16, <2>17, <2>18, <2>19 DEF Handler
<1> QED BY <1>1, <1>2, <1>3, <1>4, <1>5, <1>6 DEF Next, Guest

\* No phase is left with a mutation open.
LEMMA LeftBehindStep ==
    ASSUME SandboxInv, LedgerIsRight, [Next]_vars
    PROVE  LeftBehind'
<1> USE DEF SandboxInv, SandboxTypeOK, Quiet, BegunOnce, Begun, OneMutation, Judged, LeftBehind, LedgerIsRight
<1>1. CASE UNCHANGED vars
  BY <1>1 DEF vars
<1>2. ASSUME NEW c \in Calls, NEW t \in {"mutation", "other"}, GuestCalls(c, t) PROVE LeftBehind'
  BY <1>2 DEF GuestCalls
<1>3. ASSUME NEW c \in Calls, GuestAwaits(c) PROVE LeftBehind'
  BY <1>3 DEF GuestAwaits
<1>4. CASE GuestEnds
  BY <1>4 DEF GuestEnds
<1>5. ASSUME NEW c \in Calls, Tool(c) PROVE LeftBehind'
  <2>1. CASE CheckFails(c)
    BY <2>1 DEF CheckFails, Goto, Classify
  <2>2. CASE CheckPasses(c)
    <3>1. UNCHANGED <<rows, handler, script, applied, classified, in, tool, deferred, effect, history>> /\ step[c] = "check"
      BY <2>2 DEF CheckPasses
    <3>2. (step' = [step EXCEPT ![c] = "execute"] \/ step' = [step EXCEPT ![c] = "record"])
      BY <2>2 DEF CheckPasses, Goto
    <3>3. c \notin effect
      BY <2>2, NotYet DEF CheckPasses
    <3> QED BY <3>1, <3>2, <3>3
  <2>3. CASE Record(c)
    <3>1. /\ step' = [step EXCEPT ![c] = "execute"] \/ step' = [step EXCEPT ![c] = "settle"]
          /\ step[c] = "record" /\ UNCHANGED <<phase, status, outcome, handler, script, wrapper, in, tool, deferred, effect, history>>
          /\ (mut = "none" => mut' = "in_flight") /\ (mut # "none" => mut' = mut)
      BY <2>3 DEF Record, Goto
    <3>2. c \notin effect /\ in[c] = "mutate"
      BY <3>1
    <3> QED BY <3>1, <3>2
  <2>4. CASE TakesEffect(c)
    BY <2>4 DEF TakesEffect
  <2>5. CASE Succeeds(c)
    BY <2>5 DEF Succeeds, Goto
  <2>6. CASE ExecuteFails(c)
    BY <2>6 DEF ExecuteFails, Goto, Classify
  <2>7. CASE Apply(c)
    BY <2>7 DEF Apply, Goto
  <2>8. CASE Settles(c)
    BY <2>8 DEF Settles, Goto
  <2> QED BY <1>5, <2>1, <2>2, <2>3, <2>4, <2>5, <2>6, <2>7, <2>8 DEF Tool
<1>6. CASE Handler
  <2>1. CASE EvalReturns
    BY <2>1 DEF EvalReturns, Ends, Unsettled
  <2>2. CASE EvalTimesOut
    BY <2>2 DEF EvalTimesOut, Ends, Unsettled
  <2>3. CASE Dispose
    BY <2>3 DEF Dispose
  <2>4. CASE JudgePrepare
    <3>1. CASE result = "ok"
      BY <2>4, <3>1 DEF JudgePrepare, Judges
    <3>2. CASE result # "ok"
      BY <2>4, <3>2 DEF JudgePrepare, Judges
    <3> QED BY <2>4, <3>1, <3>2 DEF JudgePrepare
  <2>5. CASE JudgeNext
    <3>1. CASE result = "ok"
      BY <2>5, <3>1 DEF JudgeNext, Judges
    <3>2. CASE result # "ok"
      BY <2>5, <3>2 DEF JudgeNext, Judges
    <3> QED BY <2>5, <3>1, <3>2 DEF JudgeNext
  <2>6. CASE ReadMutation
    BY <2>6 DEF ReadMutation
  <2>7. CASE WriteFailed
    BY <2>7 DEF WriteFailed, Judges, Definite
  <2>8. CASE WriteUncertain
    BY <2>8 DEF WriteUncertain, Judges, Definite
  <2>9. CASE WriteNothing
    BY <2>9 DEF WriteNothing, Judges
  <2>10. CASE WriteDone
    BY <2>10 DEF WriteDone, Judges
  <2>11. CASE Ask
    BY <2>11 DEF Ask
  <2>12. CASE Conclude
    <3>1. CASE mut \in Terminal /\ answer \in Terminal
      BY <2>12, <3>1 DEF Conclude, Judges
    <3>2. CASE ~(mut \in Terminal /\ answer \in Terminal)
      BY <2>12, <3>2 DEF Conclude, Judges
    <3> QED BY <2>12, <3>1, <3>2 DEF Conclude
  <2>13. CASE Prepare
    BY <2>13 DEF Prepare, Dispatch, Begin
  <2>14. CASE Prepared
    <3>1. CASE Commit
      BY <2>14, <3>1 DEF Prepared, Dispatch, Commit, Stop, Judges
    <3>2. CASE phase' = "mutating" /\ Judges("loop") /\ UNCHANGED <<status, mut, outcome>>
      BY <2>14, <3>2 DEF Prepared, Dispatch, Commit, Stop, Judges
    <3> QED BY <2>14, <3>1, <3>2 DEF Prepared
  <2>15. CASE Mutate
    <3>1. CASE Begin("mutate") /\ UNCHANGED told
      BY <2>15, <3>1 DEF Mutate, Dispatch, Begin, Judges
    <3>2. CASE phase' = "mutated" /\ Judges("loop") /\ UNCHANGED <<status, mut, outcome>>
      BY <2>15, <3>2 DEF Mutate, Dispatch, Begin, Judges
    <3> QED BY <2>15, <3>1, <3>2 DEF Mutate
  <2>16. CASE MutatingInFlight
    BY <2>16 DEF MutatingInFlight, Dispatch, Judges
  <2>17. CASE MutatingUncertain
    BY <2>17 DEF MutatingUncertain, Dispatch, Stop, Judges
  <2>18. CASE Mutated
    <3>1. /\ phase' \in {"mutated", "emitting"} /\ (status' = status \/ status' = "failed") /\ at' \in {"loop", "over"}
          /\ sandbox = "none" /\ UNCHANGED <<mut, outcome, result, row, answer, told, script, wrapper, calls, effect, history>> /\ at = "loop" /\ (at' = "loop" => status' = status) /\ phase = "mutated" /\ (outcome = "failure" => phase' = phase)
      BY <2>18 DEF Mutated, Dispatch, Stop, Judges
    <3> QED BY <3>1
  <2>19. CASE Emitting
    <3>1. CASE Commit
      BY <2>19, <3>1 DEF Emitting, Dispatch, Commit, Stop, Judges, Begin, MutationResult
    <3>2. CASE Begin("next") /\ told' = MutationResult
      BY <2>19, <3>2 DEF Emitting, Dispatch, Commit, Stop, Judges, Begin, MutationResult
    <3> QED BY <2>19, <3>1, <3>2 DEF Emitting
  <2> QED BY <1>6, <2>1, <2>2, <2>3, <2>4, <2>5, <2>6, <2>7, <2>8, <2>9, <2>10, <2>11, <2>12, <2>13, <2>14, <2>15, <2>16, <2>17, <2>18, <2>19 DEF Handler
<1> QED BY <1>1, <1>2, <1>3, <1>4, <1>5, <1>6 DEF Next, Guest

\* The ledger stays right about the world.
LEMMA LedgerStep ==
    ASSUME SandboxInv, LedgerIsRight, [Next]_vars
    PROVE  LedgerIsRight'
<1> USE DEF SandboxInv, SandboxTypeOK, Quiet, BegunOnce, Begun, OneMutation, Judged, LeftBehind, LedgerIsRight
<1>1. CASE UNCHANGED vars
  BY <1>1 DEF vars
<1>2. ASSUME NEW c \in Calls, NEW t \in {"mutation", "other"}, GuestCalls(c, t) PROVE LedgerIsRight'
  BY <1>2 DEF GuestCalls
<1>3. ASSUME NEW c \in Calls, GuestAwaits(c) PROVE LedgerIsRight'
  BY <1>3 DEF GuestAwaits
<1>4. CASE GuestEnds
  BY <1>4 DEF GuestEnds
<1>5. ASSUME NEW c \in Calls, Tool(c) PROVE LedgerIsRight'
  <2>1. CASE CheckFails(c)
    BY <2>1 DEF CheckFails, Goto, Classify
  <2>2. CASE CheckPasses(c)
    <3>1. UNCHANGED <<rows, handler, script, applied, classified, in, tool, deferred, effect, history>> /\ step[c] = "check"
      BY <2>2 DEF CheckPasses
    <3>2. (step' = [step EXCEPT ![c] = "execute"] \/ step' = [step EXCEPT ![c] = "record"])
      BY <2>2 DEF CheckPasses, Goto
    <3>3. c \notin effect
      BY <2>2, NotYet DEF CheckPasses
    <3> QED BY <3>1, <3>2, <3>3
  <2>3. CASE Record(c)
    <3>1. /\ step' = [step EXCEPT ![c] = "execute"] \/ step' = [step EXCEPT ![c] = "settle"]
          /\ step[c] = "record" /\ UNCHANGED <<phase, status, outcome, handler, script, wrapper, in, tool, deferred, effect, history>>
          /\ (mut = "none" => mut' = "in_flight") /\ (mut # "none" => mut' = mut)
      BY <2>3 DEF Record, Goto
    <3>2. c \notin effect /\ in[c] = "mutate"
      BY <3>1
    <3> QED BY <3>1, <3>2
  <2>4. CASE TakesEffect(c)
    BY <2>4 DEF TakesEffect
  <2>5. CASE Succeeds(c)
    BY <2>5 DEF Succeeds, Goto
  <2>6. CASE ExecuteFails(c)
    BY <2>6 DEF ExecuteFails, Goto, Classify
  <2>7. CASE Apply(c)
    BY <2>7 DEF Apply, Goto
  <2>8. CASE Settles(c)
    BY <2>8 DEF Settles, Goto
  <2> QED BY <1>5, <2>1, <2>2, <2>3, <2>4, <2>5, <2>6, <2>7, <2>8 DEF Tool
<1>6. CASE Handler
  <2>1. CASE EvalReturns
    BY <2>1 DEF EvalReturns, Ends, Unsettled
  <2>2. CASE EvalTimesOut
    BY <2>2 DEF EvalTimesOut, Ends, Unsettled
  <2>3. CASE Dispose
    BY <2>3 DEF Dispose
  <2>4. CASE JudgePrepare
    <3>1. CASE result = "ok"
      BY <2>4, <3>1 DEF JudgePrepare, Judges
    <3>2. CASE result # "ok"
      BY <2>4, <3>2 DEF JudgePrepare, Judges
    <3> QED BY <2>4, <3>1, <3>2 DEF JudgePrepare
  <2>5. CASE JudgeNext
    <3>1. CASE result = "ok"
      BY <2>5, <3>1 DEF JudgeNext, Judges
    <3>2. CASE result # "ok"
      BY <2>5, <3>2 DEF JudgeNext, Judges
    <3> QED BY <2>5, <3>1, <3>2 DEF JudgeNext
  <2>6. CASE ReadMutation
    BY <2>6 DEF ReadMutation
  <2>7. CASE WriteFailed
    BY <2>7 DEF WriteFailed, Judges, Definite
  <2>8. CASE WriteUncertain
    BY <2>8 DEF WriteUncertain, Judges, Definite
  <2>9. CASE WriteNothing
    BY <2>9 DEF WriteNothing, Judges
  <2>10. CASE WriteDone
    BY <2>10 DEF WriteDone, Judges
  <2>11. CASE Ask
    BY <2>11 DEF Ask
  <2>12. CASE Conclude
    <3>1. CASE mut \in Terminal /\ answer \in Terminal
      BY <2>12, <3>1 DEF Conclude, Judges
    <3>2. CASE ~(mut \in Terminal /\ answer \in Terminal)
      BY <2>12, <3>2 DEF Conclude, Judges
    <3> QED BY <2>12, <3>1, <3>2 DEF Conclude
  <2>13. CASE Prepare
    BY <2>13 DEF Prepare, Dispatch, Begin
  <2>14. CASE Prepared
    <3>1. CASE Commit
      BY <2>14, <3>1 DEF Prepared, Dispatch, Commit, Stop, Judges
    <3>2. CASE phase' = "mutating" /\ Judges("loop") /\ UNCHANGED <<status, mut, outcome>>
      BY <2>14, <3>2 DEF Prepared, Dispatch, Commit, Stop, Judges
    <3> QED BY <2>14, <3>1, <3>2 DEF Prepared
  <2>15. CASE Mutate
    <3>1. CASE Begin("mutate") /\ UNCHANGED told
      BY <2>15, <3>1 DEF Mutate, Dispatch, Begin, Judges
    <3>2. CASE phase' = "mutated" /\ Judges("loop") /\ UNCHANGED <<status, mut, outcome>>
      BY <2>15, <3>2 DEF Mutate, Dispatch, Begin, Judges
    <3> QED BY <2>15, <3>1, <3>2 DEF Mutate
  <2>16. CASE MutatingInFlight
    BY <2>16 DEF MutatingInFlight, Dispatch, Judges
  <2>17. CASE MutatingUncertain
    BY <2>17 DEF MutatingUncertain, Dispatch, Stop, Judges
  <2>18. CASE Mutated
    <3>1. /\ phase' \in {"mutated", "emitting"} /\ (status' = status \/ status' = "failed") /\ at' \in {"loop", "over"}
          /\ sandbox = "none" /\ UNCHANGED <<mut, outcome, result, row, answer, told, script, wrapper, calls, effect, history>> /\ at = "loop" /\ (at' = "loop" => status' = status) /\ phase = "mutated" /\ (outcome = "failure" => phase' = phase)
      BY <2>18 DEF Mutated, Dispatch, Stop, Judges
    <3> QED BY <3>1
  <2>19. CASE Emitting
    <3>1. CASE Commit
      BY <2>19, <3>1 DEF Emitting, Dispatch, Commit, Stop, Judges, Begin, MutationResult
    <3>2. CASE Begin("next") /\ told' = MutationResult
      BY <2>19, <3>2 DEF Emitting, Dispatch, Commit, Stop, Judges, Begin, MutationResult
    <3> QED BY <2>19, <3>1, <3>2 DEF Emitting
  <2> QED BY <1>6, <2>1, <2>2, <2>3, <2>4, <2>5, <2>6, <2>7, <2>8, <2>9, <2>10, <2>11, <2>12, <2>13, <2>14, <2>15, <2>16, <2>17, <2>18, <2>19 DEF Handler
<1> QED BY <1>1, <1>2, <1>3, <1>4, <1>5, <1>6 DEF Next, Guest

\* What next was told stays true.
LEMMA ToldStep ==
    ASSUME SandboxInv, LedgerIsRight, [Next]_vars
    PROVE  NextIsToldRight'
<1> USE DEF SandboxInv, SandboxTypeOK, Quiet, BegunOnce, Begun, OneMutation, Judged, LeftBehind, LedgerIsRight, NextIsToldRight
<1>1. CASE UNCHANGED vars
  BY <1>1 DEF vars
<1>2. ASSUME NEW c \in Calls, NEW t \in {"mutation", "other"}, GuestCalls(c, t) PROVE NextIsToldRight'
  BY <1>2 DEF GuestCalls
<1>3. ASSUME NEW c \in Calls, GuestAwaits(c) PROVE NextIsToldRight'
  BY <1>3 DEF GuestAwaits
<1>4. CASE GuestEnds
  BY <1>4 DEF GuestEnds
<1>5. ASSUME NEW c \in Calls, Tool(c) PROVE NextIsToldRight'
  <2>1. CASE CheckFails(c)
    BY <2>1 DEF CheckFails, Goto, Classify
  <2>2. CASE CheckPasses(c)
    <3>1. UNCHANGED <<rows, handler, script, applied, classified, in, tool, deferred, effect, history>> /\ step[c] = "check"
      BY <2>2 DEF CheckPasses
    <3>2. (step' = [step EXCEPT ![c] = "execute"] \/ step' = [step EXCEPT ![c] = "record"])
      BY <2>2 DEF CheckPasses, Goto
    <3>3. c \notin effect
      BY <2>2, NotYet DEF CheckPasses
    <3> QED BY <3>1, <3>2, <3>3
  <2>3. CASE Record(c)
    <3>1. /\ step' = [step EXCEPT ![c] = "execute"] \/ step' = [step EXCEPT ![c] = "settle"]
          /\ step[c] = "record" /\ UNCHANGED <<phase, status, outcome, handler, script, wrapper, in, tool, deferred, effect, history>>
          /\ (mut = "none" => mut' = "in_flight") /\ (mut # "none" => mut' = mut)
      BY <2>3 DEF Record, Goto
    <3>2. c \notin effect /\ in[c] = "mutate"
      BY <3>1
    <3> QED BY <3>1, <3>2
  <2>4. CASE TakesEffect(c)
    BY <2>4 DEF TakesEffect
  <2>5. CASE Succeeds(c)
    BY <2>5 DEF Succeeds, Goto
  <2>6. CASE ExecuteFails(c)
    BY <2>6 DEF ExecuteFails, Goto, Classify
  <2>7. CASE Apply(c)
    BY <2>7 DEF Apply, Goto
  <2>8. CASE Settles(c)
    BY <2>8 DEF Settles, Goto
  <2> QED BY <1>5, <2>1, <2>2, <2>3, <2>4, <2>5, <2>6, <2>7, <2>8 DEF Tool
<1>6. CASE Handler
  <2>1. CASE EvalReturns
    BY <2>1 DEF EvalReturns, Ends, Unsettled
  <2>2. CASE EvalTimesOut
    BY <2>2 DEF EvalTimesOut, Ends, Unsettled
  <2>3. CASE Dispose
    BY <2>3 DEF Dispose
  <2>4. CASE JudgePrepare
    <3>1. CASE result = "ok"
      BY <2>4, <3>1 DEF JudgePrepare, Judges
    <3>2. CASE result # "ok"
      BY <2>4, <3>2 DEF JudgePrepare, Judges
    <3> QED BY <2>4, <3>1, <3>2 DEF JudgePrepare
  <2>5. CASE JudgeNext
    <3>1. CASE result = "ok"
      BY <2>5, <3>1 DEF JudgeNext, Judges
    <3>2. CASE result # "ok"
      BY <2>5, <3>2 DEF JudgeNext, Judges
    <3> QED BY <2>5, <3>1, <3>2 DEF JudgeNext
  <2>6. CASE ReadMutation
    BY <2>6 DEF ReadMutation
  <2>7. CASE WriteFailed
    BY <2>7 DEF WriteFailed, Judges, Definite
  <2>8. CASE WriteUncertain
    BY <2>8 DEF WriteUncertain, Judges, Definite
  <2>9. CASE WriteNothing
    BY <2>9 DEF WriteNothing, Judges
  <2>10. CASE WriteDone
    BY <2>10 DEF WriteDone, Judges
  <2>11. CASE Ask
    BY <2>11 DEF Ask
  <2>12. CASE Conclude
    <3>1. CASE mut \in Terminal /\ answer \in Terminal
      BY <2>12, <3>1 DEF Conclude, Judges
    <3>2. CASE ~(mut \in Terminal /\ answer \in Terminal)
      BY <2>12, <3>2 DEF Conclude, Judges
    <3> QED BY <2>12, <3>1, <3>2 DEF Conclude
  <2>13. CASE Prepare
    BY <2>13 DEF Prepare, Dispatch, Begin
  <2>14. CASE Prepared
    <3>1. CASE Commit
      BY <2>14, <3>1 DEF Prepared, Dispatch, Commit, Stop, Judges
    <3>2. CASE phase' = "mutating" /\ Judges("loop") /\ UNCHANGED <<status, mut, outcome>>
      BY <2>14, <3>2 DEF Prepared, Dispatch, Commit, Stop, Judges
    <3> QED BY <2>14, <3>1, <3>2 DEF Prepared
  <2>15. CASE Mutate
    <3>1. CASE Begin("mutate") /\ UNCHANGED told
      BY <2>15, <3>1 DEF Mutate, Dispatch, Begin, Judges
    <3>2. CASE phase' = "mutated" /\ Judges("loop") /\ UNCHANGED <<status, mut, outcome>>
      BY <2>15, <3>2 DEF Mutate, Dispatch, Begin, Judges
    <3> QED BY <2>15, <3>1, <3>2 DEF Mutate
  <2>16. CASE MutatingInFlight
    BY <2>16 DEF MutatingInFlight, Dispatch, Judges
  <2>17. CASE MutatingUncertain
    BY <2>17 DEF MutatingUncertain, Dispatch, Stop, Judges
  <2>18. CASE Mutated
    <3>1. /\ phase' \in {"mutated", "emitting"} /\ (status' = status \/ status' = "failed") /\ at' \in {"loop", "over"}
          /\ sandbox = "none" /\ UNCHANGED <<mut, outcome, result, row, answer, told, script, wrapper, calls, effect, history>> /\ at = "loop" /\ (at' = "loop" => status' = status) /\ phase = "mutated" /\ (outcome = "failure" => phase' = phase)
      BY <2>18 DEF Mutated, Dispatch, Stop, Judges
    <3> QED BY <3>1
  <2>19. CASE Emitting
    <3>1. CASE Commit
      BY <2>19, <3>1 DEF Emitting, Dispatch, Commit, Stop, Judges, Begin, MutationResult
    <3>2. CASE Begin("next") /\ told' = MutationResult
      BY <2>19, <3>2 DEF Emitting, Dispatch, Commit, Stop, Judges, Begin, MutationResult
    <3> QED BY <2>19, <3>1, <3>2 DEF Emitting
  <2> QED BY <1>6, <2>1, <2>2, <2>3, <2>4, <2>5, <2>6, <2>7, <2>8, <2>9, <2>10, <2>11, <2>12, <2>13, <2>14, <2>15, <2>16, <2>17, <2>18, <2>19 DEF Handler
<1> QED BY <1>1, <1>2, <1>3, <1>4, <1>5, <1>6 DEF Next, Guest


\* At first nothing has happened.
LEMMA InitHolds == Init => SandboxInv /\ LedgerIsRight
<1> SUFFICES ASSUME Init PROVE SandboxInv /\ LedgerIsRight
  OBVIOUS
<1> USE DEF Init
<1>1. Flags
  BY Zenon DEF Flags
<1>2. SandboxTypeOK /\ HandlesAreFreed
  BY <1>1 DEF SandboxTypeOK, HandlesAreFreed
<1>3. OneEffect /\ NextIsToldRight /\ LedgerIsRight
  BY FS_EmptySet DEF OneEffect, NextIsToldRight, LedgerIsRight
<1>4. Quiet /\ OneMutation /\ LeftBehind /\ Judged
  BY DEF Quiet, OneMutation, LeftBehind, Judged
<1>5. BegunOnce
  BY DEF BegunOnce, Begun
<1> QED BY <1>2, <1>3, <1>4, <1>5 DEF SandboxInv

\* One mutation that passes the check makes for one effect.
LEMMA OneMutationOneEffect == SandboxTypeOK /\ OneMutation => OneEffect
<1> SUFFICES ASSUME SandboxTypeOK, OneMutation PROVE OneEffect
  OBVIOUS
<1>1. CASE effect = {}
  BY <1>1, FS_EmptySet DEF OneEffect
<1>2. ASSUME NEW c \in effect PROVE OneEffect
  <2>1. \A d \in effect : Mutates(d)
    BY DEF OneMutation, SandboxTypeOK
  <2>1a. \A d \in effect : d = c
    <3> HIDE DEF Mutates
    <3> QED BY <1>2, <2>1 DEF OneMutation, SandboxTypeOK
  <2>2. effect = {c}
    BY <1>2, <2>1a
  <2> QED BY <2>2, FS_Singleton DEF OneEffect
<1> QED BY <1>1, <1>2

-----------------------------------------------------------------------------
\* The two invariants hold together: neither is inductive without the other.
LEMMA Inductive == Spec => [](SandboxInv /\ LedgerIsRight)
<1>1. SandboxInv /\ LedgerIsRight /\ [Next]_vars => (SandboxInv /\ LedgerIsRight)'
  <2> SUFFICES ASSUME SandboxInv, LedgerIsRight, [Next]_vars PROVE SandboxInv' /\ LedgerIsRight'
    OBVIOUS
  <2>1. SandboxTypeOK' /\ OneMutation'
    BY TypeStep, OneMutationStep
  <2>2. OneEffect'
    BY <2>1, OneMutationOneEffect, PTL
  <2> QED BY <2>1, <2>2, FreedStep, QuietStep, BegunStep, JudgedStep, LeftBehindStep, LedgerStep, ToldStep DEF SandboxInv
<1> QED BY InitHolds, <1>1, PTL DEF Spec

\* However many tools a script calls, awaits or forgets, whenever its evaluation
\* ends and in whichever phase its late calls answer: no promise handle outlives
\* its runtime, the run mutates once, and next is not told otherwise unless an
\* evaluation ended before its calls (SandboxInv).
THEOREM SandboxIsSafe == Spec => []SandboxInv
BY Inductive, PTL

\* The record of the mutation agrees with what happened in the world, but for the
\* errors that LedgerIsRight names.
THEOREM LedgerAgreesWithWorld == Spec => []LedgerIsRight
BY Inductive, PTL
=============================================================================
