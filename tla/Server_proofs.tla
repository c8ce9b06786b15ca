---------------------------- MODULE Server_proofs ----------------------------
(* Proofs about the two parts of the server that users meet and that share  *)
(* no state: Tasks, for any chats, maintainers and messages, and            *)
(* Connections, for every set of callers, both for every bound.  TasksInv   *)
(* is inductive; each of its parts has a lemma with one step per action,    *)
(* and so has MaintenanceHasWork.  ConnectionsInv is shown in four parts:   *)
(* the types, the refresh, the sign-ins, and what the half-way steps know   *)
(* of file and row.  The theorems follow.                                   *)
EXTENDS Tasks, Connections, SequenceTheorems, FiniteSetTheorems, TLAPS

USE DEF rows, workflow, worker, scheduler, history, Chats, AllTasks, Items, Target, Unhandled

\* Every step keeps the flags Boolean.
LEMMA FlagsStep ==
    ASSUME Flags, [Next]_vars
    PROVE  Flags'
<1> USE DEF Flags
<1>1. CASE UNCHANGED vars
  BY <1>1, Zenon DEF vars
<1>2. ASSUME NEW i \in Messages, NEW t \in Chats, UserMessage(i, t) PROVE Flags'
  BY <1>2, Zenon DEF UserMessage, Fresh
<1>3. ASSUME NEW s \in DOMAIN scripts, Activate(s) PROVE Flags'
  BY <1>3, Zenon DEF Activate
<1>4. CASE Authenticate
  BY <1>4, Zenon DEF Authenticate
<1>5. CASE RunStarts
  BY <1>5, Zenon DEF RunStarts
<1>6. CASE RunEnds
  BY <1>6, Zenon DEF RunEnds
<1>7. ASSUME NEW m \in Maintainers, EnterMaintenance(m) PROVE Flags'
  BY <1>7, Zenon DEF EnterMaintenance, Request, Fresh
<1>8. ASSUME NEW m \in Maintainers, Recover(m) PROVE Flags'
  BY <1>8, Zenon DEF Recover, Request, Fresh
<1>9. CASE CheckWork
  BY <1>9, Zenon DEF CheckWork
<1>10. CASE Proceed
  BY <1>10, Zenon DEF Proceed, Available, Selected, Turns
<1>11. ASSUME NEW t \in AllTasks, BackoffEnds(t) PROVE Flags'
  BY <1>11, Zenon DEF BackoffEnds
<1>12. CASE PauseEnds
  BY <1>12, Zenon DEF PauseEnds
<1>13. CASE Begin
  BY <1>13, Zenon DEF Begin
<1>14. CASE BeginFails
  BY <1>14, Zenon DEF BeginFails, Turns
<1>15. CASE Save
  BY <1>15, Zenon DEF Save
<1>16. CASE SaveFix
  BY <1>16, Zenon DEF SaveFix
<1>17. CASE LoopEnds
  BY <1>17, Zenon DEF LoopEnds
<1>18. ASSUME NEW i \in Items, HandleItem(i) PROVE Flags'
  BY <1>18, Zenon DEF HandleItem
<1>19. CASE FinishRun
  BY <1>19, Zenon DEF FinishRun
<1>20. CASE GiveUp
  BY <1>20, Zenon DEF GiveUp
<1>21. CASE Compare
  BY <1>21, Zenon DEF Compare
<1>22. CASE ActivateFix
  BY <1>22, Zenon DEF ActivateFix
<1>23. CASE FinishTask
  BY <1>23, Zenon DEF FinishTask, Turns
<1>24. CASE Reply
  BY <1>24, Zenon DEF Reply, Turns
<1>25. CASE StepFails
  BY <1>25, Zenon DEF StepFails, Fails, Turns
<1>26. CASE PaymentFails
  BY <1>26, Zenon DEF PaymentFails, Fails, Turns
<1>27. CASE Bill
  BY <1>27, Zenon DEF Bill, Turns
<1>28. CASE BadRequest
  BY <1>28, Zenon DEF BadRequest
<1>29. CASE Reject
  BY <1>29, Zenon DEF Reject, Turns
<1>30. CASE Restart
  BY <1>30, Zenon DEF Restart, Stops, Turns
<1> QED BY <1>1, <1>2, <1>3, <1>4, <1>5, <1>6, <1>7, <1>8, <1>9, <1>10, <1>11, <1>12, <1>13, <1>14, <1>15, <1>16, <1>17, <1>18, <1>19, <1>20, <1>21, <1>22, <1>23, <1>24, <1>25, <1>26, <1>27, <1>28, <1>29, <1>30, Zenon DEF Next, User, Workflow, Work, Time

\* The bounds are numbers.
LEMMA Bounds == MaxScripts \in Nat /\ MaxCalls \in Nat /\ MaxFailures \in Nat /\ MaxCrashes \in Nat
BY TasksConstants

\* A script that is saved leaves the others their places.
LEMMA Longer ==
    ASSUME NEW S, NEW q \in Seq(S), NEW e \in S
    PROVE  /\ Append(q, e) \in Seq(S) /\ Len(Append(q, e)) = Len(q) + 1
           /\ 0 .. Len(q) \subseteq 0 .. Len(Append(q, e)) /\ Len(q) + 1 \in 0 .. Len(Append(q, e))
           /\ DOMAIN Append(q, e) = DOMAIN q \cup {Len(q) + 1}
           /\ Append(q, e)[Len(q) + 1] = e /\ \A k \in DOMAIN q : Append(q, e)[k] = q[k]
OBVIOUS

\* A script that is added leaves the others where they are.
LEMMA ScriptAdded ==
    ASSUME ScriptTypes, NEW e \in [major : Nat, minor : Nat], scripts' = Append(scripts, e)
    PROVE  /\ DOMAIN scripts' = DOMAIN scripts \cup {Len(scripts) + 1} /\ scripts'[Len(scripts) + 1] = e
           /\ \A s \in DOMAIN scripts : scripts'[s] = scripts[s]
<1> DEFINE Version == [major : Nat, minor : Nat]
<1>1. scripts \in Seq(Version) /\ e \in Version
  BY DEF ScriptTypes
<1> HIDE DEF Version
<1> QED BY <1>1, Longer

\* The places of the scripts are numbers.
LEMMA PlacesAreNumbers ==
    ASSUME ScriptTypes, NEW k \in DOMAIN scripts
    PROVE  k \in 1 .. Len(scripts) /\ k \in 0 .. Len(scripts)
<1>1. Len(scripts) \in Nat /\ DOMAIN scripts = 1 .. Len(scripts)
  BY DEF ScriptTypes
<1> QED BY <1>1

\* Its versions are numbers, and a fix is not a release.
LEMMA VersionsAreNumbers ==
    ASSUME ScriptTypes, NEW k \in DOMAIN scripts
    PROVE  /\ scripts[k] \in [major : Nat, minor : Nat] /\ scripts[k].major \in Nat
           /\ [scripts[k] EXCEPT !.minor = @ + 1] \in [major : Nat, minor : Nat]
           /\ [scripts[k] EXCEPT !.minor = @ + 1].minor # 0
<1>1. scripts[k] \in [major : Nat, minor : Nat]
  <2> DEFINE Version == [major : Nat, minor : Nat]
  <2>1. scripts \in Seq(Version) /\ k \in 1 .. Len(scripts)
    BY PlacesAreNumbers DEF ScriptTypes
  <2> HIDE DEF Version
  <2>2. scripts[k] \in Version
    BY <2>1, ElementOfSeq
  <2> QED BY <2>2 DEF Version
<1>2. ASSUME NEW r \in [major : Nat, minor : Nat]
      PROVE  /\ r.major \in Nat /\ [r EXCEPT !.minor = @ + 1] \in [major : Nat, minor : Nat]
             /\ [r EXCEPT !.minor = @ + 1].minor # 0
  OBVIOUS
<1> QED BY <1>1, <1>2

\* Every step keeps the types of the rows.
LEMMA RowTypesStep ==
    ASSUME RowTypes, WorkerTypes, [Next]_vars
    PROVE  RowTypes'
<1> USE DEF RowTypes, WorkerTypes
<1>1. CASE UNCHANGED vars
  BY <1>1 DEF vars
<1>2. ASSUME NEW i \in Messages, NEW t \in Chats, UserMessage(i, t) PROVE RowTypes'
  BY <1>2 DEF UserMessage, Fresh
<1>3. ASSUME NEW s \in DOMAIN scripts, Activate(s) PROVE RowTypes'
  BY <1>3 DEF Activate
<1>4. CASE Authenticate
  BY <1>4 DEF Authenticate
<1>5. CASE RunStarts
  BY <1>5 DEF RunStarts
<1>6. CASE RunEnds
  BY <1>6 DEF RunEnds
<1>7. ASSUME NEW m \in Maintainers, EnterMaintenance(m) PROVE RowTypes'
  BY <1>7 DEF EnterMaintenance, Request, Fresh
<1>8. ASSUME NEW m \in Maintainers, Recover(m) PROVE RowTypes'
  BY <1>8 DEF Recover, Request, Fresh
<1>9. CASE CheckWork
  BY <1>9 DEF CheckWork
<1>10. CASE Proceed
  BY <1>10 DEF Proceed, Available, Selected, Turns
<1>11. ASSUME NEW t \in AllTasks, BackoffEnds(t) PROVE RowTypes'
  BY <1>11 DEF BackoffEnds
<1>12. CASE PauseEnds
  BY <1>12 DEF PauseEnds
<1>13. CASE Begin
  BY <1>13 DEF Begin
<1>14. CASE BeginFails
  BY <1>14 DEF BeginFails, Turns
<1>15. CASE Save
  BY <1>15 DEF Save
<1>16. CASE SaveFix
  BY <1>16 DEF SaveFix
<1>17. CASE LoopEnds
  BY <1>17 DEF LoopEnds
<1>18. ASSUME NEW i \in Items, HandleItem(i) PROVE RowTypes'
  BY <1>18 DEF HandleItem
<1>19. CASE FinishRun
  BY <1>19 DEF FinishRun
<1>20. CASE GiveUp
  BY <1>20 DEF GiveUp
<1>21. CASE Compare
  BY <1>21 DEF Compare
<1>22. CASE ActivateFix
  BY <1>22 DEF ActivateFix
<1>23. CASE FinishTask
  BY <1>23 DEF FinishTask, Turns
<1>24. CASE Reply
  BY <1>24 DEF Reply, Turns
<1>25. CASE StepFails
  BY <1>25 DEF StepFails, Fails, Turns
<1>26. CASE PaymentFails
  BY <1>26 DEF PaymentFails, Fails, Turns
<1>27. CASE Bill
  BY <1>27 DEF Bill, Turns
<1>28. CASE BadRequest
  BY <1>28 DEF BadRequest
<1>29. CASE Reject
  BY <1>29 DEF Reject, Turns
<1>30. CASE Restart
  BY <1>30 DEF Restart, Stops, Turns
<1> QED BY <1>1, <1>2, <1>3, <1>4, <1>5, <1>6, <1>7, <1>8, <1>9, <1>10, <1>11, <1>12, <1>13, <1>14, <1>15, <1>16, <1>17, <1>18, <1>19, <1>20, <1>21, <1>22, <1>23, <1>24, <1>25, <1>26, <1>27, <1>28, <1>29, <1>30 DEF Next, User, Workflow, Work, Time

\* Every step keeps the scripts, and a maintainer what it is to fix.
LEMMA ScriptTypesStep ==
    ASSUME TasksTypeOK, InHand, Asked, [Next]_vars
    PROVE  ScriptTypes'
<1> USE DEF TasksTypeOK, RowTypes, ScriptTypes, WorkerTypes, InHand, Asked
<1>1. CASE UNCHANGED vars
  BY <1>1 DEF vars
<1>2. ASSUME NEW i \in Messages, NEW t \in Chats, UserMessage(i, t) PROVE ScriptTypes'
  <2>1. UNCHANGED <<scripts, active, ran, fix, broken, failed>>
    BY <1>2 DEF UserMessage
  <2>2. inbox' = [inbox EXCEPT ![i] = "new"]
    BY <1>2 DEF UserMessage
  <2>3. \A m \in Maintainers : inbox'[m] = inbox[m]
    BY TasksConstants, <2>2 DEF AllTasks
  <2> QED BY <2>1, <2>3
<1>3. ASSUME NEW s \in DOMAIN scripts, Activate(s) PROVE ScriptTypes'
  <2>1. s \in 0 .. Len(scripts)
    BY PlacesAreNumbers
  <2> QED BY <2>1, <1>3 DEF Activate
<1>4. CASE Authenticate
  BY <1>4 DEF Authenticate
<1>5. CASE RunStarts
  BY <1>5 DEF RunStarts
<1>6. CASE RunEnds
  BY <1>6 DEF RunEnds
<1>7. ASSUME NEW m \in Maintainers, EnterMaintenance(m) PROVE ScriptTypes'
  BY <1>7 DEF EnterMaintenance, Request, Fresh
<1>8. ASSUME NEW m \in Maintainers, Recover(m) PROVE ScriptTypes'
  BY <1>8 DEF Recover, Request, Fresh
<1>9. CASE CheckWork
  BY <1>9 DEF CheckWork
<1>10. CASE Proceed
  BY <1>10 DEF Proceed, Available, Selected, Turns
<1>11. ASSUME NEW t \in AllTasks, BackoffEnds(t) PROVE ScriptTypes'
  BY <1>11 DEF BackoffEnds
<1>12. CASE PauseEnds
  BY <1>12 DEF PauseEnds
<1>13. CASE Begin
  BY <1>13 DEF Begin
<1>14. CASE BeginFails
  BY <1>14 DEF BeginFails, Turns
<1>15. CASE Save
  <2>1. PICK n \in 1 .. MaxScripts : scripts' = Append(scripts, [major |-> n, minor |-> 0])
    BY <1>15 DEF Save
  <2>2. n \in Nat
    BY Bounds
  <2>3. scripts' \in Seq([major : Nat, minor : Nat]) /\ 0 .. Len(scripts) \subseteq 0 .. Len(scripts')
    BY <2>1, <2>2, Longer
  <2> QED BY <1>15, <2>3 DEF Save
<1>16. CASE SaveFix
  <2>1. failed[task] \in DOMAIN scripts
    BY <1>16 DEF SaveFix
  <2>2. [scripts[failed[task]] EXCEPT !.minor = @ + 1] \in [major : Nat, minor : Nat]
    BY <2>1, VersionsAreNumbers
  <2> DEFINE saved == [scripts[failed[task]] EXCEPT !.minor = @ + 1]
  <2>3a. scripts' = Append(scripts, saved) /\ fix' = Len(scripts) + 1
    BY <1>16 DEF SaveFix
  <2> HIDE DEF saved
  <2>3b. saved \in [major : Nat, minor : Nat] /\ scripts \in Seq([major : Nat, minor : Nat])
    BY <2>2 DEF saved
  <2>3. scripts' \in Seq([major : Nat, minor : Nat]) /\ 0 .. Len(scripts) \subseteq 0 .. Len(scripts')
    BY ONLY <2>3a, <2>3b, Longer
  <2>4. fix' \in 0 .. Len(scripts')
    BY ONLY <2>3a, <2>3b, Longer
  <2> QED BY <1>16, <2>3, <2>4 DEF SaveFix
<1>17. CASE LoopEnds
  BY <1>17 DEF LoopEnds
<1>18. ASSUME NEW i \in Items, HandleItem(i) PROVE ScriptTypes'
  BY <1>18 DEF HandleItem
<1>19. CASE FinishRun
  BY <1>19 DEF FinishRun
<1>20. CASE GiveUp
  BY <1>20 DEF GiveUp
<1>21. CASE Compare
  BY <1>21 DEF Compare
<1>22. CASE ActivateFix
  BY <1>22 DEF ActivateFix
<1>23. CASE FinishTask
  BY <1>23 DEF FinishTask, Turns
<1>24. CASE Reply
  BY <1>24 DEF Reply, Turns
<1>25. CASE StepFails
  BY <1>25 DEF StepFails, Fails, Turns
<1>26. CASE PaymentFails
  BY <1>26 DEF PaymentFails, Fails, Turns
<1>27. CASE Bill
  BY <1>27 DEF Bill, Turns
<1>28. CASE BadRequest
  BY <1>28 DEF BadRequest
<1>29. CASE Reject
  BY <1>29 DEF Reject, Turns
<1>30. CASE Restart
  BY <1>30 DEF Restart, Stops, Turns
<1> QED BY <1>1, <1>2, <1>3, <1>4, <1>5, <1>6, <1>7, <1>8, <1>9, <1>10, <1>11, <1>12, <1>13, <1>14, <1>15, <1>16, <1>17, <1>18, <1>19, <1>20, <1>21, <1>22, <1>23, <1>24, <1>25, <1>26, <1>27, <1>28, <1>29, <1>30 DEF Next, User, Workflow, Work, Time

\* Every step keeps what the worker does and holds.
LEMMA WorkerTypesStep ==
    ASSUME RowTypes, WorkerTypes, InHand, [Next]_vars
    PROVE  WorkerTypes'
<1> USE DEF RowTypes, WorkerTypes, InHand
<1>1. CASE UNCHANGED vars
  BY TasksConstants, <1>1 DEF vars
<1>2. ASSUME NEW i \in Messages, NEW t \in Chats, UserMessage(i, t) PROVE WorkerTypes'
  BY TasksConstants, <1>2 DEF UserMessage, Fresh
<1>3. ASSUME NEW s \in DOMAIN scripts, Activate(s) PROVE WorkerTypes'
  BY TasksConstants, <1>3 DEF Activate
<1>4. CASE Authenticate
  BY TasksConstants, <1>4 DEF Authenticate
<1>5. CASE RunStarts
  BY TasksConstants, <1>5 DEF RunStarts
<1>6. CASE RunEnds
  BY TasksConstants, <1>6 DEF RunEnds
<1>7. ASSUME NEW m \in Maintainers, EnterMaintenance(m) PROVE WorkerTypes'
  BY TasksConstants, <1>7 DEF EnterMaintenance, Request, Fresh
<1>8. ASSUME NEW m \in Maintainers, Recover(m) PROVE WorkerTypes'
  BY TasksConstants, <1>8 DEF Recover, Request, Fresh
<1>9. CASE CheckWork
  BY TasksConstants, <1>9 DEF CheckWork
<1>10. CASE Proceed
  BY TasksConstants, <1>10 DEF Proceed, Available, Selected, Turns
<1>11. ASSUME NEW t \in AllTasks, BackoffEnds(t) PROVE WorkerTypes'
  BY TasksConstants, <1>11 DEF BackoffEnds
<1>12. CASE PauseEnds
  BY TasksConstants, <1>12 DEF PauseEnds
<1>13. CASE Begin
  <2>1. pc' = "loop" /\ items' = Unhandled(task) /\ left' = {} /\ UNCHANGED <<inbox, to, task, read>>
    BY <1>13 DEF Begin
  <2>2. items' \subseteq Items /\ \A i \in items' : inbox'[i] # "none" /\ Target(i)' = task'
    BY <2>1
  <2> QED BY <2>1, <2>2
<1>14. CASE BeginFails
  BY TasksConstants, <1>14 DEF BeginFails, Turns
<1>15. CASE Save
  BY TasksConstants, <1>15 DEF Save
<1>16. CASE SaveFix
  BY TasksConstants, <1>16 DEF SaveFix
<1>17. CASE LoopEnds
  BY TasksConstants, <1>17 DEF LoopEnds
<1>18. ASSUME NEW i \in Items, HandleItem(i) PROVE WorkerTypes'
  BY TasksConstants, <1>18 DEF HandleItem
<1>19. CASE FinishRun
  BY TasksConstants, <1>19 DEF FinishRun
<1>20. CASE GiveUp
  BY TasksConstants, <1>20 DEF GiveUp
<1>21. CASE Compare
  BY TasksConstants, <1>21 DEF Compare
<1>22. CASE ActivateFix
  BY TasksConstants, <1>22 DEF ActivateFix
<1>23. CASE FinishTask
  BY TasksConstants, <1>23 DEF FinishTask, Turns
<1>24. CASE Reply
  BY TasksConstants, <1>24 DEF Reply, Turns
<1>25. CASE StepFails
  BY TasksConstants, <1>25 DEF StepFails, Fails, Turns
<1>26. CASE PaymentFails
  BY TasksConstants, <1>26 DEF PaymentFails, Fails, Turns
<1>27. CASE Bill
  BY TasksConstants, <1>27 DEF Bill, Turns
<1>28. CASE BadRequest
  BY TasksConstants, <1>28 DEF BadRequest
<1>29. CASE Reject
  BY TasksConstants, <1>29 DEF Reject, Turns
<1>30. CASE Restart
  BY TasksConstants, <1>30 DEF Restart, Stops, Turns
<1> QED BY <1>1, <1>2, <1>3, <1>4, <1>5, <1>6, <1>7, <1>8, <1>9, <1>10, <1>11, <1>12, <1>13, <1>14, <1>15, <1>16, <1>17, <1>18, <1>19, <1>20, <1>21, <1>22, <1>23, <1>24, <1>25, <1>26, <1>27, <1>28, <1>29, <1>30 DEF Next, User, Workflow, Work, Time

\* Every step keeps the numbers.
LEMMA CounterTypesStep ==
    ASSUME CounterTypes, [Next]_vars
    PROVE  CounterTypes'
<1> USE DEF CounterTypes
<1>1. CASE UNCHANGED vars
  BY <1>1 DEF vars
<1>2. ASSUME NEW i \in Messages, NEW t \in Chats, UserMessage(i, t) PROVE CounterTypes'
  BY <1>2 DEF UserMessage, Fresh
<1>3. ASSUME NEW s \in DOMAIN scripts, Activate(s) PROVE CounterTypes'
  BY <1>3 DEF Activate
<1>4. CASE Authenticate
  BY <1>4 DEF Authenticate
<1>5. CASE RunStarts
  BY <1>5 DEF RunStarts
<1>6. CASE RunEnds
  BY <1>6 DEF RunEnds
<1>7. ASSUME NEW m \in Maintainers, EnterMaintenance(m) PROVE CounterTypes'
  BY <1>7 DEF EnterMaintenance, Request, Fresh
<1>8. ASSUME NEW m \in Maintainers, Recover(m) PROVE CounterTypes'
  BY <1>8 DEF Recover, Request, Fresh
<1>9. CASE CheckWork
  BY <1>9 DEF CheckWork
<1>10. CASE Proceed
  BY <1>10 DEF Proceed, Available, Selected, Turns
<1>11. ASSUME NEW t \in AllTasks, BackoffEnds(t) PROVE CounterTypes'
  BY <1>11 DEF BackoffEnds
<1>12. CASE PauseEnds
  BY <1>12 DEF PauseEnds
<1>13. CASE Begin
  BY <1>13 DEF Begin
<1>14. CASE BeginFails
  BY <1>14 DEF BeginFails, Turns
<1>15. CASE Save
  BY <1>15 DEF Save
<1>16. CASE SaveFix
  BY <1>16 DEF SaveFix
<1>17. CASE LoopEnds
  BY <1>17 DEF LoopEnds
<1>18. ASSUME NEW i \in Items, HandleItem(i) PROVE CounterTypes'
  BY <1>18 DEF HandleItem
<1>19. CASE FinishRun
  BY <1>19 DEF FinishRun
<1>20. CASE GiveUp
  BY <1>20 DEF GiveUp
<1>21. CASE Compare
  BY <1>21 DEF Compare
<1>22. CASE ActivateFix
  BY <1>22 DEF ActivateFix
<1>23. CASE FinishTask
  BY <1>23 DEF FinishTask, Turns
<1>24. CASE Reply
  BY <1>24 DEF Reply, Turns
<1>25. CASE StepFails
  BY <1>25 DEF StepFails, Fails, Turns
<1>26. CASE PaymentFails
  BY <1>26 DEF PaymentFails, Fails, Turns
<1>27. CASE Bill
  BY <1>27 DEF Bill, Turns
<1>28. CASE BadRequest
  BY <1>28 DEF BadRequest
<1>29. CASE Reject
  BY <1>29 DEF Reject, Turns
<1>30. CASE Restart
  BY <1>30 DEF Restart, Stops, Turns
<1> QED BY <1>1, <1>2, <1>3, <1>4, <1>5, <1>6, <1>7, <1>8, <1>9, <1>10, <1>11, <1>12, <1>13, <1>14, <1>15, <1>16, <1>17, <1>18, <1>19, <1>20, <1>21, <1>22, <1>23, <1>24, <1>25, <1>26, <1>27, <1>28, <1>29, <1>30 DEF Next, User, Workflow, Work, Time

\* What the worker holds: Begin takes it, HandleItem marks it, and the end of the
\* task drops it.
LEMMA InHandStep ==
    ASSUME TasksTypeOK, HandledWasRead, InHand, [Next]_vars
    PROVE  InHand'
<1> USE DEF TasksTypeOK, RowTypes, WorkerTypes, CounterTypes, InHand
<1>1. CASE UNCHANGED vars
  BY TasksConstants, <1>1 DEF vars
<1>2. ASSUME NEW i \in Messages, NEW t \in Chats, UserMessage(i, t) PROVE InHand'
  BY TasksConstants, <1>2 DEF UserMessage, Fresh
<1>3. ASSUME NEW s \in DOMAIN scripts, Activate(s) PROVE InHand'
  BY TasksConstants, <1>3 DEF Activate
<1>4. CASE Authenticate
  BY TasksConstants, <1>4 DEF Authenticate
<1>5. CASE RunStarts
  BY TasksConstants, <1>5 DEF RunStarts
<1>6. CASE RunEnds
  BY TasksConstants, <1>6 DEF RunEnds
<1>7. ASSUME NEW m \in Maintainers, EnterMaintenance(m) PROVE InHand'
  BY TasksConstants, <1>7 DEF EnterMaintenance, Request, Fresh
<1>8. ASSUME NEW m \in Maintainers, Recover(m) PROVE InHand'
  BY TasksConstants, <1>8 DEF Recover, Request, Fresh
<1>9. CASE CheckWork
  BY TasksConstants, <1>9 DEF CheckWork
<1>10. CASE Proceed
  BY TasksConstants, <1>10 DEF Proceed, Available, Selected, Turns
<1>11. ASSUME NEW t \in AllTasks, BackoffEnds(t) PROVE InHand'
  BY TasksConstants, <1>11 DEF BackoffEnds
<1>12. CASE PauseEnds
  BY TasksConstants, <1>12 DEF PauseEnds
<1>13. CASE Begin
  BY TasksConstants, <1>13 DEF Begin
<1>14. CASE BeginFails
  BY TasksConstants, <1>14 DEF BeginFails, Turns
<1>15. CASE Save
  BY TasksConstants, <1>15 DEF Save
<1>16. CASE SaveFix
  BY TasksConstants, <1>16 DEF SaveFix
<1>17. CASE LoopEnds
  BY TasksConstants, <1>17 DEF LoopEnds
<1>18. ASSUME NEW i \in Items, HandleItem(i) PROVE InHand'
  BY TasksConstants, <1>18 DEF HandleItem
<1>19. CASE FinishRun
  BY TasksConstants, <1>19 DEF FinishRun
<1>20. CASE GiveUp
  BY TasksConstants, <1>20 DEF GiveUp
<1>21. CASE Compare
  BY TasksConstants, <1>21 DEF Compare
<1>22. CASE ActivateFix
  BY TasksConstants, <1>22 DEF ActivateFix
<1>23. CASE FinishTask
  BY TasksConstants, <1>23 DEF FinishTask, Turns
<1>24. CASE Reply
  BY TasksConstants, <1>24 DEF Reply, Turns
<1>25. CASE StepFails
  BY TasksConstants, <1>25 DEF StepFails, Fails, Turns
<1>26. CASE PaymentFails
  BY TasksConstants, <1>26 DEF PaymentFails, Fails, Turns
<1>27. CASE Bill
  BY TasksConstants, <1>27 DEF Bill, Turns
<1>28. CASE BadRequest
  BY TasksConstants, <1>28 DEF BadRequest
<1>29. CASE Reject
  BY TasksConstants, <1>29 DEF Reject, Turns
<1>30. CASE Restart
  BY TasksConstants, <1>30 DEF Restart, Stops, Turns
<1> QED BY <1>1, <1>2, <1>3, <1>4, <1>5, <1>6, <1>7, <1>8, <1>9, <1>10, <1>11, <1>12, <1>13, <1>14, <1>15, <1>16, <1>17, <1>18, <1>19, <1>20, <1>21, <1>22, <1>23, <1>24, <1>25, <1>26, <1>27, <1>28, <1>29, <1>30 DEF Next, User, Workflow, Work, Time

\* Only what was read is marked as handled.
LEMMA ReadStep ==
    ASSUME TasksTypeOK, HandledWasRead, InHand, [Next]_vars
    PROVE  HandledWasRead'
<1> USE DEF TasksTypeOK, RowTypes, InHand, HandledWasRead
<1>1. CASE UNCHANGED vars
  BY <1>1 DEF vars
<1>2. ASSUME NEW i \in Messages, NEW t \in Chats, UserMessage(i, t) PROVE HandledWasRead'
  BY <1>2 DEF UserMessage, Fresh
<1>3. ASSUME NEW s \in DOMAIN scripts, Activate(s) PROVE HandledWasRead'
  BY <1>3 DEF Activate
<1>4. CASE Authenticate
  BY <1>4 DEF Authenticate
<1>5. CASE RunStarts
  BY <1>5 DEF RunStarts
<1>6. CASE RunEnds
  BY <1>6 DEF RunEnds
<1>7. ASSUME NEW m \in Maintainers, EnterMaintenance(m) PROVE HandledWasRead'
  BY <1>7 DEF EnterMaintenance, Request, Fresh
<1>8. ASSUME NEW m \in Maintainers, Recover(m) PROVE HandledWasRead'
  BY <1>8 DEF Recover, Request, Fresh
<1>9. CASE CheckWork
  BY <1>9 DEF CheckWork
<1>10. CASE Proceed
  BY <1>10 DEF Proceed, Available, Selected, Turns
<1>11. ASSUME NEW t \in AllTasks, BackoffEnds(t) PROVE HandledWasRead'
  BY <1>11 DEF BackoffEnds
<1>12. CASE PauseEnds
  BY <1>12 DEF PauseEnds
<1>13. CASE Begin
  BY <1>13 DEF Begin
<1>14. CASE BeginFails
  BY <1>14 DEF BeginFails, Turns
<1>15. CASE Save
  BY <1>15 DEF Save
<1>16. CASE SaveFix
  BY <1>16 DEF SaveFix
<1>17. CASE LoopEnds
  BY <1>17 DEF LoopEnds
<1>18. ASSUME NEW i \in Items, HandleItem(i) PROVE HandledWasRead'
  BY <1>18 DEF HandleItem
<1>19. CASE FinishRun
  BY <1>19 DEF FinishRun
<1>20. CASE GiveUp
  BY <1>20 DEF GiveUp
<1>21. CASE Compare
  BY <1>21 DEF Compare
<1>22. CASE ActivateFix
  BY <1>22 DEF ActivateFix
<1>23. CASE FinishTask
  BY <1>23 DEF FinishTask, Turns
<1>24. CASE Reply
  BY <1>24 DEF Reply, Turns
<1>25. CASE StepFails
  BY <1>25 DEF StepFails, Fails, Turns
<1>26. CASE PaymentFails
  BY <1>26 DEF PaymentFails, Fails, Turns
<1>27. CASE Bill
  BY <1>27 DEF Bill, Turns
<1>28. CASE BadRequest
  BY <1>28 DEF BadRequest
<1>29. CASE Reject
  BY <1>29 DEF Reject, Turns
<1>30. CASE Restart
  BY <1>30 DEF Restart, Stops, Turns
<1> QED BY <1>1, <1>2, <1>3, <1>4, <1>5, <1>6, <1>7, <1>8, <1>9, <1>10, <1>11, <1>12, <1>13, <1>14, <1>15, <1>16, <1>17, <1>18, <1>19, <1>20, <1>21, <1>22, <1>23, <1>24, <1>25, <1>26, <1>27, <1>28, <1>29, <1>30 DEF Next, User, Workflow, Work, Time

\* A reply answers messages that had no answer.
LEMMA AnsweredStep ==
    ASSUME TasksTypeOK, AnsweredOnce, InHand, [Next]_vars
    PROVE  AnsweredOnce'
<1> USE DEF TasksTypeOK, CounterTypes, InHand, AnsweredOnce
<1>1. CASE UNCHANGED vars
  BY <1>1 DEF vars
<1>2. ASSUME NEW i \in Messages, NEW t \in Chats, UserMessage(i, t) PROVE AnsweredOnce'
  BY <1>2 DEF UserMessage, Fresh
<1>3. ASSUME NEW s \in DOMAIN scripts, Activate(s) PROVE AnsweredOnce'
  BY <1>3 DEF Activate
<1>4. CASE Authenticate
  BY <1>4 DEF Authenticate
<1>5. CASE RunStarts
  BY <1>5 DEF RunStarts
<1>6. CASE RunEnds
  BY <1>6 DEF RunEnds
<1>7. ASSUME NEW m \in Maintainers, EnterMaintenance(m) PROVE AnsweredOnce'
  BY <1>7 DEF EnterMaintenance, Request, Fresh
<1>8. ASSUME NEW m \in Maintainers, Recover(m) PROVE AnsweredOnce'
  BY <1>8 DEF Recover, Request, Fresh
<1>9. CASE CheckWork
  BY <1>9 DEF CheckWork
<1>10. CASE Proceed
  BY <1>10 DEF Proceed, Available, Selected, Turns
<1>11. ASSUME NEW t \in AllTasks, BackoffEnds(t) PROVE AnsweredOnce'
  BY <1>11 DEF BackoffEnds
<1>12. CASE PauseEnds
  BY <1>12 DEF PauseEnds
<1>13. CASE Begin
  BY <1>13 DEF Begin
<1>14. CASE BeginFails
  BY <1>14 DEF BeginFails, Turns
<1>15. CASE Save
  BY <1>15 DEF Save
<1>16. CASE SaveFix
  BY <1>16 DEF SaveFix
<1>17. CASE LoopEnds
  BY <1>17 DEF LoopEnds
<1>18. ASSUME NEW i \in Items, HandleItem(i) PROVE AnsweredOnce'
  BY <1>18 DEF HandleItem
<1>19. CASE FinishRun
  BY <1>19 DEF FinishRun
<1>20. CASE GiveUp
  BY <1>20 DEF GiveUp
<1>21. CASE Compare
  BY <1>21 DEF Compare
<1>22. CASE ActivateFix
  BY <1>22 DEF ActivateFix
<1>23. CASE FinishTask
  BY <1>23 DEF FinishTask, Turns
<1>24. CASE Reply
  BY <1>24 DEF Reply, Turns
<1>25. CASE StepFails
  BY <1>25 DEF StepFails, Fails, Turns
<1>26. CASE PaymentFails
  BY <1>26 DEF PaymentFails, Fails, Turns
<1>27. CASE Bill
  BY <1>27 DEF Bill, Turns
<1>28. CASE BadRequest
  BY <1>28 DEF BadRequest
<1>29. CASE Reject
  BY <1>29 DEF Reject, Turns
<1>30. CASE Restart
  BY <1>30 DEF Restart, Stops, Turns
<1> QED BY <1>1, <1>2, <1>3, <1>4, <1>5, <1>6, <1>7, <1>8, <1>9, <1>10, <1>11, <1>12, <1>13, <1>14, <1>15, <1>16, <1>17, <1>18, <1>19, <1>20, <1>21, <1>22, <1>23, <1>24, <1>25, <1>26, <1>27, <1>28, <1>29, <1>30 DEF Next, User, Workflow, Work, Time

\* A release is newer than those before, and a fix is none.
LEMMA ReleasesStep ==
    ASSUME TasksTypeOK, ReleasesAreDistinct, InHand, [Next]_vars
    PROVE  ReleasesAreDistinct'
<1> USE DEF TasksTypeOK
<1>1. CASE UNCHANGED vars
  BY <1>1 DEF vars, Releases, ReleasesAreDistinct
<1>2. ASSUME NEW i \in Messages, NEW t \in Chats, UserMessage(i, t) PROVE ReleasesAreDistinct'
  BY <1>2 DEF UserMessage, Fresh, Releases, ReleasesAreDistinct
<1>3. ASSUME NEW s \in DOMAIN scripts, Activate(s) PROVE ReleasesAreDistinct'
  BY <1>3 DEF Activate, Releases, ReleasesAreDistinct
<1>4. CASE Authenticate
  BY <1>4 DEF Authenticate, Releases, ReleasesAreDistinct
<1>5. CASE RunStarts
  BY <1>5 DEF RunStarts, Releases, ReleasesAreDistinct
<1>6. CASE RunEnds
  BY <1>6 DEF RunEnds, Releases, ReleasesAreDistinct
<1>7. ASSUME NEW m \in Maintainers, EnterMaintenance(m) PROVE ReleasesAreDistinct'
  BY <1>7 DEF EnterMaintenance, Request, Fresh, Releases, ReleasesAreDistinct
<1>8. ASSUME NEW m \in Maintainers, Recover(m) PROVE ReleasesAreDistinct'
  BY <1>8 DEF Recover, Request, Fresh, Releases, ReleasesAreDistinct
<1>9. CASE CheckWork
  BY <1>9 DEF CheckWork, Releases, ReleasesAreDistinct
<1>10. CASE Proceed
  BY <1>10 DEF Proceed, Available, Selected, Turns, Releases, ReleasesAreDistinct
<1>11. ASSUME NEW t \in AllTasks, BackoffEnds(t) PROVE ReleasesAreDistinct'
  BY <1>11 DEF BackoffEnds, Releases, ReleasesAreDistinct
<1>12. CASE PauseEnds
  BY <1>12 DEF PauseEnds, Releases, ReleasesAreDistinct
<1>13. CASE Begin
  BY <1>13 DEF Begin, Releases, ReleasesAreDistinct
<1>14. CASE BeginFails
  BY <1>14 DEF BeginFails, Turns, Releases, ReleasesAreDistinct
<1>15. CASE Save
  <2>1. PICK n \in 1 .. MaxScripts :
            /\ \A s \in Releases : scripts[s].major < n
            /\ scripts' = Append(scripts, [major |-> n, minor |-> 0])
    BY <1>15 DEF Save
  <2>2. n \in Nat /\ [major |-> n, minor |-> 0] \in [major : Nat, minor : Nat]
    BY Bounds
  <2>3. /\ DOMAIN scripts' = DOMAIN scripts \cup {Len(scripts) + 1} /\ scripts'[Len(scripts) + 1].major = n
        /\ \A s \in DOMAIN scripts : scripts'[s] = scripts[s]
    <3> DEFINE e == [major |-> n, minor |-> 0]
    <3>1. e \in [major : Nat, minor : Nat] /\ e.major = n /\ scripts' = Append(scripts, e)
      BY <2>1, <2>2
    <3> HIDE DEF e
    <3> QED BY <3>1, ScriptAdded
  <2>4. \A v \in Releases' : v = Len(scripts) + 1 \/ (v \in Releases /\ scripts'[v] = scripts[v])
    BY <2>3 DEF Releases
  <2>5. \A v \in Releases : scripts[v].major # n
    <3>1. ASSUME NEW v \in Releases PROVE scripts[v].major \in Nat /\ scripts[v].major < n
      BY <2>1, VersionsAreNumbers DEF Releases
    <3> QED BY ONLY <2>2, <3>1
  <2> QED BY <2>3, <2>4, <2>5 DEF ReleasesAreDistinct
<1>16. CASE SaveFix
  <2>1. failed[task] \in DOMAIN scripts
    BY <1>16 DEF SaveFix, ScriptTypes, RowTypes, WorkerTypes, InHand
  <2>2. PICK e \in [major : Nat, minor : Nat] : e.minor # 0 /\ scripts' = Append(scripts, e)
    BY <1>16, <2>1, VersionsAreNumbers DEF SaveFix
  <2>3. /\ DOMAIN scripts' = DOMAIN scripts \cup {Len(scripts) + 1} /\ scripts'[Len(scripts) + 1] = e
        /\ \A s \in DOMAIN scripts : scripts'[s] = scripts[s]
    BY <2>2, ScriptAdded
  <2>4. \A v \in Releases' : v \in Releases /\ scripts'[v] = scripts[v]
    BY <2>2, <2>3 DEF Releases
  <2> QED BY <2>4 DEF ReleasesAreDistinct
<1>17. CASE LoopEnds
  BY <1>17 DEF LoopEnds, Releases, ReleasesAreDistinct
<1>18. ASSUME NEW i \in Items, HandleItem(i) PROVE ReleasesAreDistinct'
  BY <1>18 DEF HandleItem, Releases, ReleasesAreDistinct
<1>19. CASE FinishRun
  BY <1>19 DEF FinishRun, Releases, ReleasesAreDistinct
<1>20. CASE GiveUp
  BY <1>20 DEF GiveUp, Releases, ReleasesAreDistinct
<1>21. CASE Compare
  BY <1>21 DEF Compare, Releases, ReleasesAreDistinct
<1>22. CASE ActivateFix
  BY <1>22 DEF ActivateFix, Releases, ReleasesAreDistinct
<1>23. CASE FinishTask
  BY <1>23 DEF FinishTask, Turns, Releases, ReleasesAreDistinct
<1>24. CASE Reply
  BY <1>24 DEF Reply, Turns, Releases, ReleasesAreDistinct
<1>25. CASE StepFails
  BY <1>25 DEF StepFails, Fails, Turns, Releases, ReleasesAreDistinct
<1>26. CASE PaymentFails
  BY <1>26 DEF PaymentFails, Fails, Turns, Releases, ReleasesAreDistinct
<1>27. CASE Bill
  BY <1>27 DEF Bill, Turns, Releases, ReleasesAreDistinct
<1>28. CASE BadRequest
  BY <1>28 DEF BadRequest, Releases, ReleasesAreDistinct
<1>29. CASE Reject
  BY <1>29 DEF Reject, Turns, Releases, ReleasesAreDistinct
<1>30. CASE Restart
  BY <1>30 DEF Restart, Stops, Turns, Releases, ReleasesAreDistinct
<1> QED BY <1>1, <1>2, <1>3, <1>4, <1>5, <1>6, <1>7, <1>8, <1>9, <1>10, <1>11, <1>12, <1>13, <1>14, <1>15, <1>16, <1>17, <1>18, <1>19, <1>20, <1>21, <1>22, <1>23, <1>24, <1>25, <1>26, <1>27, <1>28, <1>29, <1>30 DEF Next, User, Workflow, Work, Time

\* A run is opened when the worker begins, and closed before it goes on.
LEMMA OpenStep ==
    ASSUME TasksTypeOK, OpenRunsAreWorkedOn, [Next]_vars
    PROVE  OpenRunsAreWorkedOn'
<1> USE DEF TasksTypeOK, WorkerTypes, OpenRunsAreWorkedOn
<1>1. CASE UNCHANGED vars
  BY <1>1 DEF vars
<1>2. ASSUME NEW i \in Messages, NEW t \in Chats, UserMessage(i, t) PROVE OpenRunsAreWorkedOn'
  BY <1>2 DEF UserMessage, Fresh
<1>3. ASSUME NEW s \in DOMAIN scripts, Activate(s) PROVE OpenRunsAreWorkedOn'
  BY <1>3 DEF Activate
<1>4. CASE Authenticate
  BY <1>4 DEF Authenticate
<1>5. CASE RunStarts
  BY <1>5 DEF RunStarts
<1>6. CASE RunEnds
  BY <1>6 DEF RunEnds
<1>7. ASSUME NEW m \in Maintainers, EnterMaintenance(m) PROVE OpenRunsAreWorkedOn'
  BY <1>7 DEF EnterMaintenance, Request, Fresh
<1>8. ASSUME NEW m \in Maintainers, Recover(m) PROVE OpenRunsAreWorkedOn'
  BY <1>8 DEF Recover, Request, Fresh
<1>9. CASE CheckWork
  BY <1>9 DEF CheckWork
<1>10. CASE Proceed
  BY <1>10 DEF Proceed, Available, Selected, Turns
<1>11. ASSUME NEW t \in AllTasks, BackoffEnds(t) PROVE OpenRunsAreWorkedOn'
  BY <1>11 DEF BackoffEnds
<1>12. CASE PauseEnds
  BY <1>12 DEF PauseEnds
<1>13. CASE Begin
  BY <1>13 DEF Begin
<1>14. CASE BeginFails
  BY <1>14 DEF BeginFails, Turns
<1>15. CASE Save
  BY <1>15 DEF Save
<1>16. CASE SaveFix
  BY <1>16 DEF SaveFix
<1>17. CASE LoopEnds
  BY <1>17 DEF LoopEnds
<1>18. ASSUME NEW i \in Items, HandleItem(i) PROVE OpenRunsAreWorkedOn'
  BY <1>18 DEF HandleItem
<1>19. CASE FinishRun
  BY <1>19 DEF FinishRun
<1>20. CASE GiveUp
  BY <1>20 DEF GiveUp
<1>21. CASE Compare
  BY <1>21 DEF Compare
<1>22. CASE ActivateFix
  BY <1>22 DEF ActivateFix
<1>23. CASE FinishTask
  BY <1>23 DEF FinishTask, Turns
<1>24. CASE Reply
  BY <1>24 DEF Reply, Turns
<1>25. CASE StepFails
  BY <1>25 DEF StepFails, Fails, Turns
<1>26. CASE PaymentFails
  BY <1>26 DEF PaymentFails, Fails, Turns
<1>27. CASE Bill
  BY <1>27 DEF Bill, Turns
<1>28. CASE BadRequest
  BY <1>28 DEF BadRequest
<1>29. CASE Reject
  BY <1>29 DEF Reject, Turns
<1>30. CASE Restart
  BY <1>30 DEF Restart, Stops, Turns
<1> QED BY <1>1, <1>2, <1>3, <1>4, <1>5, <1>6, <1>7, <1>8, <1>9, <1>10, <1>11, <1>12, <1>13, <1>14, <1>15, <1>16, <1>17, <1>18, <1>19, <1>20, <1>21, <1>22, <1>23, <1>24, <1>25, <1>26, <1>27, <1>28, <1>29, <1>30 DEF Next, User, Workflow, Work, Time

\* The flag goes up together with the pause.
LEMMA AskedStep ==
    ASSUME TasksTypeOK, Asked, [Next]_vars
    PROVE  Asked'
<1> USE DEF TasksTypeOK, ScriptTypes, CounterTypes, Asked
<1>1. CASE UNCHANGED vars
  BY <1>1 DEF vars
<1>2. ASSUME NEW i \in Messages, NEW t \in Chats, UserMessage(i, t) PROVE Asked'
  BY <1>2 DEF UserMessage, Fresh
<1>3. ASSUME NEW s \in DOMAIN scripts, Activate(s) PROVE Asked'
  BY <1>3 DEF Activate
<1>4. CASE Authenticate
  BY <1>4 DEF Authenticate
<1>5. CASE RunStarts
  BY <1>5 DEF RunStarts
<1>6. CASE RunEnds
  BY <1>6 DEF RunEnds
<1>7. ASSUME NEW m \in Maintainers, EnterMaintenance(m) PROVE Asked'
  BY <1>7 DEF EnterMaintenance, Request, Fresh
<1>8. ASSUME NEW m \in Maintainers, Recover(m) PROVE Asked'
  BY <1>8 DEF Recover, Request, Fresh
<1>9. CASE CheckWork
  BY <1>9 DEF CheckWork
<1>10. CASE Proceed
  BY <1>10 DEF Proceed, Available, Selected, Turns
<1>11. ASSUME NEW t \in AllTasks, BackoffEnds(t) PROVE Asked'
  BY <1>11 DEF BackoffEnds
<1>12. CASE PauseEnds
  BY <1>12 DEF PauseEnds
<1>13. CASE Begin
  BY <1>13 DEF Begin
<1>14. CASE BeginFails
  BY <1>14 DEF BeginFails, Turns
<1>15. CASE Save
  BY <1>15 DEF Save
<1>16. CASE SaveFix
  BY <1>16 DEF SaveFix
<1>17. CASE LoopEnds
  BY <1>17 DEF LoopEnds
<1>18. ASSUME NEW i \in Items, HandleItem(i) PROVE Asked'
  BY <1>18 DEF HandleItem
<1>19. CASE FinishRun
  BY <1>19 DEF FinishRun
<1>20. CASE GiveUp
  BY <1>20 DEF GiveUp
<1>21. CASE Compare
  BY <1>21 DEF Compare
<1>22. CASE ActivateFix
  BY <1>22 DEF ActivateFix
<1>23. CASE FinishTask
  BY <1>23 DEF FinishTask, Turns
<1>24. CASE Reply
  BY <1>24 DEF Reply, Turns
<1>25. CASE StepFails
  BY <1>25 DEF StepFails, Fails, Turns
<1>26. CASE PaymentFails
  BY <1>26 DEF PaymentFails, Fails, Turns
<1>27. CASE Bill
  BY <1>27 DEF Bill, Turns
<1>28. CASE BadRequest
  BY <1>28 DEF BadRequest
<1>29. CASE Reject
  BY <1>29 DEF Reject, Turns
<1>30. CASE Restart
  BY <1>30 DEF Restart, Stops, Turns
<1> QED BY <1>1, <1>2, <1>3, <1>4, <1>5, <1>6, <1>7, <1>8, <1>9, <1>10, <1>11, <1>12, <1>13, <1>14, <1>15, <1>16, <1>17, <1>18, <1>19, <1>20, <1>21, <1>22, <1>23, <1>24, <1>25, <1>26, <1>27, <1>28, <1>29, <1>30 DEF Next, User, Workflow, Work, Time

\* A request leaves the inbox into the hands of its maintainer, which ends the
\* maintenance or strands it.
LEMMA MaintenanceStep ==
    ASSUME TasksTypeOK, InHand, MaintenanceHasWork, [Next]_vars
    PROVE  MaintenanceHasWork'
<1> USE DEF TasksTypeOK, RowTypes, WorkerTypes, InHand, Strands, MaintenanceHasWork
<1>1. CASE UNCHANGED vars
  BY TasksConstants, <1>1 DEF vars
<1>2. ASSUME NEW i \in Messages, NEW t \in Chats, UserMessage(i, t) PROVE MaintenanceHasWork'
  BY TasksConstants, <1>2 DEF UserMessage, Fresh
<1>3. ASSUME NEW s \in DOMAIN scripts, Activate(s) PROVE MaintenanceHasWork'
  BY TasksConstants, <1>3 DEF Activate
<1>4. CASE Authenticate
  BY TasksConstants, <1>4 DEF Authenticate
<1>5. CASE RunStarts
  BY TasksConstants, <1>5 DEF RunStarts
<1>6. CASE RunEnds
  BY TasksConstants, <1>6 DEF RunEnds
<1>7. ASSUME NEW m \in Maintainers, EnterMaintenance(m) PROVE MaintenanceHasWork'
  BY TasksConstants, <1>7 DEF EnterMaintenance, Request, Fresh
<1>8. ASSUME NEW m \in Maintainers, Recover(m) PROVE MaintenanceHasWork'
  BY TasksConstants, <1>8 DEF Recover, Request, Fresh
<1>9. CASE CheckWork
  BY TasksConstants, <1>9 DEF CheckWork
<1>10. CASE Proceed
  BY TasksConstants, <1>10 DEF Proceed, Available, Selected, Turns
<1>11. ASSUME NEW t \in AllTasks, BackoffEnds(t) PROVE MaintenanceHasWork'
  BY TasksConstants, <1>11 DEF BackoffEnds
<1>12. CASE PauseEnds
  BY TasksConstants, <1>12 DEF PauseEnds
<1>13. CASE Begin
  BY TasksConstants, <1>13 DEF Begin
<1>14. CASE BeginFails
  BY TasksConstants, <1>14 DEF BeginFails, Turns
<1>15. CASE Save
  BY TasksConstants, <1>15 DEF Save
<1>16. CASE SaveFix
  BY TasksConstants, <1>16 DEF SaveFix
<1>17. CASE LoopEnds
  BY TasksConstants, <1>17 DEF LoopEnds
<1>18. ASSUME NEW i \in Items, HandleItem(i) PROVE MaintenanceHasWork'
  BY TasksConstants, <1>18 DEF HandleItem
<1>19. CASE FinishRun
  BY TasksConstants, <1>19 DEF FinishRun
<1>20. CASE GiveUp
  BY TasksConstants, <1>20 DEF GiveUp
<1>21. CASE Compare
  BY TasksConstants, <1>21 DEF Compare
<1>22. CASE ActivateFix
  BY TasksConstants, <1>22 DEF ActivateFix
<1>23. CASE FinishTask
  BY TasksConstants, <1>23 DEF FinishTask, Turns
<1>24. CASE Reply
  BY TasksConstants, <1>24 DEF Reply, Turns
<1>25. CASE StepFails
  BY TasksConstants, <1>25 DEF StepFails, Fails, Turns
<1>26. CASE PaymentFails
  BY TasksConstants, <1>26 DEF PaymentFails, Fails, Turns
<1>27. CASE Bill
  BY TasksConstants, <1>27 DEF Bill, Turns
<1>28. CASE BadRequest
  BY TasksConstants, <1>28 DEF BadRequest
<1>29. CASE Reject
  BY TasksConstants, <1>29 DEF Reject, Turns
<1>30. CASE Restart
  BY TasksConstants, <1>30 DEF Restart, Stops, Turns
<1> QED BY <1>1, <1>2, <1>3, <1>4, <1>5, <1>6, <1>7, <1>8, <1>9, <1>10, <1>11, <1>12, <1>13, <1>14, <1>15, <1>16, <1>17, <1>18, <1>19, <1>20, <1>21, <1>22, <1>23, <1>24, <1>25, <1>26, <1>27, <1>28, <1>29, <1>30 DEF Next, User, Workflow, Work, Time


-----------------------------------------------------------------------------
\* At first nothing has happened.
LEMMA InitHolds == Init => TasksInv /\ MaintenanceHasWork
<1> SUFFICES ASSUME Init PROVE TasksInv /\ MaintenanceHasWork
  OBVIOUS
<1> USE DEF Init
<1>1. Flags
  BY Zenon DEF Flags
<1>2. TasksTypeOK
  BY <1>1 DEF TasksTypeOK, RowTypes, ScriptTypes, WorkerTypes, CounterTypes
<1>3. InHand /\ Asked
  BY TasksConstants DEF InHand, Asked
<1>4. HandledWasRead /\ AnsweredOnce /\ ReleasesAreDistinct /\ OpenRunsAreWorkedOn /\ MaintenanceHasWork
  BY DEF HandledWasRead, AnsweredOnce, ReleasesAreDistinct, Releases, OpenRunsAreWorkedOn, MaintenanceHasWork
<1> QED BY <1>2, <1>3, <1>4 DEF TasksInv

\* The parts need each other, and no more than that.
LEMMA Inductive == Spec => [](TasksInv /\ MaintenanceHasWork)
<1>1. TasksInv /\ MaintenanceHasWork /\ [Next]_vars => (TasksInv /\ MaintenanceHasWork)'
  BY FlagsStep, RowTypesStep, ScriptTypesStep, WorkerTypesStep, CounterTypesStep, InHandStep, ReadStep, AnsweredStep, ReleasesStep, OpenStep, AskedStep, MaintenanceStep
     DEF TasksInv, TasksTypeOK
<1> QED BY InitHolds, <1>1, PTL DEF Spec

\* Whatever fails or stops, and whenever messages arrive: an item is marked only
\* by a run that had read it, a message is answered once, no two releases have
\* the same version and no run is left open (TasksInv).
THEOREM TasksAreAccountedFor == Spec => []TasksInv
BY Inductive, PTL

\* A workflow in maintenance has a maintainer that will end it, but for the ways to
\* strand it that MaintenanceHasWork names.
THEOREM MaintenanceIsWorkedOn == Spec => []MaintenanceHasWork
BY Inductive, PTL

\* No task starts while the user has to pay, even by a call of checkWork that
\* read the flag before it went up: that call meets the pause.
THEOREM UnpaidWorkStops == Spec => UnpaidStops
<1>1. TasksInv /\ [Next]_vars => [pc = "idle" /\ pc' = "start" => ~needAuth]_vars
  <2> SUFFICES ASSUME TasksInv, Next, pc = "idle", pc' = "start" PROVE ~needAuth
    BY DEF vars
  <2>1. ~User /\ ~Workflow /\ ~CheckWork /\ ~Time /\ ~Restart
    BY DEF User, UserMessage, Activate, Authenticate, Workflow, RunStarts, RunEnds, EnterMaintenance, Recover,
           Request, CheckWork, Time, PauseEnds, BackoffEnds, Restart, Stops, Turns
  <2>2. ~Work
    BY DEF Work, Begin, BeginFails, Save, SaveFix, LoopEnds, HandleItem, FinishRun, GiveUp, Compare, ActivateFix,
           FinishTask, Reply, StepFails, PaymentFails, Bill, BadRequest, Reject
  <2> QED BY <2>1, <2>2 DEF Next, Proceed, TasksInv, TasksTypeOK, CounterTypes, Asked
<1> QED BY TasksAreAccountedFor, <1>1, PTL DEF Spec, UnpaidStops

-----------------------------------------------------------------------------
USE DEF disk, memory, provider, connectionHistory

\* The bounds are numbers.
LEMMA ConnectionBounds ==
    /\ MaxTokens \in Nat \ {0} /\ MaxFlows \in Nat \ {0} /\ MaxPending \in Nat \ {0}
    /\ MaxLeaves \in Nat /\ MaxRestarts \in Nat
BY ConnectionsConstants

\* Nothing is stored and nothing is under way at first.
LEMMA ConnectionsInitHolds == ConnectionsInit => ConnectionsInv
<1> SUFFICES ASSUME ConnectionsInit PROVE ConnectionsInv
  OBVIOUS
<1> USE DEF ConnectionsInit
<1>1. ConnectionsTypeOK
  <2>1. request \in [Callers -> Requests] /\ promise = {c \in Callers : request[c] # NoRequest}
    BY DEF Requests, NoRequest
  <2>2. signin \in [Flows -> [step : {"off", "asking", "saving", "recording"}, token : 0 .. issued]]
    BY DEF Off
  <2>3. leave \in [step : {"off", "revoking", "deleting", "forgetting"}, token : 0 .. issued]
    BY DEF Off
  <2>4. issued \in 0 .. MaxTokens /\ grant \in [Tokens -> 0 .. MaxFlows] /\ 1 .. issued = {}
    BY ConnectionBounds DEF Tokens
  <2>5. leaves \in 0 .. MaxLeaves /\ restarts \in 0 .. MaxRestarts
    BY ConnectionBounds
  <2>6. /\ file \in 0 .. issued /\ row \in {"none", "connected", "error"}
        /\ call \in [Callers -> {"idle", "loaded", "waiting", "using", "failing", "marking"}]
        /\ cred \in [Callers -> 0 .. issued]
        /\ flow \in [Flows -> {"new", "pending", "late", "dropped"}]
    OBVIOUS
  <2>7. fresh \subseteq 1 .. issued /\ revoked \subseteq Flows
    OBVIOUS
  <2>8. exchanges \in [Flows -> Nat] /\ gone \in BOOLEAN /\ crossed \in BOOLEAN
    OBVIOUS
  <2> HIDE DEF ConnectionsInit
  <2> QED BY <2>1, <2>2, <2>3, <2>4, <2>5, <2>6, <2>7, <2>8 DEF ConnectionsTypeOK
<1>2. FlowsAreBounded
  <2>1. Pending = {}
    BY DEF Pending
  <2> QED BY <2>1, FS_EmptySet, ConnectionBounds DEF FlowsAreBounded, Flows
<1>3. SingleFlight /\ TokensAreHeld /\ ExchangedIsTaken /\ HalfWay /\ RemovedStaysRemoved
  BY DEF SingleFlight, TokensAreHeld, ExchangedIsTaken, HalfWay, RemovedStaysRemoved, NoRequest, Off
<1> QED BY <1>1, <1>2, <1>3 DEF ConnectionsInv

-----------------------------------------------------------------------------
\* Types.

\* A token that is issued leaves the older ones within their range.
LEMMA IssuedGrows ==
    ASSUME ConnectionsTypeOK, NEW g \in Flows, Issue(g)
    PROVE  /\ issued' \in 0 .. MaxTokens /\ issued' \in 1 .. issued'
           /\ 0 .. issued \subseteq 0 .. issued' /\ 1 .. issued \subseteq 1 .. issued'
           /\ grant' \in [Tokens -> 0 .. MaxFlows] /\ \A t \in 1 .. issued' : grant'[t] \in Flows
           /\ fresh' \subseteq 1 .. issued' /\ revoked' \subseteq Flows
<1> USE ConnectionBounds DEF ConnectionsTypeOK
<1>1. issued \in Nat /\ issued < MaxTokens /\ issued' = issued + 1
  BY DEF Issue
<1>2. issued' \in 0 .. MaxTokens /\ issued' \in 1 .. issued' /\ issued' \in Tokens
  BY <1>1 DEF Tokens
<1>3. 0 .. issued \subseteq 0 .. issued' /\ 1 .. issued \subseteq 1 .. issued'
  BY <1>1
<1>4. grant' \in [Tokens -> 0 .. MaxFlows]
  BY <1>1, <1>2 DEF Issue, Flows
<1>5. ASSUME NEW t \in 1 .. issued' PROVE grant'[t] \in Flows
  <2>1. t \in Tokens /\ (t \in 1 .. issued \/ t = issued + 1)
    BY <1>1 DEF Tokens
  <2> QED BY <2>1, <1>1 DEF Issue
<1>6. fresh' \subseteq 1 .. issued' /\ revoked' \subseteq Flows
  BY <1>1, <1>2, <1>3 DEF Issue
<1> QED BY <1>2, <1>3, <1>4, <1>5, <1>6

\* Every step keeps the types, and a refresh stays promised while it is under way.
LEMMA TypeStep ==
    ASSUME ConnectionsTypeOK, [ConnectionsNext]_connectionVars
    PROVE  ConnectionsTypeOK'
<1> USE ConnectionBounds DEF ConnectionsTypeOK, Requests
<1>1. CASE UNCHANGED connectionVars
  BY <1>1 DEF connectionVars
<1>2. ASSUME NEW c \in Callers, Call(c) PROVE ConnectionsTypeOK'
  <2>1. CASE Load(c)
    BY <2>1 DEF Load, Goto
  <2>2. CASE Answer(c)
    BY <2>2 DEF Answer, Goto
  <2>3. CASE Expired(c)
    BY <2>3 DEF Expired, Goto
  <2>4. CASE Join(c)
    BY <2>4 DEF Join, Goto
  <2>5. CASE StartRefresh(c)
    <3>1. request' \in [Callers -> Requests]
      BY <2>5 DEF StartRefresh, NoRequest
    <3>2. promise' = {d \in Callers : request'[d] # NoRequest}
      <4>1. request'[c] # NoRequest
        BY <2>5 DEF StartRefresh, NoRequest
      <4>2. \A d \in Callers \ {c} : request'[d] = NoRequest
        BY <2>5 DEF StartRefresh
      <4> QED BY <2>5, <4>1, <4>2 DEF StartRefresh
    <3>3. call' \in [Callers -> {"idle", "loaded", "waiting", "using", "failing", "marking"}]
      BY <2>5 DEF StartRefresh, Goto
    <3>4. cred' \in [Callers -> 0 .. issued]
      BY <2>5 DEF StartRefresh, Goto
    <3> QED BY <2>5, <3>1, <3>2, <3>3, <3>4 DEF StartRefresh
  <2>6. CASE Use(c)
    BY <2>6 DEF Use, Goto
  <2>7. CASE MarkRead(c)
    <3>1. PICK place \in {"idle", "failing", "marking"}, token \in 0 .. issued : Goto(c, place, token)
      BY <2>7 DEF MarkRead, Noted
    <3> QED BY <2>7, <3>1 DEF MarkRead, Goto
  <2>8. CASE MarkWrite(c)
    BY <2>8 DEF MarkWrite, Noted, Goto
  <2> QED BY <1>2, <2>1, <2>2, <2>3, <2>4, <2>5, <2>6, <2>7, <2>8 DEF Call
<1>3. ASSUME NEW c \in Callers, Refreshing(c) PROVE ConnectionsTypeOK'
  <2>1. CASE Refreshed(c)
    <3>1. request[c] \in Requests /\ request[c].old \in Tokens /\ grant[request[c].old] \in Flows
      BY <2>1 DEF Refreshed, Requests
    <3>2. /\ issued' \in 0 .. MaxTokens /\ issued' \in 1 .. issued' /\ issued' = issued + 1
          /\ 0 .. issued \subseteq 0 .. issued'
          /\ grant' \in [Tokens -> 0 .. MaxFlows] /\ \A t \in 1 .. issued' : grant'[t] \in Flows
          /\ fresh' \subseteq 1 .. issued' /\ revoked' \subseteq Flows
      BY <2>1, <3>1, IssuedGrows DEF Refreshed, Issue
    <3>3. /\ file' \in 0 .. issued' /\ cred' \in [Callers -> 0 .. issued']
          /\ signin' \in [Flows -> [step : {"off", "asking", "saving", "recording"}, token : 0 .. issued']]
          /\ leave' \in [step : {"off", "revoking", "deleting", "forgetting"}, token : 0 .. issued']
      BY <2>1, <3>2 DEF Refreshed
    <3>4. request' \in [Callers -> Requests']
      BY <2>1, <3>2 DEF Refreshed
    <3>5. promise' = {d \in Callers : request'[d] # NoRequest}
      BY <2>1 DEF Refreshed, NoRequest
    <3> QED BY <2>1, <3>2, <3>3, <3>4, <3>5 DEF Refreshed
  <2>2. CASE SaveRefreshed(c)
    BY <2>2 DEF SaveRefreshed, Requests, NoRequest
  <2>3. CASE RefreshSettles(c)
    BY <2>3 DEF RefreshSettles, Requests, NoRequest
  <2>4. CASE RefreshFails(c)
    BY <2>4 DEF RefreshFails, Requests, NoRequest
  <2> QED BY <1>3, <2>1, <2>2, <2>3, <2>4 DEF Refreshing
<1>4. ASSUME NEW f \in Flows, SignIn(f) PROVE ConnectionsTypeOK'
  <2>1. CASE StartFlow(f)
    BY <2>1 DEF StartFlow
  <2>2. CASE FlowExpires(f)
    BY <2>2 DEF FlowExpires
  <2>3. CASE Callback(f)
    <3>1. exchanges' \in [Flows -> Nat]
      BY <2>3 DEF Callback
    <3>2. signin' \in [Flows -> [step : {"off", "asking", "saving", "recording"}, token : 0 .. issued]]
      BY <2>3 DEF Callback
    <3>3. flow' \in [Flows -> {"new", "pending", "late", "dropped"}]
      BY <2>3 DEF Callback
    <3> QED BY <2>3, <3>1, <3>2, <3>3 DEF Callback
  <2>4. CASE Exchange(f)
    <3>1. CASE Issue(f)
      <4>1. /\ issued' \in 0 .. MaxTokens /\ issued' \in 1 .. issued' /\ issued' = issued + 1
            /\ 0 .. issued \subseteq 0 .. issued'
            /\ grant' \in [Tokens -> 0 .. MaxFlows] /\ \A t \in 1 .. issued' : grant'[t] \in Flows
            /\ fresh' \subseteq 1 .. issued' /\ revoked' \subseteq Flows
        BY <3>1, IssuedGrows DEF Issue
      <4>2. signin' \in [Flows -> [step : {"off", "asking", "saving", "recording"}, token : 0 .. issued']]
        BY <2>4, <4>1 DEF Exchange, Off
      <4>3. /\ file' \in 0 .. issued' /\ cred' \in [Callers -> 0 .. issued']
            /\ request' \in [Callers -> Requests']
            /\ leave' \in [step : {"off", "revoking", "deleting", "forgetting"}, token : 0 .. issued']
        BY <2>4, <4>1 DEF Exchange
      <4> QED BY <2>4, <4>1, <4>2, <4>3 DEF Exchange
    <3>2. CASE UNCHANGED provider
      <4>1. signin' = [signin EXCEPT ![f] = Off] \/ Issue(f)
        BY <2>4 DEF Exchange
      <4>2. ~Issue(f)
        BY <3>2 DEF Issue
      <4>3. signin' \in [Flows -> [step : {"off", "asking", "saving", "recording"}, token : 0 .. issued]]
        BY <4>1, <4>2 DEF Off
      <4> QED BY <2>4, <3>2, <4>3 DEF Exchange
    <3> QED BY <2>4, <3>1, <3>2 DEF Exchange
  <2>5. CASE SaveSignIn(f)
    BY <2>5 DEF SaveSignIn
  <2>6. CASE RecordSignIn(f)
    BY <2>6 DEF RecordSignIn, Off
  <2> QED BY <1>4, <2>1, <2>2, <2>3, <2>4, <2>5, <2>6 DEF SignIn
<1>5. CASE Leave
  <2>1. CASE LeaveLoads
    BY <2>1 DEF LeaveLoads, Off
  <2>2. CASE LeaveRevokes
    <3>1. revoked' \subseteq Flows
      BY <2>2 DEF LeaveRevokes
    <3>2. leave' \in [step : {"off", "revoking", "deleting", "forgetting"}, token : 0 .. issued]
      BY <2>2 DEF LeaveRevokes
    <3> QED BY <2>2, <3>1, <3>2 DEF LeaveRevokes
  <2>3. CASE LeaveDeletes
    BY <2>3 DEF LeaveDeletes
  <2>4. CASE LeaveForgets
    BY <2>4 DEF LeaveForgets, Off
  <2> QED BY <1>5, <2>1, <2>2, <2>3, <2>4 DEF Leave
<1>6. CASE CleanUp
  BY <1>6 DEF CleanUp
<1>7. CASE RestartServer
  <2>1. request' \in [Callers -> Requests] /\ promise' = {c \in Callers : request'[c] # NoRequest}
    BY <1>7 DEF RestartServer, Stopped, NoRequest
  <2>2. /\ signin' \in [Flows -> [step : {"off", "asking", "saving", "recording"}, token : 0 .. issued]]
        /\ leave' \in [step : {"off", "revoking", "deleting", "forgetting"}, token : 0 .. issued]
    BY <1>7 DEF RestartServer, Stopped, Off
  <2>3. row' \in {"none", "connected", "error"}
    BY <1>7 DEF RestartServer
  <2>4. flow' \in [Flows -> {"new", "pending", "late", "dropped"}]
    BY <1>7 DEF RestartServer, Stopped
  <2>5. restarts' \in 0 .. MaxRestarts
    <3>1. restarts < MaxRestarts /\ restarts' = restarts + 1
      BY <1>7 DEF RestartServer, Stopped
    <3> QED BY <3>1
  <2>8. gone' \in BOOLEAN /\ crossed' \in BOOLEAN
    BY <1>7, Zenon DEF RestartServer, Stopped
  <2>6. /\ call' \in [Callers -> {"idle", "loaded", "waiting", "using", "failing", "marking"}]
        /\ cred' \in [Callers -> 0 .. issued]
    BY <1>7 DEF RestartServer, Stopped
  <2>7. UNCHANGED <<file, issued, grant, fresh, revoked, leaves, exchanges>>
    BY <1>7 DEF RestartServer, Stopped
  <2> QED BY <2>1, <2>2, <2>3, <2>4, <2>5, <2>6, <2>7, <2>8
<1>8. ASSUME NEW t \in Tokens, TokenExpires(t) PROVE ConnectionsTypeOK'
  BY <1>8 DEF TokenExpires
<1> QED BY <1>1, <1>2, <1>3, <1>4, <1>5, <1>6, <1>7, <1>8 DEF ConnectionsNext

-----------------------------------------------------------------------------
\* The refresh.  Steps of a call that does not wait touch no refresh; a refresh
\* begins when there is none, and whoever it belongs to waits until it ends.
LEMMA RefreshStep ==
    ASSUME ConnectionsTypeOK, SingleFlight, TokensAreHeld, [ConnectionsNext]_connectionVars
    PROVE  SingleFlight' /\ TokensAreHeld'
<1> USE DEF SingleFlight, TokensAreHeld
<1>1. CASE UNCHANGED <<call, request, signin>>
  BY <1>1
<1>2. ASSUME NEW c \in Callers, Call(c), ~StartRefresh(c) PROVE SingleFlight' /\ TokensAreHeld'
  <2>1. call[c] # "waiting" /\ UNCHANGED <<request, signin>>
    BY <1>2 DEF Call, Load, Answer, Expired, Stale, Join, Use, MarkRead, MarkWrite
  <2>2. \A d \in Callers \ {c} : call'[d] = call[d]
    BY <1>2 DEF Call, Load, Answer, Expired, Join, Use, MarkRead, MarkWrite, Noted, Goto, ConnectionsTypeOK
  <2> QED BY <2>1, <2>2
<1>3. ASSUME NEW c \in Callers, StartRefresh(c) PROVE SingleFlight' /\ TokensAreHeld'
  <2>1. \A d \in Callers : request[d] = NoRequest
    BY <1>3 DEF StartRefresh, ConnectionsTypeOK
  <2>2. request'[c] = [step |-> "sent", old |-> cred[c], new |-> 0] /\ cred[c] # 0
    BY <1>3 DEF StartRefresh, Stale, NoRequest, ConnectionsTypeOK
  <2>3. call'[c] = "waiting" /\ signin' = signin /\ \A d \in Callers \ {c} : request'[d] = NoRequest
    BY <1>3, <2>1 DEF StartRefresh, Goto, ConnectionsTypeOK
  <2> QED BY <2>1, <2>2, <2>3 DEF NoRequest
<1>4. ASSUME NEW c \in Callers, Refreshing(c) PROVE SingleFlight' /\ TokensAreHeld'
  <2>1. CASE Refreshed(c)
    <3>1. request'[c].step = "answered" /\ request'[c].old = request[c].old /\ request'[c].new # 0
      BY <2>1 DEF Refreshed, ConnectionsTypeOK, Requests
    <3>2. request[c] # NoRequest /\ UNCHANGED <<call, signin>>
      BY <2>1 DEF Refreshed, NoRequest
    <3>3. \A d \in Callers \ {c} : request'[d] = request[d]
      BY <2>1 DEF Refreshed, ConnectionsTypeOK
    <3> QED BY <3>1, <3>2, <3>3
  <2>2. CASE SaveRefreshed(c)
    <3>1. request'[c].step = "saved" /\ request'[c].old = request[c].old /\ request'[c].new # 0
      BY <2>2 DEF SaveRefreshed, ConnectionsTypeOK, Requests
    <3>2. request[c] # NoRequest /\ UNCHANGED <<call, signin>>
      BY <2>2 DEF SaveRefreshed, NoRequest
    <3>3. \A d \in Callers \ {c} : request'[d] = request[d]
      BY <2>2 DEF SaveRefreshed, ConnectionsTypeOK
    <3> QED BY <3>1, <3>2, <3>3
  <2>3. CASE RefreshSettles(c) \/ RefreshFails(c)
    <3>1. request'[c] = NoRequest /\ signin' = signin /\ \A d \in Callers \ {c} : request'[d] = request[d]
      BY <2>3 DEF RefreshSettles, RefreshFails, ConnectionsTypeOK
    <3>2. \A d \in Callers \ {c} : request[d] # NoRequest => call'[d] = call[d]
      <4>1. CASE RefreshSettles(c)
        BY <4>1 DEF RefreshSettles, Waiting
      <4>2. CASE RefreshFails(c)
        BY <4>2 DEF RefreshFails, Waiting
      <4> QED BY <2>3, <4>1, <4>2
    <3> QED BY <3>1, <3>2 DEF NoRequest
  <2> QED BY <1>4, <2>1, <2>2, <2>3 DEF Refreshing
<1>5. ASSUME NEW f \in Flows, SignIn(f) PROVE SingleFlight' /\ TokensAreHeld'
  <2>1. UNCHANGED <<call, request>>
    BY <1>5 DEF SignIn, StartFlow, FlowExpires, Callback, Exchange, SaveSignIn, RecordSignIn
  <2>2. ASSUME NEW g \in Flows, signin'[g].step \in {"saving", "recording"} PROVE signin'[g].token # 0
    <3>1. CASE StartFlow(f) \/ FlowExpires(f)
      BY <2>2, <3>1 DEF StartFlow, FlowExpires
    <3>2. CASE Callback(f)
      BY <2>2, <3>2 DEF Callback, ConnectionsTypeOK
    <3>3. CASE Exchange(f)
      <4>1. issued + 1 # 0
        BY ConnectionBounds DEF ConnectionsTypeOK
      <4>2. \/ signin' = [signin EXCEPT ![f] = [step |-> "saving", token |-> issued + 1]]
            \/ signin' = [signin EXCEPT ![f] = Off]
        BY <3>3 DEF Exchange
      <4>3. signin'[f].step # "saving" \/ signin'[f].token = issued + 1
        BY <4>2 DEF Off, ConnectionsTypeOK
      <4>4. signin'[f].step # "recording" /\ \A h \in Flows \ {f} : signin'[h] = signin[h]
        BY <4>2 DEF Off, ConnectionsTypeOK
      <4> QED BY <2>2, <4>1, <4>3, <4>4
    <3>4. CASE SaveSignIn(f)
      <4>1. signin[f].step = "saving" /\ signin'[f].token = signin[f].token
        BY <3>4 DEF SaveSignIn, ConnectionsTypeOK
      <4>2. \A h \in Flows \ {f} : signin'[h] = signin[h]
        BY <3>4 DEF SaveSignIn
      <4> QED BY <2>2, <4>1, <4>2
    <3>5. CASE RecordSignIn(f)
      <4>1. signin'[f].step = "off" /\ \A h \in Flows \ {f} : signin'[h] = signin[h]
        BY <3>5 DEF RecordSignIn, Off, ConnectionsTypeOK
      <4> QED BY <2>2, <4>1
    <3> QED BY <1>5, <3>1, <3>2, <3>3, <3>4, <3>5 DEF SignIn
  <2> QED BY <2>1, <2>2
<1>6. CASE Leave
  BY <1>6, <1>1 DEF Leave, LeaveLoads, LeaveRevokes, LeaveDeletes, LeaveForgets
<1>7. CASE CleanUp
  BY <1>7, <1>1 DEF CleanUp
<1>8. CASE RestartServer
  BY <1>8 DEF RestartServer, Stopped, NoRequest, Off
<1>9. ASSUME NEW t \in Tokens, TokenExpires(t) PROVE SingleFlight' /\ TokensAreHeld'
  BY <1>9, <1>1 DEF TokenExpires
<1>10. CASE UNCHANGED connectionVars
  BY <1>10, <1>1 DEF connectionVars
<1> QED BY <1>2, <1>3, <1>4, <1>5, <1>6, <1>7, <1>8, <1>9, <1>10 DEF ConnectionsNext

-----------------------------------------------------------------------------
\* The sign-ins.

\* Sets of sign-ins are finite and can be counted.
LEMMA FlowsFinite == ASSUME NEW S \in SUBSET Flows
                     PROVE  IsFiniteSet(S) /\ Cardinality(S) \in Nat
<1>1. IsFiniteSet(Flows)
  <2>1. 1 \in Int /\ MaxFlows \in Int
    BY ConnectionBounds
  <2> QED BY <2>1, FS_Interval DEF Flows
<1>2. IsFiniteSet(S)
  BY <1>1, FS_Subset
<1> QED BY <1>2, FS_CardinalityType

\* A sign-in is started: the oldest that waits makes room when there are enough.
LEMMA StartFlowBounded ==
    ASSUME ConnectionsTypeOK, FlowsAreBounded, NEW f \in Flows, StartFlow(f)
    PROVE  Cardinality(Pending)' <= MaxPending
<1> DEFINE kept == {g \in Flows : flow[g] = "pending"}
<1>1. kept \in SUBSET Flows /\ kept \in SUBSET Pending /\ Pending \in SUBSET Flows /\ f \notin kept
  BY DEF Pending, StartFlow
<1>2. IsFiniteSet(kept) /\ IsFiniteSet(Pending) /\ Cardinality(kept) \in Nat /\ Cardinality(Pending) \in Nat
  BY <1>1, FlowsFinite
<1>3. Cardinality(kept) <= MaxPending
  <2>1. Cardinality(kept) <= Cardinality(Pending)
    BY <1>1, <1>2, FS_Subset
  <2> QED BY <1>2, <2>1, ConnectionBounds DEF FlowsAreBounded
<1>4. PICK old \in kept \cup {0} :
         /\ IF Cardinality(kept) >= MaxPending THEN old # 0 ELSE old = 0
         /\ flow' = [g \in Flows |-> IF g = f THEN "pending"
                        ELSE IF g = old \/ g \in Pending \ kept THEN "dropped" ELSE flow[g]]
  BY DEF StartFlow
<1> DEFINE rest == kept \ {old}
<1>5. Pending' \subseteq rest \cup {f}
  <2> SUFFICES ASSUME NEW g \in Flows, flow'[g] \in {"pending", "late"}, g # f PROVE g \in rest
    BY DEF Pending
  <2> QED BY <1>4 DEF Pending
<1>6. IsFiniteSet(rest) /\ Cardinality(rest) \in Nat /\ Cardinality(rest) + 1 <= MaxPending
  <2>1. CASE Cardinality(kept) >= MaxPending
    <3>1. old \in kept
      BY <1>4, <2>1
    <3>2. IsFiniteSet(rest) /\ Cardinality(rest) = Cardinality(kept) - 1
      BY <3>1, <1>2, FS_RemoveElement
    <3>3. Cardinality(rest) \in Nat
      BY <3>2, FS_CardinalityType
    <3> QED BY <3>2, <3>3, <1>2, <1>3, ConnectionBounds
  <2>2. CASE ~(Cardinality(kept) >= MaxPending)
    <3>1. rest = kept
      BY <1>4, <2>2 DEF Flows
    <3> QED BY <3>1, <1>2, <2>2, ConnectionBounds
  <2> QED BY <2>1, <2>2
<1>7. IsFiniteSet(rest \cup {f}) /\ Cardinality(rest \cup {f}) = Cardinality(rest) + 1
  BY <1>1, <1>6, FS_AddElement
<1>8. Cardinality(Pending') \in Nat /\ Cardinality(Pending') <= Cardinality(rest \cup {f})
  <2> HIDE DEF rest
  <2> QED BY <1>5, <1>7, FS_Subset, FS_CardinalityType
<1> QED BY <1>6, <1>7, <1>8, ConnectionBounds

\* No other step adds a sign-in that waits, and a code is exchanged as its state
\* is taken.
LEMMA FlowStep ==
    ASSUME ConnectionsTypeOK, FlowsAreBounded, ExchangedIsTaken, [ConnectionsNext]_connectionVars
    PROVE  FlowsAreBounded' /\ ExchangedIsTaken'
<1>1. ASSUME Pending' \subseteq Pending PROVE Cardinality(Pending)' <= MaxPending
  <2>1. IsFiniteSet(Pending) /\ Cardinality(Pending) \in Nat /\ Cardinality(Pending') \in Nat
    BY <1>1, FlowsFinite DEF Pending
  <2>2. Cardinality(Pending') <= Cardinality(Pending)
    BY <1>1, <2>1, FS_Subset
  <2> QED BY <2>1, <2>2, ConnectionBounds DEF FlowsAreBounded
<1> USE DEF ExchangedIsTaken
<1>2. CASE UNCHANGED <<flow, exchanges>> /\ \A f \in Flows : signin[f] = Off => signin'[f] = Off
  BY <1>2 DEF FlowsAreBounded, Pending
<1>3. ASSUME NEW c \in Callers, Call(c) \/ Refreshing(c) PROVE FlowsAreBounded' /\ ExchangedIsTaken'
  <2>1. UNCHANGED <<flow, exchanges, signin>>
    <3>1. CASE Call(c)
      BY <3>1 DEF Call, Load, Answer, Expired, Join, StartRefresh, Use, MarkRead, MarkWrite
    <3>2. CASE Refreshing(c)
      BY <3>2 DEF Refreshing, Refreshed, SaveRefreshed, RefreshSettles, RefreshFails
    <3> QED BY <1>3, <3>1, <3>2
  <2> QED BY <1>2, <2>1
<1>4. ASSUME NEW f \in Flows, SignIn(f) PROVE FlowsAreBounded' /\ ExchangedIsTaken'
  <2>1. CASE StartFlow(f)
    <3>1. /\ UNCHANGED <<exchanges, signin>>
          /\ \A g \in Flows : flow[g] = "dropped" => flow'[g] = "dropped"
      BY <2>1 DEF StartFlow
    <3> QED BY <2>1, <3>1, StartFlowBounded DEF FlowsAreBounded
  <2>2. CASE FlowExpires(f)
    <3>1. Pending' \subseteq Pending /\ UNCHANGED <<exchanges, signin>>
      BY <2>2 DEF FlowExpires, Pending, ConnectionsTypeOK
    <3>2. \A g \in Flows : flow[g] = "dropped" => flow'[g] = "dropped"
      BY <2>2 DEF FlowExpires, ConnectionsTypeOK
    <3> QED BY <1>1, <3>1, <3>2 DEF FlowsAreBounded
  <2>3. CASE Callback(f)
    <3>1. Pending' \subseteq Pending /\ flow'[f] = "dropped"
      BY <2>3 DEF Callback, Pending, ConnectionsTypeOK
    <3>2. \A g \in Flows \ {f} : UNCHANGED <<flow[g], exchanges[g], signin[g]>>
      BY <2>3 DEF Callback, ConnectionsTypeOK
    <3>3. exchanges[f] = 0 /\ exchanges'[f] \in {0, 1}
      BY <2>3 DEF Callback, ConnectionsTypeOK
    <3> QED BY <1>1, <3>1, <3>2, <3>3 DEF FlowsAreBounded
  <2>4. CASE Exchange(f) \/ SaveSignIn(f) \/ RecordSignIn(f)
    <3>1. UNCHANGED <<flow, exchanges>> /\ signin[f] # Off
      BY <2>4 DEF Exchange, SaveSignIn, RecordSignIn, Off
    <3>2. \A g \in Flows \ {f} : signin'[g] = signin[g]
      BY <2>4 DEF Exchange, SaveSignIn, RecordSignIn, ConnectionsTypeOK
    <3> QED BY <1>2, <3>1, <3>2
  <2> QED BY <1>4, <2>1, <2>2, <2>3, <2>4 DEF SignIn
<1>5. CASE Leave
  BY <1>5, <1>2 DEF Leave, LeaveLoads, LeaveRevokes, LeaveDeletes, LeaveForgets
<1>6. CASE CleanUp
  <2>1. Pending' \subseteq Pending /\ UNCHANGED <<exchanges, signin>>
    BY <1>6 DEF CleanUp, Pending
  <2>2. \A g \in Flows : flow[g] = "dropped" => flow'[g] = "dropped"
    BY <1>6 DEF CleanUp
  <2> QED BY <1>1, <2>1, <2>2 DEF FlowsAreBounded
<1>7. CASE RestartServer
  <2>1. Pending' \subseteq Pending /\ exchanges' = exchanges /\ \A f \in Flows : signin'[f] = Off
    BY <1>7 DEF RestartServer, Stopped, Pending
  <2>2. \A g \in Flows : flow[g] = "dropped" => flow'[g] = "dropped"
    BY <1>7 DEF RestartServer, Stopped
  <2> QED BY <1>1, <2>1, <2>2 DEF FlowsAreBounded
<1>8. ASSUME NEW t \in Tokens, TokenExpires(t) PROVE FlowsAreBounded' /\ ExchangedIsTaken'
  BY <1>8, <1>2 DEF TokenExpires
<1>9. CASE UNCHANGED connectionVars
  BY <1>9, <1>2 DEF connectionVars
<1> QED BY <1>3, <1>4, <1>5, <1>6, <1>7, <1>8, <1>9 DEF ConnectionsNext

-----------------------------------------------------------------------------
\* File and row.  Unless a removal met another operation half-way, whoever is
\* half-way knows: a call that read a token, or refreshes one, that there is a
\* file; one that writes an error, that there is a row; a sign-in about to
\* write the row, that there is a file.
FileInv == HalfWay /\ RemovedStaysRemoved

\* Every step keeps what the operations that are half-way know.
LEMMA FileStep ==
    ASSUME ConnectionsInv, [ConnectionsNext]_connectionVars
    PROVE  FileInv'
<1> USE DEF FileInv, HalfWay, RemovedStaysRemoved
<1>0. ConnectionsTypeOK /\ TokensAreHeld /\ HalfWay /\ RemovedStaysRemoved
  BY DEF ConnectionsInv
<1>1. ASSUME UNCHANGED <<file, row, signin, leave, gone, crossed, request>>,
             NEW c \in Callers, \A d \in Callers \ {c} : call'[d] = call[d] /\ cred'[d] = cred[d],
             ~crossed /\ call'[c] = "loaded" /\ cred'[c] # 0 => file # 0,
             ~crossed /\ call'[c] = "marking" => row # "none"
      PROVE  FileInv'
  BY <1>0, <1>1
<1>2. ASSUME NEW c \in Callers, Call(c) PROVE FileInv'
  <2> DEFINE rest == \A d \in Callers \ {c} : call'[d] = call[d] /\ cred'[d] = cred[d]
  <2>1. CASE Load(c)
    <3>1. rest /\ call'[c] = "loaded" /\ cred'[c] = file
      BY <2>1, <1>0 DEF Load, Goto, ConnectionsTypeOK
    <3> QED BY <2>1, <3>1, <1>1 DEF Load
  <2>2. CASE Answer(c) \/ Expired(c) \/ Join(c) \/ Use(c)
    <3>1. rest /\ call'[c] \in {"using", "idle", "failing", "waiting"}
      BY <2>2, <1>0 DEF Answer, Expired, Join, Use, Goto, ConnectionsTypeOK
    <3>2. UNCHANGED <<file, row, signin, leave, gone, crossed, request>>
      BY <2>2 DEF Answer, Expired, Join, Use
    <3> QED BY <3>1, <3>2, <1>1
  <2>3. CASE StartRefresh(c)
    <3>1. call[c] = "loaded" /\ cred[c] # 0
      BY <2>3 DEF StartRefresh, Stale
    <3>2. rest /\ call'[c] = "waiting" /\ \A d \in Callers \ {c} : request'[d] = request[d]
      BY <2>3, <1>0 DEF StartRefresh, Goto, ConnectionsTypeOK
    <3>3. UNCHANGED <<file, row, signin, leave, gone, crossed>>
      BY <2>3 DEF StartRefresh
    <3> QED BY <1>0, <3>1, <3>2, <3>3
  <2>4. CASE MarkRead(c)
    <3>1. rest /\ ((call'[c] = "marking" /\ row # "none") \/ call'[c] \in {"idle", "failing"})
      BY <2>4, <1>0 DEF MarkRead, Noted, Goto, ConnectionsTypeOK
    <3>2. UNCHANGED <<file, row, signin, leave, gone, crossed, request>>
      BY <2>4 DEF MarkRead
    <3> QED BY <3>1, <3>2, <1>1
  <2>5. CASE MarkWrite(c)
    <3>1. rest /\ call'[c] \in {"idle", "failing"} /\ call[c] = "marking" /\ row' = "error"
      BY <2>5, <1>0 DEF MarkWrite, Noted, Goto, ConnectionsTypeOK
    <3>2. UNCHANGED <<file, signin, leave, gone, crossed, request>>
      BY <2>5 DEF MarkWrite
    <3> QED BY <1>0, <3>1, <3>2
  <2> QED BY <1>2, <2>1, <2>2, <2>3, <2>4, <2>5 DEF Call
<1>3. ASSUME NEW c \in Callers, Refreshing(c) PROVE FileInv'
  <2>1. CASE Refreshed(c)
    <3>1. request[c] # NoRequest /\ \A d \in Callers \ {c} : request'[d] = request[d]
      BY <2>1, <1>0 DEF Refreshed, NoRequest, ConnectionsTypeOK
    <3>2. UNCHANGED <<file, row, signin, leave, gone, crossed, call, cred>>
      BY <2>1 DEF Refreshed
    <3> QED BY <1>0, <3>1, <3>2
  <2>2. CASE SaveRefreshed(c)
    <3>1. request[c] # NoRequest /\ file' # 0 /\ \A d \in Callers \ {c} : request'[d] = request[d]
      BY <2>2, <1>0 DEF SaveRefreshed, NoRequest, TokensAreHeld, ConnectionsTypeOK
    <3>2. UNCHANGED <<row, signin, leave, gone, crossed, call, cred>>
      BY <2>2 DEF SaveRefreshed
    <3>3. ~crossed => file # 0 /\ leave.step # "forgetting" /\ ~gone
      BY <1>0, <3>1
    <3> QED BY <1>0, <3>1, <3>2, <3>3
  <2>3. CASE RefreshSettles(c) \/ RefreshFails(c)
    <3>1. \A d \in Callers : request'[d] # NoRequest => request[d] # NoRequest
      BY <2>3, <1>0 DEF RefreshSettles, RefreshFails, ConnectionsTypeOK
    <3>2. \A d \in Callers : call'[d] \in {"loaded", "marking"} => call'[d] = call[d] /\ cred'[d] = cred[d]
      <4>1. CASE RefreshSettles(c)
        BY <4>1 DEF RefreshSettles
      <4>2. CASE RefreshFails(c)
        BY <4>2, <1>0 DEF RefreshFails, ConnectionsTypeOK
      <4> QED BY <2>3, <4>1, <4>2
    <3>3. UNCHANGED <<file, row, signin, leave, gone, crossed>>
      BY <2>3 DEF RefreshSettles, RefreshFails
    <3> QED BY <1>0, <3>1, <3>2, <3>3
  <2> QED BY <1>3, <2>1, <2>2, <2>3 DEF Refreshing
<1>4. ASSUME NEW f \in Flows, SignIn(f) PROVE FileInv'
  <2>1. CASE StartFlow(f) \/ FlowExpires(f)
    BY <1>0, <2>1 DEF StartFlow, FlowExpires
  <2>2. CASE Callback(f) \/ Exchange(f)
    <3>1. UNCHANGED <<file, row, call, cred, request, leave, gone, crossed>>
      BY <2>2 DEF Callback, Exchange
    <3>2. \A g \in Flows : signin'[g].step = "recording" <=> signin[g].step = "recording"
      <4>1. CASE Callback(f) /\ signin' = signin
        BY <4>1
      <4>2. CASE Callback(f) /\ signin' # signin
        <5>1. flow[f] # "late" /\ signin' = [signin EXCEPT ![f].step = "asking"]
          BY <4>2 DEF Callback
        <5>2. signin[f].step # "recording"
          BY <4>2 DEF Callback, ConnectionsInv, ExchangedIsTaken, Off
        <5> QED BY <5>1, <5>2, <1>0 DEF ConnectionsTypeOK
      <4>3. CASE Exchange(f)
        <5>1. \/ signin' = [signin EXCEPT ![f] = [step |-> "saving", token |-> issued + 1]]
              \/ signin' = [signin EXCEPT ![f] = Off]
          BY <4>3 DEF Exchange
        <5>2. signin[f].step = "asking" /\ signin'[f].step # "recording"
          BY <4>3, <5>1, <1>0 DEF Exchange, Off, ConnectionsTypeOK
        <5>3. \A g \in Flows \ {f} : signin'[g] = signin[g]
          BY <5>1, <1>0 DEF ConnectionsTypeOK
        <5> QED BY <5>2, <5>3
      <4> QED BY <2>2, <4>1, <4>2, <4>3
    <3> QED BY <1>0, <3>1, <3>2
  <2>3. CASE SaveSignIn(f)
    <3>1. file' # 0 /\ ~gone' /\ signin'[f].step = "recording"
      BY <2>3, <1>0 DEF SaveSignIn, TokensAreHeld, ConnectionsTypeOK
    <3>2. UNCHANGED <<row, call, cred, request, leave>>
      BY <2>3 DEF SaveSignIn
    <3>3. ~crossed' => ~crossed /\ leave.step # "forgetting"
      BY <2>3 DEF SaveSignIn
    <3> QED BY <1>0, <3>1, <3>2, <3>3
  <2>4. CASE RecordSignIn(f)
    <3>1. signin[f].step = "recording" /\ row' = "connected"
      BY <2>4 DEF RecordSignIn
    <3>2. \A g \in Flows : signin'[g].step = "recording" => signin[g].step = "recording"
      BY <2>4, <1>0 DEF RecordSignIn, Off, ConnectionsTypeOK
    <3>3. UNCHANGED <<file, call, cred, request, leave, gone, crossed>>
      BY <2>4 DEF RecordSignIn
    <3> QED BY <1>0, <3>1, <3>2, <3>3
  <2> QED BY <1>4, <2>1, <2>2, <2>3, <2>4 DEF SignIn
<1>5. CASE Leave
  <2>1. CASE LeaveLoads \/ LeaveRevokes
    <3>1. UNCHANGED <<file, row, call, cred, request, signin, gone, crossed>>
      BY <2>1 DEF LeaveLoads, LeaveRevokes
    <3>2. leave.step # "forgetting" /\ leave'.step # "forgetting"
      BY <2>1, <1>0 DEF LeaveLoads, LeaveRevokes, Off, ConnectionsTypeOK
    <3> QED BY <1>0, <3>1, <3>2
  <2>2. CASE LeaveDeletes
    <3>1. file' = 0 /\ leave'.step = "forgetting" /\ leave.step = "deleting"
      BY <2>2, <1>0 DEF LeaveDeletes, ConnectionsTypeOK
    <3>2. UNCHANGED <<row, call, cred, request, signin, gone>> /\ (~crossed' => ~crossed /\ ~Crossing)
      BY <2>2 DEF LeaveDeletes
    <3>3. ~Crossing => \A c \in Callers : call[c] \notin {"loaded", "marking"} /\ request[c] = NoRequest
      BY <1>0 DEF Crossing, TokensAreHeld
    <3>4. ~Crossing => \A f \in Flows : signin[f].step # "recording"
      BY DEF Crossing, Off
    <3> QED BY <1>0, <3>1, <3>2, <3>3, <3>4
  <2>3. CASE LeaveForgets
    <3>1. row' = "none" /\ leave'.step = "off" /\ leave.step = "forgetting"
      BY <2>3 DEF LeaveForgets, Off
    <3>2. UNCHANGED <<file, call, cred, request, signin>> /\ (~crossed' => ~crossed /\ ~Crossing)
      BY <2>3 DEF LeaveForgets
    <3>3. ~Crossing => \A c \in Callers : call[c] \notin {"loaded", "marking"} /\ request[c] = NoRequest
      BY <1>0 DEF Crossing, TokensAreHeld
    <3>4. ~Crossing => \A f \in Flows : signin[f].step # "recording"
      BY DEF Crossing, Off
    <3> QED BY <1>0, <3>1, <3>2, <3>3, <3>4
  <2> QED BY <1>5, <2>1, <2>2, <2>3 DEF Leave
<1>6. CASE RestartServer
  <2>1. /\ \A c \in Callers : call'[c] = "idle" /\ request'[c] = NoRequest
        /\ \A f \in Flows : signin'[f].step = "off"
        /\ leave'.step = "off" /\ ~gone' /\ file' = file
    BY <1>6 DEF RestartServer, Stopped, Off
  <2>2. (file # 0 => row' # "none") /\ (row' = "connected" => file # 0)
    BY <1>6 DEF RestartServer
  <2> QED BY <2>1, <2>2
<1>7. CASE CleanUp \/ UNCHANGED connectionVars \/ \E t \in Tokens : TokenExpires(t)
  <2>1. UNCHANGED <<file, row, call, cred, request, signin, leave, gone, crossed>>
    BY <1>7 DEF CleanUp, TokenExpires, connectionVars
  <2> QED BY <1>0, <2>1
<1> QED BY <1>2, <1>3, <1>4, <1>5, <1>6, <1>7 DEF ConnectionsNext

-----------------------------------------------------------------------------
\* ConnectionsInv holds in every reachable state: types, one refresh at a time
\* that is forgotten when it fails (manager.ts:429-451), sign-ins within their
\* limit and each code exchanged once (113-200), and what the operations that
\* are half-way know of the file and the row.
THEOREM ConnectionsInvariant == ConnectionsSpec => []ConnectionsInv
<1>1. ConnectionsInv /\ [ConnectionsNext]_connectionVars => ConnectionsInv'
  <2> SUFFICES ASSUME ConnectionsInv, [ConnectionsNext]_connectionVars PROVE ConnectionsInv'
    OBVIOUS
  <2>1. ConnectionsTypeOK /\ SingleFlight /\ FlowsAreBounded /\ TokensAreHeld /\ ExchangedIsTaken
    BY DEF ConnectionsInv
  <2> QED BY <2>1, TypeStep, RefreshStep, FlowStep, FileStep DEF ConnectionsInv, FileInv
<1> QED BY ConnectionsInitHolds, <1>1, PTL DEF ConnectionsSpec

\* Once nothing is under way, credentials have a row and a row that says
\* "connected" has credentials, also after stops between the two writes and
\* the reconciliation (manager.ts:542-589).
THEOREM FileAndRowAgreeAlways == ConnectionsSpec => []FileAndRowAgree
<1>1. ConnectionsInv => FileAndRowAgree
  <2> SUFFICES ASSUME ConnectionsInv, \A f \in Flows : signin[f] = Off, leave = Off, ~crossed
               PROVE  (file # 0 => row # "none") /\ (row = "connected" => file # 0)
    BY DEF FileAndRowAgree
  <2>1. \A f \in Flows : signin[f].step # "recording"
    BY DEF Off
  <2>2. leave.step # "forgetting"
    BY DEF Off
  <2> QED BY <2>1, <2>2 DEF ConnectionsInv, HalfWay
<1> QED BY <1>1, ConnectionsInvariant, PTL

\* A connection that was removed stays removed until the next sign-in, unless
\* an operation was between its read and its write (manager.ts:348-389,
\* 525-537).
THEOREM RemovedStaysRemovedAlways == ConnectionsSpec => []RemovedStaysRemoved
<1>1. ConnectionsInv => RemovedStaysRemoved
  BY DEF ConnectionsInv
<1> QED BY <1>1, ConnectionsInvariant, PTL
=============================================================================
