------------------------- MODULE Scheduling_proofs -------------------------
(***************************************************************************)
(* The scheduler's flags, sessions and events: SchedulingInv and           *)
(* NoLostWakeup hold whatever the number of workflows, consumers, events,  *)
(* failures, restarts and activations.                                     *)
(***************************************************************************)
EXTENDS Scheduling, FiniteSetTheorems, TLAPS

USE DEF database, memory, bounds, history, PerConsumer

\* The bounds are numbers.
LEMMA Bounds ==
    /\ NumWorkflows \in Nat \ {0} /\ NumConsumers \in Nat \ {0} /\ MaxIterations \in Nat \ {0}
    /\ MaxEvents \in Nat /\ MaxRetries \in Nat /\ MaxFires \in Nat /\ MaxWakes \in Nat /\ MaxChanges \in Nat
    /\ Workflows = 1 .. NumWorkflows /\ Consumers = 1 .. NumConsumers /\ Scheduled \subseteq Workflows
BY SchedulingConstants DEF Workflows, Consumers

\* A part is no more than the whole.
LEMMA SumBound ==
    ASSUME NEW a \in Nat, NEW b \in Nat, NEW c \in Nat, NEW p \in 0 .. MaxEvents, a + b + c <= p
    PROVE  a \in 0 .. MaxEvents
BY Bounds

\* Numbers of events are numbers.
LEMMA PendingsAreNumbers ==
    ASSUME ConsumerTypes, NEW w \in Workflows, NEW c \in Consumers
    PROVE  pending[w][c] \in Nat /\ 0 <= pending[w][c] /\ declined[w][c] \in Nat
<1>1. pending[w][c] \in 0 .. MaxEvents /\ declined[w][c] \in 0 .. MaxEvents
  BY DEF ConsumerTypes
<1> QED BY <1>1, Bounds

\* What is published is a number of topics.
LEMMA Topics ==
    ASSUME NEW S \in SUBSET Consumers
    PROVE  Cardinality(S) \in Nat /\ (S # {} => Cardinality(S) >= 1)
<1>1. IsFiniteSet(Consumers)
  BY Bounds, FS_Interval
<1>2. IsFiniteSet(S)
  BY <1>1, FS_Subset
<1> QED BY <1>2, FS_CardinalityType, FS_EmptySet

\* The fields of the session that runs are those of its type.
LEMMA Fields ==
    ASSUME SessionTypes
    PROVE  /\ session.w \in 0 .. NumWorkflows /\ session.trigger \in {"none", "retry", "schedule", "event"}
           /\ session.step \in {"off", "producer", "loop", "prepare", "mutate", "emit"}
           /\ session.c \in 0 .. NumConsumers /\ session.n \in 0 .. MaxEvents /\ session.runs \in Nat
           /\ session.step # "off" => session.w \in Workflows
           /\ session.step \in {"prepare", "mutate", "emit"} => session.c \in Consumers
           /\ session.n # 0 => session.step \in {"mutate", "emit"}
BY DEF SessionTypes, Sessions

\* No session is a session.
LEMMA OffIsNoSession ==
    /\ NoSession \in Sessions /\ NoSession.w = 0 /\ NoSession.trigger = "none" /\ NoSession.step = "off"
    /\ NoSession.c = 0 /\ NoSession.n = 0 /\ NoSession.runs = 0
BY Bounds DEF NoSession, Sessions

\* A retry session is begun with the run that failed and its events.
LEMMA PickRetryEffect ==
    ASSUME SchedulingTypeOK, PickRetry
    PROVE  \E w \in Workflows :
            /\ halt[w] = "none" /\ retry[w] \in Consumers
            /\ session' \in Sessions /\ session'.w = w /\ session'.trigger = "retry"
            /\ session'.step = "emit" /\ session'.c = retry[w] /\ session'.n = held[w]
            /\ retry' = [retry EXCEPT ![w] = 0] /\ held' = [held EXCEPT ![w] = 0]
<1> USE DEF SchedulingTypeOK
<1>1. PICK w \in First(Retriable) :
            /\ retry[w] # Refused
            /\ session' = [NoSession EXCEPT !.w = w, !.trigger = "retry", !.step = "emit",
                                            !.c = retry[w], !.n = held[w]]
            /\ retry' = [retry EXCEPT ![w] = 0] /\ held' = [held EXCEPT ![w] = 0]
  BY DEF PickRetry
<1>2. w \in Workflows /\ halt[w] = "none" /\ retry[w] # 0
  BY <1>1 DEF First, Retriable, Runnable
<1>3. retry[w] \in Consumers /\ held[w] \in 0 .. MaxEvents /\ retry[w] \in 0 .. NumConsumers /\ w \in 0 .. NumWorkflows
  BY <1>1, <1>2, Bounds DEF RunTypes, RunRef
<1>4. session' = [w |-> w, trigger |-> "retry", step |-> "emit", c |-> retry[w], n |-> held[w], runs |-> 0]
  BY <1>1 DEF NoSession
<1>5. session' \in Sessions
  BY <1>3, <1>4, Bounds DEF Sessions
<1>6. /\ session'.w = w /\ session'.trigger = "retry" /\ session'.step = "emit"
      /\ session'.c = retry[w] /\ session'.n = held[w]
  BY <1>4
<1> QED BY <1>1, <1>2, <1>3, <1>5, <1>6

\* A fresh session is begun only when no run waits to be retried.
LEMMA PickEffect ==
    ASSUME SchedulingTypeOK, PickScheduled \/ PickConsumers
    PROVE  \E w \in Workflows :
            /\ halt[w] = "none" /\ retry[w] = 0
            /\ session' \in Sessions /\ session'.w = w /\ session'.trigger # "retry"
            /\ session'.step \in {"producer", "loop"} /\ session'.c = 0 /\ session'.n = 0
<1> USE DEF SchedulingTypeOK
<1>1. PICK w \in Workflows, trigger \in {"schedule", "event"}, step \in {"producer", "loop"} :
            halt[w] = "none" /\ retry[w] = 0 /\ Begin(w, trigger, step)
  <2>1. CASE PickScheduled
    <3>1. PICK w \in First(Due) : Begin(w, "schedule", "producer")
      BY <2>1 DEF PickScheduled
    <3>2. w \in Workflows /\ halt[w] = "none" /\ ~backoff[w] /\ Runnable(w)
      BY <3>1 DEF First, Due, Runnable
    <3>3. retry[w] = 0
      BY <2>1, <3>2 DEF PickScheduled, Retriable
    <3> QED BY <3>1, <3>2, <3>3
  <2>2. CASE PickConsumers
    <3>1. PICK w \in First(Waiting) : Begin(w, "event", "loop")
      BY <2>2 DEF PickConsumers
    <3> QED BY <3>1 DEF First, Waiting, Runnable
  <2> QED BY <2>1, <2>2
<1>2. session' = [w |-> w, trigger |-> trigger, step |-> step, c |-> 0, n |-> 0, runs |-> 0]
  BY <1>1 DEF Begin, NoSession
<1> QED BY <1>1, <1>2, Bounds DEF Sessions

\* A commit publishes at most one event to a topic, and dirties who subscribes.
LEMMA PublishEffect ==
    ASSUME Flags, ConsumerTypes, CounterTypes, session.w \in Workflows,
           NEW S \in SUBSET Consumers, Publish(S)
    PROVE  /\ pending' \in [Workflows -> [Consumers -> Nat]]
           /\ published' \in Nat /\ published <= published' /\ published' <= MaxEvents
           /\ \A w \in Workflows, c \in Consumers :
                /\ dirty[w][c] => dirty'[w][c]
                /\ \/ pending'[w][c] = pending[w][c]
                   \/ /\ pending'[w][c] = pending[w][c] + 1 /\ published + 1 <= published'
                      /\ dirty'[w][c]
<1> USE DEF ConsumerTypes, CounterTypes
<1>1. Cardinality(S) \in Nat /\ (S # {} => Cardinality(S) >= 1)
  BY Topics
<1>2. published' \in Nat /\ published' = published + Cardinality(S) /\ published' <= MaxEvents /\ published <= published'
  <2>1. published' = published + Cardinality(S) /\ published + Cardinality(S) <= MaxEvents
    BY DEF Publish
  <2> HIDE DEF ConsumerTypes
  <2> QED BY <2>1, <1>1, Bounds
<1>3. pending' = [pending EXCEPT ![session.w] = [c \in Consumers |-> pending[session.w][c] + IF c \in S THEN 1 ELSE 0]]
  BY DEF Publish
<1>4. \A w \in Workflows, c \in Consumers : pending[w][c] \in Nat
  OBVIOUS
<1>5. \A w \in Workflows, c \in Consumers :
        pending'[w][c] = IF w = session.w /\ c \in S THEN pending[w][c] + 1 ELSE pending[w][c]
  BY <1>3, <1>4
<1>6. pending' \in [Workflows -> [Consumers -> Nat]]
  BY <1>3, <1>4
<1>7. \A w \in Workflows, c \in Consumers : (dirty[w][c] => dirty'[w][c]) /\ (w = session.w /\ c \in S => dirty'[w][c])
  BY DEF Publish, Flags
<1>8. ASSUME NEW w \in Workflows, NEW c \in Consumers, w = session.w, c \in S
      PROVE  published + 1 <= published'
  BY <1>1, <1>2, <1>8
<1> QED BY <1>2, <1>5, <1>6, <1>7, <1>8

\* A run that prepares takes the events it reserves from those that are pending.
LEMMA PreparedEffect ==
    ASSUME ConsumerTypes, session.w \in Workflows, session.c \in Consumers, NEW n \in Nat,
           n <= pending[session.w][session.c], NEW time \in {"none", "later"}, Prepared(n, time)
    PROVE  /\ pending' \in [Workflows -> [Consumers -> 0 .. MaxEvents]]
           /\ pending'[session.w][session.c] = pending[session.w][session.c] - n
           /\ \A w \in Workflows, c \in Consumers :
                w # session.w \/ c # session.c => pending'[w][c] = pending[w][c]
<1>1. pending' = [pending EXCEPT ![session.w][session.c] = pending[session.w][session.c] - n]
  BY DEF Prepared
<1>2. pending[session.w][session.c] \in 0 .. MaxEvents /\ pending \in [Workflows -> [Consumers -> 0 .. MaxEvents]]
  BY DEF ConsumerTypes
<1>3. pending[session.w][session.c] - n \in 0 .. MaxEvents
  <2>1. \A k \in 0 .. MaxEvents : n <= k => k - n \in 0 .. MaxEvents
    BY Bounds
  <2> QED BY <2>1, <1>2
<1> QED BY <1>1, <1>2, <1>3

\* A run that is stopped releases its events, or keeps them for its retry.
LEMMA DisposedEffect ==
    ASSUME RunTypes, ConsumerTypes, SessionTypes, Running, NEW x \in BOOLEAN, Disposed(session.w, x)
    PROVE  /\ pending' \in [Workflows -> [Consumers -> Nat]]
           /\ \A w \in Workflows, c \in Consumers :
                pending'[w][c] = IF session.step = "mutate" /\ w = session.w /\ c = session.c
                                 THEN pending[w][c] + session.n ELSE pending[w][c]
           /\ \/ held' = held /\ retry' = retry
              \/ /\ session.step = "emit"
                 /\ held' = [held EXCEPT ![session.w] = session.n]
                 /\ retry' = [retry EXCEPT ![session.w] = session.c]
<1>1. session.w \in Workflows /\ session.n \in Nat /\ (session.step = "mutate" => session.c \in Consumers)
  BY Fields DEF Running
<1>2. \A w \in Workflows, c \in Consumers : pending[w][c] \in Nat
  BY DEF ConsumerTypes
<1>3. pending \in [Workflows -> [Consumers -> Nat]]
  BY DEF ConsumerTypes
<1>4. pending' = IF session.step = "mutate"
                 THEN [pending EXCEPT ![session.w][session.c] = pending[session.w][session.c] + session.n] ELSE pending
  BY DEF Disposed
<1>5. held' = [held EXCEPT ![session.w] = IF session.step = "emit" /\ ~x THEN session.n ELSE held[session.w]]
  BY DEF Disposed
<1>6. retry' = [retry EXCEPT ![session.w] = IF session.step = "emit" /\ ~x THEN session.c ELSE retry[session.w]]
  BY DEF Disposed
<1>7. pending' \in [Workflows -> [Consumers -> Nat]]
  BY <1>1, <1>2, <1>3, <1>4
<1>8. \/ held' = held /\ retry' = retry
      \/ /\ session.step = "emit"
                 /\ held' = [held EXCEPT ![session.w] = session.n]
                 /\ retry' = [retry EXCEPT ![session.w] = session.c]
  <2>1. [held EXCEPT ![session.w] = held[session.w]] = held /\ [retry EXCEPT ![session.w] = retry[session.w]] = retry
    BY DEF RunTypes
  <2>2. CASE session.step = "emit" /\ ~x
    BY <2>2, <1>5, <1>6
  <2>3. CASE ~(session.step = "emit" /\ ~x)
    <3>1. held' = [held EXCEPT ![session.w] = held[session.w]]
      BY <2>3, <1>5
    <3>2. retry' = [retry EXCEPT ![session.w] = retry[session.w]]
      BY <2>3, <1>6
    <3> QED BY <3>1, <3>2, <2>1
  <2> QED BY <2>2, <2>3
<1> QED BY <1>1, <1>2, <1>3, <1>4, <1>7, <1>8
\* However a session is stopped, its events are released or kept for a retry.
LEMMA StopEffect ==
    ASSUME SchedulingTypeOK,
           FailTransient \/ FailForGood("error") \/ FailForGood("maintenance") \/ Restart
    PROVE  /\ session' = NoSession /\ published' = published
           /\ pending' \in [Workflows -> [Consumers -> Nat]]
           /\ \A w \in Workflows, c \in Consumers :
                \/ pending'[w][c] = pending[w][c]
                \/ /\ session.step = "mutate" /\ w = session.w /\ c = session.c
                   /\ pending'[w][c] = pending[w][c] + session.n
           /\ \/ held' = held /\ retry' = retry
              \/ /\ session.step = "emit"
                 /\ held' = [held EXCEPT ![session.w] = session.n]
                 /\ retry' = [retry EXCEPT ![session.w] = session.c]
<1> USE DEF SchedulingTypeOK
<1>1. session' = NoSession /\ published' = published
  BY DEF FailTransient, FailForGood, Restart
<1>2. CASE \E x \in BOOLEAN : Disposed(session.w, x) /\ Running
  BY <1>1, <1>2, DisposedEffect
<1>3. CASE UNCHANGED <<pending, held, retry>>
  <2>1. pending \in [Workflows -> [Consumers -> Nat]]
    BY DEF ConsumerTypes
  <2> QED BY <1>1, <1>3, <2>1
<1>4. (\E x \in BOOLEAN : Disposed(session.w, x) /\ Running) \/ UNCHANGED <<pending, held, retry>>
  <2>1. ASSUME FailTransient PROVE \E x \in BOOLEAN : Disposed(session.w, x) /\ Running
    <3>1. (retries[session.w] >= MaxRetries) \in BOOLEAN
      OBVIOUS
    <3> QED BY <2>1, <3>1, Zenon DEF FailTransient
  <2>2. ASSUME FailForGood("error") \/ FailForGood("maintenance") \/ (Restart /\ Running)
        PROVE  Disposed(session.w, FALSE) /\ Running
    BY <2>2, Zenon DEF FailForGood, Restart
  <2>3. ASSUME Restart, ~Running PROVE UNCHANGED <<pending, held, retry>>
    BY <2>3, Zenon DEF Restart
  <2> QED BY <2>1, <2>2, <2>3
<1> QED BY <1>2, <1>3, <1>4

\* What a session that goes on keeps, and where it goes.
LEMMA MoveEffect ==
    ASSUME SchedulingTypeOK
    PROVE  /\ ProducerCommits \/ ConsumerCommits \/ StartRun \/ PrepareNothing \/ PrepareEvents \/ Mutate =>
                /\ session.step # "off" /\ session'.step # "off"
                /\ session' \in Sessions /\ session'.w = session.w /\ session'.trigger = session.trigger
           /\ ProducerCommits => session.step = "producer" /\ session'.step = "loop" /\ session'.n = 0
           /\ StartRun => session.n = 0 /\ session'.step = "prepare" /\ session'.n = 0 /\ session'.c \in Consumers
           /\ PrepareNothing => session.step = "prepare" /\ session'.step = "loop" /\ session'.c = 0 /\ session'.n = 0
           /\ ConsumerCommits => session.step = "emit" /\ session'.step = "loop" /\ session'.c = 0 /\ session'.n = 0
           /\ Mutate => /\ session.step = "mutate" /\ session'.step = "emit"
                        /\ session'.c = session.c /\ session'.n = session.n
<1> USE DEF SchedulingTypeOK
<1>0. session.w \in 0 .. NumWorkflows /\ session \in Sessions /\ session.runs + 1 \in Nat /\ 0 \in 0 .. NumConsumers
      /\ 0 \in 0 .. MaxEvents
  BY Fields, Bounds DEF SessionTypes
<1>1. ASSUME ProducerCommits
      PROVE  /\ session' \in Sessions /\ session'.w = session.w /\ session'.trigger = session.trigger
             /\ session.step = "producer" /\ session'.step = "loop" /\ session'.n = session.n
  BY <1>0, <1>1 DEF ProducerCommits, Sessions
<1>2. ASSUME StartRun
      PROVE  /\ session' \in Sessions /\ session'.w = session.w /\ session'.trigger = session.trigger
             /\ session.step = "loop" /\ session'.step = "prepare" /\ session'.n = session.n /\ session'.c \in Consumers
  <2>1. PICK c \in Consumers : session' = [session EXCEPT !.step = "prepare", !.c = c]
    BY <1>2 DEF StartRun, Found, First
  <2>2. c \in 0 .. NumConsumers /\ session.step = "loop"
    BY <1>2, Bounds DEF StartRun
  <2> QED BY <1>0, <2>1, <2>2 DEF Sessions
<1>3. ASSUME PrepareNothing
      PROVE  /\ session' \in Sessions /\ session'.w = session.w /\ session'.trigger = session.trigger
             /\ session.step = "prepare" /\ session'.step = "loop" /\ session'.c = 0 /\ session'.n = session.n
  <2>1. session' = [session EXCEPT !.step = "loop", !.c = 0, !.runs = session.runs + 1] /\ session.step = "prepare"
    BY <1>3 DEF PrepareNothing
  <2> QED BY <1>0, <2>1 DEF Sessions
<1>4. ASSUME ConsumerCommits
      PROVE  /\ session' \in Sessions /\ session'.w = session.w /\ session'.trigger = session.trigger
             /\ session.step = "emit" /\ session'.step = "loop" /\ session'.c = 0 /\ session'.n = 0
  <2>1. /\ session.step = "emit"
        /\ session' = [session EXCEPT !.step = "loop", !.c = 0, !.n = 0, !.runs = session.runs + 1]
    BY <1>4 DEF ConsumerCommits
  <2> QED BY <1>0, <2>1 DEF Sessions
<1>5. ASSUME Mutate
      PROVE  /\ session' \in Sessions /\ session'.w = session.w /\ session'.trigger = session.trigger
             /\ session.step = "mutate" /\ session'.step = "emit"
             /\ session'.c = session.c /\ session'.n = session.n
  BY <1>0, <1>5 DEF Mutate, Sessions
<1>6. ASSUME PrepareEvents
      PROVE  /\ session' \in Sessions /\ session'.w = session.w /\ session'.trigger = session.trigger
             /\ session.step = "prepare" /\ session'.step = "mutate"
  <2>1. PICK n \in 1 .. pending[session.w][session.c] : session' = [session EXCEPT !.step = "mutate", !.n = n]
    BY <1>6 DEF PrepareEvents
  <2>2. session.w \in Workflows /\ session.c \in Consumers /\ session.step = "prepare"
    BY <1>6, Fields DEF PrepareEvents
  <2>3. n \in 0 .. MaxEvents
    <3>1. pending[session.w][session.c] \in 0 .. MaxEvents
      BY <2>2 DEF ConsumerTypes
    <3> QED BY <2>1, <3>1, Bounds
  <2> QED BY <1>0, <2>1, <2>2, <2>3 DEF Sessions
<1>7. session.step \in {"producer", "loop", "prepare"} => session.n = 0
  BY Fields
<1> QED BY <1>1, <1>2, <1>3, <1>4, <1>5, <1>6, <1>7

\* A run that reserves events keeps its dirty flag, or is marked as woken.
LEMMA PrepareEffect ==
    ASSUME SchedulingTypeOK, PrepareEvents
    PROVE  \E n \in 1 .. MaxEvents :
            /\ session.w \in Workflows /\ session.c \in Consumers /\ session.step = "prepare"
            /\ session'.w = session.w /\ session'.c = session.c /\ session'.step = "mutate" /\ session'.n = n
            /\ pending' \in [Workflows -> [Consumers -> 0 .. MaxEvents]]
            /\ pending[session.w][session.c] = pending'[session.w][session.c] + n
            /\ \A w \in Workflows, c \in Consumers :
                 w # session.w \/ c # session.c => pending'[w][c] = pending[w][c]
            /\ declined' = [declined EXCEPT ![session.w][session.c] =
                    IF declined[session.w][session.c] < pending'[session.w][session.c]
                    THEN declined[session.w][session.c] ELSE pending'[session.w][session.c]]
<1> USE DEF SchedulingTypeOK
<1>1. PICK n \in 1 .. pending[session.w][session.c], time \in {"none", "later"} :
            /\ Prepared(n, time) /\ session' = [session EXCEPT !.step = "mutate", !.n = n]
            /\ declined' = [declined EXCEPT ![session.w][session.c] =
                    IF declined[session.w][session.c] < pending[session.w][session.c] - n
                    THEN declined[session.w][session.c] ELSE pending[session.w][session.c] - n]
  BY DEF PrepareEvents
<1>2. session.w \in Workflows /\ session.c \in Consumers /\ session.step = "prepare"
  BY Fields DEF PrepareEvents
<1>3. pending[session.w][session.c] \in 0 .. MaxEvents
  BY <1>2 DEF ConsumerTypes
<1>4. n \in Nat /\ n \in 1 .. MaxEvents /\ n <= pending[session.w][session.c]
  BY <1>1, <1>3, Bounds
<1>5. /\ pending' \in [Workflows -> [Consumers -> 0 .. MaxEvents]]
      /\ pending'[session.w][session.c] = pending[session.w][session.c] - n
      /\ \A w \in Workflows, c \in Consumers :
           w # session.w \/ c # session.c => pending'[w][c] = pending[w][c]
  BY <1>1, <1>2, <1>4, PreparedEffect
<1>6. session'.w = session.w /\ session'.c = session.c /\ session'.step = "mutate" /\ session'.n = n
  BY <1>1 DEF SessionTypes, Sessions
<1>7. pending[session.w][session.c] = pending'[session.w][session.c] + n
  BY <1>3, <1>4, <1>5
<1>8. declined' = [declined EXCEPT ![session.w][session.c] =
                    IF declined[session.w][session.c] < pending'[session.w][session.c]
                    THEN declined[session.w][session.c] ELSE pending'[session.w][session.c]]
  BY <1>1, <1>5
<1> QED BY <1>2, <1>4, <1>5, <1>6, <1>7, <1>8

\* The flags are flags.
LEMMA FlagsStep ==
    ASSUME Flags, SessionTypes, [Next]_vars
    PROVE  Flags'
<1> USE DEF Flags
<1>1. CASE UNCHANGED vars
  BY <1>1, Zenon DEF vars
<1>2. ASSUME NEW w \in Workflows, Track(w) PROVE Flags'
  BY <1>2, Zenon DEF Track, Runnable
<1>3. CASE PickRetry
  BY <1>3, Zenon DEF PickRetry
<1>4. CASE RefuseRetry
  BY <1>4, Zenon DEF RefuseRetry
<1>5. CASE PickScheduled
  BY <1>5, Zenon DEF PickScheduled
<1>6. CASE PickConsumers
  BY <1>6, Zenon DEF PickConsumers
<1>7. CASE ProducerCommits
  <2>1. session.w \in Workflows
    BY <1>7, Fields DEF ProducerCommits
  <2>2. PICK S \in SUBSET Consumers :
            dirty' = [dirty EXCEPT ![session.w] = [c \in Consumers |-> dirty[session.w][c] \/ c \in S]]
    BY <1>7 DEF ProducerCommits, Publish
  <2>3. dirty' \in [Workflows -> [Consumers -> BOOLEAN]]
    BY <2>1, <2>2, Zenon
  <2>4. active' = active /\ backoff' = backoff /\ woken' = woken /\ due' \in {due, [due EXCEPT ![session.w] = FALSE]}
    BY <1>7 DEF ProducerCommits
  <2> QED BY <2>1, <2>3, <2>4, Zenon
<1>8. CASE StartRun
  BY <1>8, Zenon DEF StartRun
<1>9. CASE PrepareNothing
  BY <1>9, Zenon DEF PrepareNothing, Prepared
<1>10. CASE PrepareEvents
  BY <1>10, Zenon DEF PrepareEvents, Prepared
<1>11. CASE Mutate
  BY <1>11, Zenon DEF Mutate
<1>12. CASE ConsumerCommits
  <2>1. session.w \in Workflows
    BY <1>12, Fields DEF ConsumerCommits
  <2>2. PICK S \in SUBSET Consumers :
            dirty' = [dirty EXCEPT ![session.w] = [c \in Consumers |-> dirty[session.w][c] \/ c \in S]]
    BY <1>12 DEF ConsumerCommits, Publish
  <2>3. dirty' \in [Workflows -> [Consumers -> BOOLEAN]]
    BY <2>1, <2>2, Zenon
  <2>4. active' = active /\ backoff' = backoff /\ woken' = woken /\ due' \in {due, [due EXCEPT ![session.w] = FALSE]}
    BY <1>12 DEF ConsumerCommits
  <2> QED BY <2>1, <2>3, <2>4, Zenon
<1>13. CASE Complete
  BY <1>13, Zenon DEF Complete
<1>14. CASE FailTransient
  BY <1>14, Zenon DEF FailTransient
<1>15. CASE FailForGood("error") \/ FailForGood("maintenance")
  BY <1>15, Zenon DEF FailForGood
<1>16. ASSUME NEW w \in Workflows, ScheduleFires(w) PROVE Flags'
  BY <1>16, Zenon DEF ScheduleFires
<1>17. ASSUME NEW w \in Workflows, BackoffEnds(w) PROVE Flags'
  BY <1>17, Zenon DEF BackoffEnds
<1>18. ASSUME NEW w \in Workflows, NEW c \in Consumers, WakeComes(w, c) PROVE Flags'
  BY <1>18, Zenon DEF WakeComes
<1>19. CASE Restart
  BY <1>19, Zenon DEF Restart, Changing
<1>20. ASSUME NEW w \in Workflows, Pause(w) PROVE Flags'
  BY <1>20, Zenon DEF Pause, Changing
<1>21. ASSUME NEW w \in Workflows, Resume(w) PROVE Flags'
  BY <1>21, Zenon DEF Resume, Changing
<1>22. ASSUME NEW w \in Workflows, UserActivates(w) PROVE Flags'
  <2>1. (w \in Scheduled) \in BOOLEAN
    OBVIOUS
  <2>2. [due EXCEPT ![w] = w \in Scheduled] \in [Workflows -> BOOLEAN]
    BY <2>1, Zenon
  <2>3. [active EXCEPT ![w] = TRUE] \in [Workflows -> BOOLEAN]
    BY Zenon
  <2> QED BY <1>22, <2>2, <2>3, Zenon DEF UserActivates, Activate
<1>23. ASSUME NEW w \in Workflows, FixIsActivated(w) PROVE Flags'
  <2>1. (w \in Scheduled) \in BOOLEAN
    OBVIOUS
  <2>2. [due EXCEPT ![w] = w \in Scheduled] \in [Workflows -> BOOLEAN]
    BY <2>1, Zenon
  <2>3. [active EXCEPT ![w] = TRUE] \in [Workflows -> BOOLEAN]
    BY Zenon
  <2> QED BY <1>23, <2>2, <2>3, Zenon DEF FixIsActivated, Activate
<1> QED BY <1>1, <1>2, <1>3, <1>4, <1>5, <1>6, <1>7, <1>8, <1>9, <1>10, <1>11, <1>12, <1>13, <1>14, <1>15, <1>16, <1>17, <1>18, <1>19, <1>20, <1>21, <1>22, <1>23, Zenon DEF Next, Scheduler, Time, Outside

\* Scripts are numbered, and the flags are made for one there is.
LEMMA ScriptTypesStep ==
    ASSUME ScriptTypes, SessionTypes, [Next]_vars
    PROVE  ScriptTypes'
<1> USE DEF ScriptTypes
<1>1. CASE UNCHANGED vars
  BY Fields, <1>1 DEF vars
<1>2. ASSUME NEW w \in Workflows, Track(w) PROVE ScriptTypes'
  BY Fields, <1>2 DEF Track, Runnable
<1>3. CASE PickRetry
  BY Fields, <1>3 DEF PickRetry
<1>4. CASE RefuseRetry
  BY Fields, <1>4 DEF RefuseRetry
<1>5. CASE PickScheduled
  BY Fields, <1>5 DEF PickScheduled
<1>6. CASE PickConsumers
  BY Fields, <1>6 DEF PickConsumers
<1>7. CASE ProducerCommits
  BY Fields, <1>7 DEF ProducerCommits
<1>8. CASE StartRun
  BY Fields, <1>8 DEF StartRun
<1>9. CASE PrepareNothing
  BY Fields, <1>9 DEF PrepareNothing, Prepared
<1>10. CASE PrepareEvents
  BY Fields, <1>10 DEF PrepareEvents, Prepared
<1>11. CASE Mutate
  BY Fields, <1>11 DEF Mutate
<1>12. CASE ConsumerCommits
  BY Fields, <1>12 DEF ConsumerCommits
<1>13. CASE Complete
  BY Fields, <1>13 DEF Complete
<1>14. CASE FailTransient
  BY Fields, <1>14 DEF FailTransient, Running
<1>15. CASE FailForGood("error") \/ FailForGood("maintenance")
  BY Fields, <1>15 DEF FailForGood, Running
<1>16. ASSUME NEW w \in Workflows, ScheduleFires(w) PROVE ScriptTypes'
  BY Fields, <1>16 DEF ScheduleFires
<1>17. ASSUME NEW w \in Workflows, BackoffEnds(w) PROVE ScriptTypes'
  BY Fields, <1>17 DEF BackoffEnds
<1>18. ASSUME NEW w \in Workflows, NEW c \in Consumers, WakeComes(w, c) PROVE ScriptTypes'
  BY Fields, <1>18 DEF WakeComes
<1>19. CASE Restart
  BY Fields, <1>19 DEF Restart, Changing
<1>20. ASSUME NEW w \in Workflows, Pause(w) PROVE ScriptTypes'
  BY Fields, <1>20 DEF Pause, Changing
<1>21. ASSUME NEW w \in Workflows, Resume(w) PROVE ScriptTypes'
  BY Fields, <1>21 DEF Resume, Changing
<1>22. ASSUME NEW w \in Workflows, UserActivates(w) PROVE ScriptTypes'
  BY Fields, <1>22 DEF UserActivates, Activate, Changing
<1>23. ASSUME NEW w \in Workflows, FixIsActivated(w) PROVE ScriptTypes'
  BY Fields, <1>23 DEF FixIsActivated, Activate, Changing
<1> QED BY <1>1, <1>2, <1>3, <1>4, <1>5, <1>6, <1>7, <1>8, <1>9, <1>10, <1>11, <1>12, <1>13, <1>14, <1>15, <1>16, <1>17, <1>18, <1>19, <1>20, <1>21, <1>22, <1>23 DEF Next, Scheduler, Time, Outside

\* A session is begun, goes on and ends as a session.
LEMMA SessionTypesStep ==
    ASSUME SchedulingTypeOK, [Next]_vars
    PROVE  SessionTypes'
<1> USE DEF SchedulingTypeOK
<1>0. session' = session => SessionTypes'
  BY DEF SessionTypes
<1>1. CASE UNCHANGED vars
  BY <1>0, <1>1 DEF vars
<1>2. ASSUME NEW w \in Workflows, Track(w) PROVE SessionTypes'
  BY <1>0, <1>2 DEF Track, Runnable
<1>3. CASE PickRetry
  BY <1>3, PickRetryEffect, Bounds DEF SessionTypes
<1>4. CASE RefuseRetry
  BY <1>0, <1>4 DEF RefuseRetry
<1>5. CASE PickScheduled
  BY <1>5, PickEffect, Bounds DEF SessionTypes
<1>6. CASE PickConsumers
  BY <1>6, PickEffect, Bounds DEF SessionTypes
<1>7. CASE ProducerCommits
  BY <1>7, MoveEffect, Fields DEF SessionTypes
<1>8. CASE StartRun
  BY <1>8, MoveEffect, Fields DEF SessionTypes
<1>9. CASE PrepareNothing
  BY <1>9, MoveEffect, Fields DEF SessionTypes
<1>10. CASE PrepareEvents
  BY <1>10, MoveEffect, PrepareEffect, Fields DEF SessionTypes
<1>11. CASE Mutate
  BY <1>11, MoveEffect, Fields DEF SessionTypes
<1>12. CASE ConsumerCommits
  BY <1>12, MoveEffect, Fields DEF SessionTypes
<1>13. CASE Complete
  BY <1>13, OffIsNoSession DEF SessionTypes, Complete
<1>14. CASE FailTransient
  BY <1>14, OffIsNoSession DEF SessionTypes, FailTransient
<1>15. CASE FailForGood("error") \/ FailForGood("maintenance")
  BY <1>15, OffIsNoSession DEF SessionTypes, FailForGood
<1>16. ASSUME NEW w \in Workflows, ScheduleFires(w) PROVE SessionTypes'
  BY <1>0, <1>16 DEF ScheduleFires
<1>17. ASSUME NEW w \in Workflows, BackoffEnds(w) PROVE SessionTypes'
  BY <1>0, <1>17 DEF BackoffEnds
<1>18. ASSUME NEW w \in Workflows, NEW c \in Consumers, WakeComes(w, c) PROVE SessionTypes'
  BY <1>0, <1>18 DEF WakeComes
<1>19. CASE Restart
  BY <1>19, OffIsNoSession DEF SessionTypes, Restart
<1>20. ASSUME NEW w \in Workflows, Pause(w) PROVE SessionTypes'
  BY <1>0, <1>20 DEF Pause, Changing
<1>21. ASSUME NEW w \in Workflows, Resume(w) PROVE SessionTypes'
  BY <1>0, <1>21 DEF Resume, Changing
<1>22. ASSUME NEW w \in Workflows, UserActivates(w) PROVE SessionTypes'
  BY <1>0, <1>22 DEF UserActivates, Activate, Changing
<1>23. ASSUME NEW w \in Workflows, FixIsActivated(w) PROVE SessionTypes'
  BY <1>0, <1>23 DEF FixIsActivated, Activate, Changing
<1> QED BY <1>1, <1>2, <1>3, <1>4, <1>5, <1>6, <1>7, <1>8, <1>9, <1>10, <1>11, <1>12, <1>13, <1>14, <1>15, <1>16, <1>17, <1>18, <1>19, <1>20, <1>21, <1>22, <1>23 DEF Next, Scheduler, Time, Outside

\* Counters are numbers.
LEMMA CounterTypesStep ==
    ASSUME SchedulingTypeOK, [Next]_vars
    PROVE  CounterTypes'
<1> USE DEF SchedulingTypeOK, CounterTypes
<1>1. CASE UNCHANGED vars
  BY <1>1 DEF vars
<1>2. ASSUME NEW w \in Workflows, Track(w) PROVE CounterTypes'
  BY <1>2 DEF Track, Runnable
<1>3. CASE PickRetry
  BY <1>3 DEF PickRetry
<1>4. CASE RefuseRetry
  BY <1>4 DEF RefuseRetry
<1>5. CASE PickScheduled
  BY <1>5 DEF PickScheduled
<1>6. CASE PickConsumers
  BY <1>6 DEF PickConsumers
<1>7. CASE ProducerCommits
  <2>1. session.w \in Workflows
    BY <1>7, Fields DEF ProducerCommits
  <2>2. PICK S \in SUBSET Consumers : Publish(S)
    BY <1>7 DEF ProducerCommits
  <2> QED BY <1>7, <2>1, <2>2, PublishEffect DEF ProducerCommits
<1>8. CASE StartRun
  BY <1>8 DEF StartRun
<1>9. CASE PrepareNothing
  BY <1>9 DEF PrepareNothing, Prepared
<1>10. CASE PrepareEvents
  BY <1>10 DEF PrepareEvents, Prepared
<1>11. CASE Mutate
  BY <1>11 DEF Mutate
<1>12. CASE ConsumerCommits
  <2>1. session.w \in Workflows
    BY <1>12, Fields DEF ConsumerCommits
  <2>2. PICK S \in SUBSET Consumers : Publish(S)
    BY <1>12 DEF ConsumerCommits
  <2> QED BY <1>12, <2>1, <2>2, PublishEffect DEF ConsumerCommits
<1>13. CASE Complete
  BY <1>13 DEF Complete
<1>14. CASE FailTransient
  BY <1>14 DEF FailTransient
<1>15. CASE FailForGood("error") \/ FailForGood("maintenance")
  BY <1>15 DEF FailForGood
<1>16. ASSUME NEW w \in Workflows, ScheduleFires(w) PROVE CounterTypes'
  BY <1>16 DEF ScheduleFires
<1>17. ASSUME NEW w \in Workflows, BackoffEnds(w) PROVE CounterTypes'
  BY <1>17 DEF BackoffEnds
<1>18. ASSUME NEW w \in Workflows, NEW c \in Consumers, WakeComes(w, c) PROVE CounterTypes'
  BY <1>18 DEF WakeComes
<1>19. CASE Restart
  BY <1>19 DEF Restart, Changing
<1>20. ASSUME NEW w \in Workflows, Pause(w) PROVE CounterTypes'
  BY <1>20 DEF Pause, Changing
<1>21. ASSUME NEW w \in Workflows, Resume(w) PROVE CounterTypes'
  BY <1>21 DEF Resume, Changing
<1>22. ASSUME NEW w \in Workflows, UserActivates(w) PROVE CounterTypes'
  BY <1>22 DEF UserActivates, Activate, Changing
<1>23. ASSUME NEW w \in Workflows, FixIsActivated(w) PROVE CounterTypes'
  BY <1>23 DEF FixIsActivated, Activate, Changing
<1> QED BY <1>1, <1>2, <1>3, <1>4, <1>5, <1>6, <1>7, <1>8, <1>9, <1>10, <1>11, <1>12, <1>13, <1>14, <1>15, <1>16, <1>17, <1>18, <1>19, <1>20, <1>21, <1>22, <1>23 DEF Next, Scheduler, Time, Outside

\* A run to be retried is a consumer's, and failures in a row are few.
LEMMA RunTypesStep ==
    ASSUME SchedulingTypeOK, [Next]_vars
    PROVE  RunTypes'
<1> USE DEF SchedulingTypeOK, RunTypes, RunRef
<1>1. CASE UNCHANGED vars
  BY <1>1 DEF vars
<1>2. ASSUME NEW w \in Workflows, Track(w) PROVE RunTypes'
  BY <1>2 DEF Track, Runnable
<1>3. CASE PickRetry
  <2>1. broken' = broken /\ retries' = retries
    BY <1>3 DEF PickRetry
  <2>2. PICK w \in Workflows : retry' = [retry EXCEPT ![w] = 0] /\ held' = [held EXCEPT ![w] = 0]
    BY <1>3, PickRetryEffect
  <2>3. 0 \in RunRef /\ 0 \in 0 .. MaxEvents
    BY Bounds
  <2> QED BY <2>1, <2>2, <2>3
<1>4. CASE RefuseRetry
  <2>1. PICK w \in Workflows : retries' = [retries EXCEPT ![w] = 0]
    BY <1>4 DEF RefuseRetry, First, Retriable
  <2>2. broken' = broken /\ retry' = retry /\ held' = held
    BY <1>4 DEF RefuseRetry
  <2> QED BY <2>1, <2>2, Bounds
<1>5. CASE PickScheduled
  BY <1>5 DEF PickScheduled
<1>6. CASE PickConsumers
  BY <1>6 DEF PickConsumers
<1>7. CASE ProducerCommits
  BY <1>7 DEF ProducerCommits
<1>8. CASE StartRun
  BY <1>8 DEF StartRun
<1>9. CASE PrepareNothing
  BY <1>9 DEF PrepareNothing, Prepared
<1>10. CASE PrepareEvents
  BY <1>10 DEF PrepareEvents, Prepared
<1>11. CASE Mutate
  BY <1>11 DEF Mutate
<1>12. CASE ConsumerCommits
  BY <1>12 DEF ConsumerCommits
<1>13. CASE Complete
  <2>1. session.w \in Workflows /\ retries' = [retries EXCEPT ![session.w] = 0]
    BY <1>13, Fields DEF Complete
  <2>2. broken' = broken /\ retry' = retry /\ held' = held
    BY <1>13 DEF Complete
  <2>3. 0 \in 0 .. MaxRetries
    BY ONLY Bounds
  <2>4. retries' \in [Workflows -> 0 .. MaxRetries]
    BY <2>1, <2>3
  <2> QED BY <2>2, <2>4
<1>14. CASE FailTransient
  <2>1. retry' \in [Workflows -> RunRef] /\ held' \in [Workflows -> 0 .. MaxEvents]
    BY <1>14, StopEffect, Fields
  <2>2. retries' \in [Workflows -> 0 .. MaxRetries]
    <3>1. retries' = [retries EXCEPT ![session.w] = IF retries[session.w] >= MaxRetries THEN 0 ELSE retries[session.w] + 1]
      BY <1>14 DEF FailTransient
    <3>2. \A k \in 0 .. MaxRetries : (IF k >= MaxRetries THEN 0 ELSE k + 1) \in 0 .. MaxRetries
      BY Bounds
    <3>3. session.w \in Workflows
      BY <1>14, Fields DEF FailTransient, Running
    <3> QED BY <3>1, <3>2, <3>3
  <2>3. broken' = broken
    BY <1>14 DEF FailTransient
  <2> QED BY <2>1, <2>2, <2>3
<1>15. CASE FailForGood("error") \/ FailForGood("maintenance")
  <2>1. retry' \in [Workflows -> RunRef] /\ held' \in [Workflows -> 0 .. MaxEvents]
    BY <1>15, StopEffect, Fields
  <2>2. retries' \in [Workflows -> 0 .. MaxRetries]
    <3>1. retries' = [retries EXCEPT ![session.w] = 0]
      BY <1>15, Zenon DEF FailForGood
    <3>2. 0 \in 0 .. MaxRetries
      BY Bounds
    <3> QED BY <3>1, <3>2
  <2>3. broken' \in [Workflows -> RunRef]
    <3>1. session.w \in Workflows /\ (session.step = "emit" => session.c \in Consumers)
      BY <1>15, Fields DEF FailForGood, Running
    <3>2. broken' = broken \/ broken' = [broken EXCEPT ![session.w] = broken[session.w]]
          \/ broken' = [broken EXCEPT ![session.w] = Refused]
          \/ (session.step = "emit" /\ broken' = [broken EXCEPT ![session.w] = session.c])
      BY <1>15 DEF FailForGood
    <3> QED BY <3>1, <3>2
  <2> QED BY <2>1, <2>2, <2>3
<1>16. ASSUME NEW w \in Workflows, ScheduleFires(w) PROVE RunTypes'
  BY <1>16 DEF ScheduleFires
<1>17. ASSUME NEW w \in Workflows, BackoffEnds(w) PROVE RunTypes'
  BY <1>17 DEF BackoffEnds
<1>18. ASSUME NEW w \in Workflows, NEW c \in Consumers, WakeComes(w, c) PROVE RunTypes'
  BY <1>18 DEF WakeComes
<1>19. CASE Restart
  <2>1. retry' \in [Workflows -> RunRef] /\ held' \in [Workflows -> 0 .. MaxEvents]
    BY <1>19, StopEffect, Fields
  <2>2. retries' \in [Workflows -> 0 .. MaxRetries]
    BY <1>19, Bounds DEF Restart
  <2>3. broken' = broken
    BY <1>19 DEF Restart
  <2> QED BY <2>1, <2>2, <2>3
<1>20. ASSUME NEW w \in Workflows, Pause(w) PROVE RunTypes'
  BY <1>20 DEF Pause, Changing
<1>21. ASSUME NEW w \in Workflows, Resume(w) PROVE RunTypes'
  BY <1>21 DEF Resume, Changing
<1>22. ASSUME NEW w \in Workflows, UserActivates(w) PROVE RunTypes'
  BY <1>22 DEF UserActivates, Activate, Changing
<1>23. ASSUME NEW w \in Workflows, FixIsActivated(w) PROVE RunTypes'
  BY <1>23 DEF FixIsActivated, Activate, Changing
<1> QED BY <1>1, <1>2, <1>3, <1>4, <1>5, <1>6, <1>7, <1>8, <1>9, <1>10, <1>11, <1>12, <1>13, <1>14, <1>15, <1>16, <1>17, <1>18, <1>19, <1>20, <1>21, <1>22, <1>23 DEF Next, Scheduler, Time, Outside

\* No topic has more pending events than were published.
LEMMA ConsumerTypesStep ==
    ASSUME SchedulingTypeOK, NothingIsDoubled', RunTypes', SessionTypes', CounterTypes', [Next]_vars
    PROVE  ConsumerTypes'
<1> USE DEF SchedulingTypeOK, ConsumerTypes
<1>0. ASSUME pending' \in [Workflows -> [Consumers -> Nat]]
      PROVE  pending' \in [Workflows -> [Consumers -> 0 .. MaxEvents]]
  <2>1. ASSUME NEW w \in Workflows, NEW c \in Consumers PROVE pending'[w][c] \in 0 .. MaxEvents
    <3>1. pending'[w][c] \in Nat /\ pending'[w][c] + InRun(w, c)' + ToRetry(w, c)' <= published' /\ published' \in 0 .. MaxEvents
      BY <1>0 DEF NothingIsDoubled, CounterTypes
    <3>2. InRun(w, c)' \in Nat
      BY Fields DEF InRun, SessionTypes, Sessions
    <3>3. ToRetry(w, c)' \in Nat
      BY Bounds DEF ToRetry, RunTypes
    <3> QED BY <3>1, <3>2, <3>3, SumBound
  <2> QED BY <2>1, <1>0
<1>1. CASE UNCHANGED vars
  BY <1>1 DEF vars
<1>2. ASSUME NEW w \in Workflows, Track(w) PROVE ConsumerTypes'
  BY <1>2 DEF Track, Runnable
<1>3. CASE PickRetry
  BY <1>3 DEF PickRetry
<1>4. CASE RefuseRetry
  BY <1>4 DEF RefuseRetry
<1>5. CASE PickScheduled
  BY <1>5 DEF PickScheduled
<1>6. CASE PickConsumers
  BY <1>6 DEF PickConsumers
<1>7. CASE ProducerCommits
  <2>1. session.w \in Workflows
    BY <1>7, Fields DEF ProducerCommits
  <2>2. PICK S \in SUBSET Consumers : Publish(S)
    BY <1>7 DEF ProducerCommits
  <2>3. pending' \in [Workflows -> [Consumers -> Nat]]
    BY <2>1, <2>2, PublishEffect
  <2>4. UNCHANGED <<stored, wake, declined>>
    BY <1>7 DEF ProducerCommits
  <2> QED BY <1>0, <2>3, <2>4
<1>8. CASE StartRun
  BY <1>8 DEF StartRun
<1>9. CASE PrepareNothing
  <2>1. PICK time \in {"none", "later"} :
            /\ wake' = [wake EXCEPT ![session.w][session.c] = time]
            /\ stored' = IF time = "none" THEN stored ELSE [stored EXCEPT ![session.w][session.c] = time]
    BY <1>9 DEF PrepareNothing, Prepared
  <2>2. session.w \in Workflows /\ session.c \in Consumers
    BY <1>9, Fields DEF PrepareNothing
  <2>3. stored' \in [Workflows -> [Consumers -> {"none", "later", "due"}]]
    BY <2>1, <2>2
  <2>4. wake' \in [Workflows -> [Consumers -> {"none", "later", "due"}]]
    BY <2>1, <2>2
  <2>5. declined' = [declined EXCEPT ![session.w][session.c] = pending[session.w][session.c]]
    BY <1>9 DEF PrepareNothing
  <2>6. PICK hour \in {"none", "later"} : Prepared(0, hour)
    BY <1>9 DEF PrepareNothing
  <2>7. pending[session.w][session.c] \in 0 .. MaxEvents
    BY <2>2
  <2>7a. 0 \in Nat /\ 0 <= pending[session.w][session.c]
    BY ONLY <2>7, Bounds
  <2>8. pending' \in [Workflows -> [Consumers -> 0 .. MaxEvents]]
    BY <2>2, <2>6, <2>7a, PreparedEffect
  <2>9. declined' \in [Workflows -> [Consumers -> 0 .. MaxEvents]]
    BY <2>2, <2>5, <2>7
  <2> QED BY <2>3, <2>4, <2>8, <2>9
<1>10. CASE PrepareEvents
  <2>1. PICK time \in {"none", "later"} :
            /\ wake' = [wake EXCEPT ![session.w][session.c] = time]
            /\ stored' = IF time = "none" THEN stored ELSE [stored EXCEPT ![session.w][session.c] = time]
    BY <1>10 DEF PrepareEvents, Prepared
  <2>2. session.w \in Workflows /\ session.c \in Consumers
    BY <1>10, Fields DEF PrepareEvents
  <2>3. stored' \in [Workflows -> [Consumers -> {"none", "later", "due"}]]
    BY <2>1, <2>2
  <2>4. wake' \in [Workflows -> [Consumers -> {"none", "later", "due"}]]
    BY <2>1, <2>2
  <2>5. pending' \in [Workflows -> [Consumers -> 0 .. MaxEvents]]
        /\ declined' = [declined EXCEPT ![session.w][session.c] =
                    IF declined[session.w][session.c] < pending'[session.w][session.c]
                    THEN declined[session.w][session.c] ELSE pending'[session.w][session.c]]
    BY <1>10, PrepareEffect
  <2>6. declined' \in [Workflows -> [Consumers -> 0 .. MaxEvents]]
    BY <2>2, <2>5
  <2> QED BY <2>3, <2>4, <2>5, <2>6
<1>11. CASE Mutate
  BY <1>11 DEF Mutate
<1>12. CASE ConsumerCommits
  <2>1. session.w \in Workflows
    BY <1>12, Fields DEF ConsumerCommits
  <2>2. PICK S \in SUBSET Consumers : Publish(S)
    BY <1>12 DEF ConsumerCommits
  <2>3. pending' \in [Workflows -> [Consumers -> Nat]]
    BY <2>1, <2>2, PublishEffect
  <2>4. UNCHANGED <<stored, wake, declined>>
    BY <1>12 DEF ConsumerCommits
  <2> QED BY <1>0, <2>3, <2>4
<1>13. CASE Complete
  BY <1>13 DEF Complete
<1>14. CASE FailTransient
  <2>1. pending' \in [Workflows -> [Consumers -> Nat]]
    BY <1>14, StopEffect
  <2>2. UNCHANGED <<stored, declined>> /\ wake' \in [Workflows -> [Consumers -> {"none", "later", "due"}]]
    BY <1>14 DEF FailTransient
  <2> QED BY <1>0, <2>1, <2>2
<1>15. CASE FailForGood("error") \/ FailForGood("maintenance")
  <2>1. pending' \in [Workflows -> [Consumers -> Nat]]
    BY <1>15, StopEffect
  <2>2. UNCHANGED <<stored, declined>> /\ wake' \in [Workflows -> [Consumers -> {"none", "later", "due"}]]
    BY <1>15 DEF FailForGood
  <2> QED BY <1>0, <2>1, <2>2
<1>16. ASSUME NEW w \in Workflows, ScheduleFires(w) PROVE ConsumerTypes'
  BY <1>16 DEF ScheduleFires
<1>17. ASSUME NEW w \in Workflows, BackoffEnds(w) PROVE ConsumerTypes'
  BY <1>17 DEF BackoffEnds
<1>18. ASSUME NEW w \in Workflows, NEW c \in Consumers, WakeComes(w, c) PROVE ConsumerTypes'
  BY <1>18 DEF WakeComes
<1>19. CASE Restart
  <2>1. pending' \in [Workflows -> [Consumers -> Nat]]
    BY <1>19, StopEffect
  <2>2. UNCHANGED <<stored, declined>> /\ wake' \in [Workflows -> [Consumers -> {"none", "later", "due"}]]
    BY <1>19 DEF Restart
  <2> QED BY <1>0, <2>1, <2>2
<1>20. ASSUME NEW w \in Workflows, Pause(w) PROVE ConsumerTypes'
  BY <1>20 DEF Pause, Changing
<1>21. ASSUME NEW w \in Workflows, Resume(w) PROVE ConsumerTypes'
  BY <1>21 DEF Resume, Changing
<1>22. ASSUME NEW w \in Workflows, UserActivates(w) PROVE ConsumerTypes'
  BY <1>22 DEF UserActivates, Activate, Changing
<1>23. ASSUME NEW w \in Workflows, FixIsActivated(w) PROVE ConsumerTypes'
  BY <1>23 DEF FixIsActivated, Activate, Changing
<1> QED BY <1>1, <1>2, <1>3, <1>4, <1>5, <1>6, <1>7, <1>8, <1>9, <1>10, <1>11, <1>12, <1>13, <1>14, <1>15, <1>16, <1>17, <1>18, <1>19, <1>20, <1>21, <1>22, <1>23 DEF Next, Scheduler, Time, Outside

\* An event stays in one place: a commit adds one, reserving, releasing and
\* retrying move some.
LEMMA DoubledStep ==
    ASSUME SchedulingTypeOK, NothingIsDoubled, BrokenIsRetried, [Next]_vars
    PROVE  NothingIsDoubled'
<1> USE DEF SchedulingTypeOK
<1>0. \A v \in Workflows, d \in Consumers :
        /\ pending[v][d] + InRun(v, d) + ToRetry(v, d) <= published /\ published \in Nat
        /\ pending[v][d] \in Nat /\ InRun(v, d) \in Nat /\ ToRetry(v, d) \in Nat
  BY Fields DEF NothingIsDoubled, InRun, ToRetry, RunTypes, ConsumerTypes, CounterTypes
<1>0a. UNCHANGED <<pending, session, retry, held, published>> => NothingIsDoubled'
  BY DEF NothingIsDoubled, InRun, ToRetry
<1>1. CASE UNCHANGED vars
  BY <1>0a, <1>1 DEF vars
<1>2. ASSUME NEW w \in Workflows, Track(w) PROVE NothingIsDoubled'
  BY <1>0a, <1>2 DEF Track, Runnable
<1>3. CASE PickRetry
  <2> SUFFICES ASSUME NEW v \in Workflows, NEW d \in Consumers
               PROVE  pending'[v][d] + InRun(v, d)' + ToRetry(v, d)' <= published'
    BY DEF NothingIsDoubled
  <2>0. /\ pending[v][d] + InRun(v, d) + ToRetry(v, d) <= published /\ published \in Nat
        /\ pending[v][d] \in Nat /\ InRun(v, d) \in Nat /\ ToRetry(v, d) \in Nat
    BY <1>0
  <2>1. pending' = pending /\ published' = published
    BY <1>3 DEF PickRetry
  <2>2. PICK w \in Workflows : /\ session'.w = w /\ session'.c = retry[w] /\ session'.n = held[w]
                              /\ retry' = [retry EXCEPT ![w] = 0] /\ held' = [held EXCEPT ![w] = 0]
    BY <1>3, PickRetryEffect
  <2>3. InRun(v, d)' <= ToRetry(v, d) /\ InRun(v, d)' \in Nat
    BY <2>2 DEF InRun, ToRetry, RunTypes
  <2>4. ToRetry(v, d)' = IF v = w THEN 0 ELSE ToRetry(v, d)
    BY <2>2, Bounds DEF ToRetry, RunTypes
  <2>5. v # w => InRun(v, d)' = 0
    BY <2>2 DEF InRun
  <2> QED BY <2>0, <2>1, <2>3, <2>4, <2>5
<1>4. CASE RefuseRetry
  BY <1>0a, <1>4 DEF RefuseRetry
<1>5. CASE PickScheduled
  <2> SUFFICES ASSUME NEW v \in Workflows, NEW d \in Consumers
               PROVE  pending'[v][d] + InRun(v, d)' + ToRetry(v, d)' <= published'
    BY DEF NothingIsDoubled
  <2>0. /\ pending[v][d] + InRun(v, d) + ToRetry(v, d) <= published /\ published \in Nat
        /\ pending[v][d] \in Nat /\ InRun(v, d) \in Nat /\ ToRetry(v, d) \in Nat
    BY <1>0
  <2>1. UNCHANGED <<pending, published, retry, held>>
    BY <1>5 DEF PickScheduled, PickConsumers
  <2>2. InRun(v, d)' = 0
    BY <1>5, PickEffect DEF InRun
  <2> QED BY <2>0, <2>1, <2>2 DEF ToRetry
<1>6. CASE PickConsumers
  <2> SUFFICES ASSUME NEW v \in Workflows, NEW d \in Consumers
               PROVE  pending'[v][d] + InRun(v, d)' + ToRetry(v, d)' <= published'
    BY DEF NothingIsDoubled
  <2>0. /\ pending[v][d] + InRun(v, d) + ToRetry(v, d) <= published /\ published \in Nat
        /\ pending[v][d] \in Nat /\ InRun(v, d) \in Nat /\ ToRetry(v, d) \in Nat
    BY <1>0
  <2>1. UNCHANGED <<pending, published, retry, held>>
    BY <1>6 DEF PickScheduled, PickConsumers
  <2>2. InRun(v, d)' = 0
    BY <1>6, PickEffect DEF InRun
  <2> QED BY <2>0, <2>1, <2>2 DEF ToRetry
<1>7. CASE ProducerCommits
  <2> SUFFICES ASSUME NEW v \in Workflows, NEW d \in Consumers
               PROVE  pending'[v][d] + InRun(v, d)' + ToRetry(v, d)' <= published'
    BY DEF NothingIsDoubled
  <2>0. /\ pending[v][d] + InRun(v, d) + ToRetry(v, d) <= published /\ published \in Nat
        /\ pending[v][d] \in Nat /\ InRun(v, d) \in Nat /\ ToRetry(v, d) \in Nat
    BY <1>0
  <2>1. session.w \in Workflows /\ UNCHANGED <<retry, held>> /\ session'.n = 0
    BY <1>7, Fields, MoveEffect DEF ProducerCommits
  <2>2. PICK S \in SUBSET Consumers : Publish(S)
    BY <1>7 DEF ProducerCommits
  <2>3. /\ published' \in Nat /\ published <= published'
        /\ pending'[v][d] = pending[v][d] \/ (pending'[v][d] = pending[v][d] + 1 /\ published + 1 <= published')
    BY <2>1, <2>2, PublishEffect
  <2>4. InRun(v, d)' = 0 /\ ToRetry(v, d)' = ToRetry(v, d)
    BY <2>1 DEF InRun, ToRetry
  <2> QED BY <2>0, <2>3, <2>4
<1>8. CASE StartRun
  <2> SUFFICES ASSUME NEW v \in Workflows, NEW d \in Consumers
               PROVE  pending'[v][d] + InRun(v, d)' + ToRetry(v, d)' <= published'
    BY DEF NothingIsDoubled
  <2>0. /\ pending[v][d] + InRun(v, d) + ToRetry(v, d) <= published /\ published \in Nat
        /\ pending[v][d] \in Nat /\ InRun(v, d) \in Nat /\ ToRetry(v, d) \in Nat
    BY <1>0
  <2>1. UNCHANGED <<pending, published, retry, held>>
    BY <1>8 DEF StartRun
  <2>2. InRun(v, d)' = 0
    BY <1>8, MoveEffect DEF InRun
  <2> QED BY <2>0, <2>1, <2>2 DEF ToRetry
<1>9. CASE PrepareNothing
  <2> SUFFICES ASSUME NEW v \in Workflows, NEW d \in Consumers
               PROVE  pending'[v][d] + InRun(v, d)' + ToRetry(v, d)' <= published'
    BY DEF NothingIsDoubled
  <2>0. /\ pending[v][d] + InRun(v, d) + ToRetry(v, d) <= published /\ published \in Nat
        /\ pending[v][d] \in Nat /\ InRun(v, d) \in Nat /\ ToRetry(v, d) \in Nat
    BY <1>0
  <2>1. session.w \in Workflows /\ session.c \in Consumers /\ UNCHANGED <<retry, held, published>> /\ session'.n = 0
    BY <1>9, Fields, MoveEffect DEF PrepareNothing, Prepared
  <2>2. PICK time \in {"none", "later"} : Prepared(0, time)
    BY <1>9 DEF PrepareNothing
  <2>3. pending[session.w][session.c] \in Nat
    BY <2>1 DEF ConsumerTypes
  <2>4. pending'[v][d] = pending[v][d]
    BY <2>1, <2>2, <2>3, PreparedEffect
  <2>5. InRun(v, d)' = 0 /\ ToRetry(v, d)' = ToRetry(v, d)
    BY <2>1 DEF InRun, ToRetry
  <2> QED BY <2>0, <2>1, <2>4, <2>5
<1>10. CASE PrepareEvents
  <2> SUFFICES ASSUME NEW v \in Workflows, NEW d \in Consumers
               PROVE  pending'[v][d] + InRun(v, d)' + ToRetry(v, d)' <= published'
    BY DEF NothingIsDoubled
  <2>0. /\ pending[v][d] + InRun(v, d) + ToRetry(v, d) <= published /\ published \in Nat
        /\ pending[v][d] \in Nat /\ InRun(v, d) \in Nat /\ ToRetry(v, d) \in Nat
    BY <1>0
  <2>1. UNCHANGED <<retry, held, published>>
    BY <1>10 DEF PrepareEvents, Prepared
  <2>2. PICK n \in 1 .. MaxEvents :
            /\ session.w \in Workflows /\ session.c \in Consumers
            /\ session'.w = session.w /\ session'.c = session.c /\ session'.n = n
            /\ pending[session.w][session.c] = pending'[session.w][session.c] + n
            /\ pending' \in [Workflows -> [Consumers -> 0 .. MaxEvents]]
            /\ v # session.w \/ d # session.c => pending'[v][d] = pending[v][d]
    BY <1>10, PrepareEffect
  <2>3. CASE v = session.w /\ d = session.c
    <3>1. InRun(v, d)' = n /\ pending[v][d] = pending'[v][d] + n /\ pending'[v][d] \in 0 .. MaxEvents
      BY <2>2, <2>3 DEF InRun
    <3>2. pending'[v][d] \in Nat /\ n \in Nat
      BY <3>1, Bounds
    <3> QED BY <2>0, <2>1, <3>1, <3>2 DEF ToRetry
  <2>4. CASE ~(v = session.w /\ d = session.c)
    <3>1. InRun(v, d)' = 0 /\ pending'[v][d] = pending[v][d]
      BY <2>2, <2>4 DEF InRun
    <3> QED BY <2>0, <2>1, <3>1 DEF ToRetry
  <2> QED BY <2>3, <2>4
<1>11. CASE Mutate
  <2> SUFFICES ASSUME NEW v \in Workflows, NEW d \in Consumers
               PROVE  pending'[v][d] + InRun(v, d)' + ToRetry(v, d)' <= published'
    BY DEF NothingIsDoubled
  <2>0. /\ pending[v][d] + InRun(v, d) + ToRetry(v, d) <= published /\ published \in Nat
        /\ pending[v][d] \in Nat /\ InRun(v, d) \in Nat /\ ToRetry(v, d) \in Nat
    BY <1>0
  <2>1. UNCHANGED <<pending, published, retry, held>>
    BY <1>11 DEF Mutate
  <2>2. InRun(v, d)' = InRun(v, d)
    BY <1>11, MoveEffect DEF InRun
  <2> QED BY <2>0, <2>1, <2>2 DEF ToRetry
<1>12. CASE ConsumerCommits
  <2> SUFFICES ASSUME NEW v \in Workflows, NEW d \in Consumers
               PROVE  pending'[v][d] + InRun(v, d)' + ToRetry(v, d)' <= published'
    BY DEF NothingIsDoubled
  <2>0. /\ pending[v][d] + InRun(v, d) + ToRetry(v, d) <= published /\ published \in Nat
        /\ pending[v][d] \in Nat /\ InRun(v, d) \in Nat /\ ToRetry(v, d) \in Nat
    BY <1>0
  <2>1. session.w \in Workflows /\ UNCHANGED <<retry, held>> /\ session'.n = 0
    BY <1>12, Fields, MoveEffect DEF ConsumerCommits
  <2>2. PICK S \in SUBSET Consumers : Publish(S)
    BY <1>12 DEF ConsumerCommits
  <2>3. /\ published' \in Nat /\ published <= published'
        /\ pending'[v][d] = pending[v][d] \/ (pending'[v][d] = pending[v][d] + 1 /\ published + 1 <= published')
    BY <2>1, <2>2, PublishEffect
  <2>4. InRun(v, d)' = 0 /\ ToRetry(v, d)' = ToRetry(v, d)
    BY <2>1 DEF InRun, ToRetry
  <2> QED BY <2>0, <2>3, <2>4
<1>13. CASE Complete
  <2> SUFFICES ASSUME NEW v \in Workflows, NEW d \in Consumers
               PROVE  pending'[v][d] + InRun(v, d)' + ToRetry(v, d)' <= published'
    BY DEF NothingIsDoubled
  <2>0. /\ pending[v][d] + InRun(v, d) + ToRetry(v, d) <= published /\ published \in Nat
        /\ pending[v][d] \in Nat /\ InRun(v, d) \in Nat /\ ToRetry(v, d) \in Nat
    BY <1>0
  <2>1. UNCHANGED <<pending, published, retry, held>> /\ session' = NoSession
    BY <1>13 DEF Complete
  <2>2. InRun(v, d)' = 0
    BY <2>1, OffIsNoSession DEF InRun
  <2> QED BY <2>0, <2>1, <2>2 DEF ToRetry
<1>14. CASE FailTransient
  <2> SUFFICES ASSUME NEW v \in Workflows, NEW d \in Consumers
               PROVE  pending'[v][d] + InRun(v, d)' + ToRetry(v, d)' <= published'
    BY DEF NothingIsDoubled
  <2>0. /\ pending[v][d] + InRun(v, d) + ToRetry(v, d) <= published /\ published \in Nat
        /\ pending[v][d] \in Nat /\ InRun(v, d) \in Nat /\ ToRetry(v, d) \in Nat
    BY <1>0
  <2>1. /\ session' = NoSession /\ published' = published
        /\ \/ pending'[v][d] = pending[v][d]
           \/ /\ session.step = "mutate" /\ v = session.w /\ d = session.c
              /\ pending'[v][d] = pending[v][d] + session.n
        /\ \/ held' = held /\ retry' = retry
           \/ /\ session.step = "emit"
              /\ held' = [held EXCEPT ![session.w] = session.n]
              /\ retry' = [retry EXCEPT ![session.w] = session.c]
    BY <1>14, StopEffect
  <2>2. InRun(v, d)' = 0
    BY <2>1, OffIsNoSession DEF InRun
  <2>3. CASE held' = held /\ retry' = retry
    <3>1. ToRetry(v, d)' = ToRetry(v, d)
      BY <2>3 DEF ToRetry
    <3>2. pending'[v][d] \in {pending[v][d], pending[v][d] + InRun(v, d)}
      BY <2>1 DEF InRun
    <3> QED BY <2>0, <2>1, <2>2, <3>1, <3>2
  <2>4. CASE /\ session.step = "emit"
             /\ held' = [held EXCEPT ![session.w] = session.n]
             /\ retry' = [retry EXCEPT ![session.w] = session.c]
    <3>1. pending'[v][d] = pending[v][d] /\ session.w \in Workflows
      BY <2>1, <2>4, Fields
    <3>2. ToRetry(v, d)' \in {0, InRun(v, d)} \/ ToRetry(v, d)' = ToRetry(v, d)
      BY <2>4, <3>1 DEF ToRetry, InRun, RunTypes
    <3>3. v = session.w => ToRetry(v, d)' \in {0, InRun(v, d)}
      BY <2>4, <3>1 DEF ToRetry, InRun, RunTypes
    <3> QED BY <2>0, <2>1, <2>2, <3>1, <3>2, <3>3
  <2> QED BY <2>1, <2>3, <2>4
<1>15. CASE FailForGood("error") \/ FailForGood("maintenance")
  <2> SUFFICES ASSUME NEW v \in Workflows, NEW d \in Consumers
               PROVE  pending'[v][d] + InRun(v, d)' + ToRetry(v, d)' <= published'
    BY DEF NothingIsDoubled
  <2>0. /\ pending[v][d] + InRun(v, d) + ToRetry(v, d) <= published /\ published \in Nat
        /\ pending[v][d] \in Nat /\ InRun(v, d) \in Nat /\ ToRetry(v, d) \in Nat
    BY <1>0
  <2>1. /\ session' = NoSession /\ published' = published
        /\ \/ pending'[v][d] = pending[v][d]
           \/ /\ session.step = "mutate" /\ v = session.w /\ d = session.c
              /\ pending'[v][d] = pending[v][d] + session.n
        /\ \/ held' = held /\ retry' = retry
           \/ /\ session.step = "emit"
              /\ held' = [held EXCEPT ![session.w] = session.n]
              /\ retry' = [retry EXCEPT ![session.w] = session.c]
    BY <1>15, StopEffect
  <2>2. InRun(v, d)' = 0
    BY <2>1, OffIsNoSession DEF InRun
  <2>3. CASE held' = held /\ retry' = retry
    <3>1. ToRetry(v, d)' = ToRetry(v, d)
      BY <2>3 DEF ToRetry
    <3>2. pending'[v][d] \in {pending[v][d], pending[v][d] + InRun(v, d)}
      BY <2>1 DEF InRun
    <3> QED BY <2>0, <2>1, <2>2, <3>1, <3>2
  <2>4. CASE /\ session.step = "emit"
             /\ held' = [held EXCEPT ![session.w] = session.n]
             /\ retry' = [retry EXCEPT ![session.w] = session.c]
    <3>1. pending'[v][d] = pending[v][d] /\ session.w \in Workflows
      BY <2>1, <2>4, Fields
    <3>2. ToRetry(v, d)' \in {0, InRun(v, d)} \/ ToRetry(v, d)' = ToRetry(v, d)
      BY <2>4, <3>1 DEF ToRetry, InRun, RunTypes
    <3>3. v = session.w => ToRetry(v, d)' \in {0, InRun(v, d)}
      BY <2>4, <3>1 DEF ToRetry, InRun, RunTypes
    <3> QED BY <2>0, <2>1, <2>2, <3>1, <3>2, <3>3
  <2> QED BY <2>1, <2>3, <2>4
<1>16. ASSUME NEW w \in Workflows, ScheduleFires(w) PROVE NothingIsDoubled'
  BY <1>0a, <1>16 DEF ScheduleFires
<1>17. ASSUME NEW w \in Workflows, BackoffEnds(w) PROVE NothingIsDoubled'
  BY <1>0a, <1>17 DEF BackoffEnds
<1>18. ASSUME NEW w \in Workflows, NEW c \in Consumers, WakeComes(w, c) PROVE NothingIsDoubled'
  BY <1>0a, <1>18 DEF WakeComes
<1>19. CASE Restart
  <2> SUFFICES ASSUME NEW v \in Workflows, NEW d \in Consumers
               PROVE  pending'[v][d] + InRun(v, d)' + ToRetry(v, d)' <= published'
    BY DEF NothingIsDoubled
  <2>0. /\ pending[v][d] + InRun(v, d) + ToRetry(v, d) <= published /\ published \in Nat
        /\ pending[v][d] \in Nat /\ InRun(v, d) \in Nat /\ ToRetry(v, d) \in Nat
    BY <1>0
  <2>1. /\ session' = NoSession /\ published' = published
        /\ \/ pending'[v][d] = pending[v][d]
           \/ /\ session.step = "mutate" /\ v = session.w /\ d = session.c
              /\ pending'[v][d] = pending[v][d] + session.n
        /\ \/ held' = held /\ retry' = retry
           \/ /\ session.step = "emit"
              /\ held' = [held EXCEPT ![session.w] = session.n]
              /\ retry' = [retry EXCEPT ![session.w] = session.c]
    BY <1>19, StopEffect
  <2>2. InRun(v, d)' = 0
    BY <2>1, OffIsNoSession DEF InRun
  <2>3. CASE held' = held /\ retry' = retry
    <3>1. ToRetry(v, d)' = ToRetry(v, d)
      BY <2>3 DEF ToRetry
    <3>2. pending'[v][d] \in {pending[v][d], pending[v][d] + InRun(v, d)}
      BY <2>1 DEF InRun
    <3> QED BY <2>0, <2>1, <2>2, <3>1, <3>2
  <2>4. CASE /\ session.step = "emit"
             /\ held' = [held EXCEPT ![session.w] = session.n]
             /\ retry' = [retry EXCEPT ![session.w] = session.c]
    <3>1. pending'[v][d] = pending[v][d] /\ session.w \in Workflows
      BY <2>1, <2>4, Fields
    <3>2. ToRetry(v, d)' \in {0, InRun(v, d)} \/ ToRetry(v, d)' = ToRetry(v, d)
      BY <2>4, <3>1 DEF ToRetry, InRun, RunTypes
    <3>3. v = session.w => ToRetry(v, d)' \in {0, InRun(v, d)}
      BY <2>4, <3>1 DEF ToRetry, InRun, RunTypes
    <3> QED BY <2>0, <2>1, <2>2, <3>1, <3>2, <3>3
  <2> QED BY <2>1, <2>3, <2>4
<1>20. ASSUME NEW w \in Workflows, Pause(w) PROVE NothingIsDoubled'
  BY <1>0a, <1>20 DEF Pause, Changing
<1>21. ASSUME NEW w \in Workflows, Resume(w) PROVE NothingIsDoubled'
  BY <1>0a, <1>21 DEF Resume, Changing
<1>22. ASSUME NEW w \in Workflows, UserActivates(w) PROVE NothingIsDoubled'
  BY <1>0a, <1>22 DEF UserActivates, Activate, Changing
<1>23. ASSUME NEW w \in Workflows, FixIsActivated(w) PROVE NothingIsDoubled'
  <2> SUFFICES ASSUME NEW v \in Workflows, NEW d \in Consumers
               PROVE  pending'[v][d] + InRun(v, d)' + ToRetry(v, d)' <= published'
    BY DEF NothingIsDoubled
  <2>0. /\ pending[v][d] + InRun(v, d) + ToRetry(v, d) <= published /\ published \in Nat
        /\ pending[v][d] \in Nat /\ InRun(v, d) \in Nat /\ ToRetry(v, d) \in Nat
    BY <1>0
  <2>1. UNCHANGED <<pending, published, session, held>> /\ retry' = [retry EXCEPT ![w] = broken[w]]
    BY <1>23 DEF FixIsActivated, Activate
  <2>2. broken[w] \in {Refused, retry[w]}
    BY <1>23 DEF FixIsActivated, BrokenIsRetried
  <2>3. InRun(v, d)' = InRun(v, d) /\ ToRetry(v, d)' \in {0, ToRetry(v, d)}
    BY <2>1, <2>2, Bounds DEF InRun, ToRetry, RunTypes, Refused
  <2> QED BY <2>0, <2>1, <2>3
<1> QED BY <1>1, <1>2, <1>3, <1>4, <1>5, <1>6, <1>7, <1>8, <1>9, <1>10, <1>11, <1>12, <1>13, <1>14, <1>15, <1>16, <1>17, <1>18, <1>19, <1>20, <1>21, <1>22, <1>23 DEF Next, Scheduler, Time, Outside

\* A time in memory is stored when it is asked for, and comes in both.
LEMMA StoredStep ==
    ASSUME SchedulingTypeOK, WakesAreStored, [Next]_vars
    PROVE  WakesAreStored'
<1> USE DEF SchedulingTypeOK, ConsumerTypes, WakesAreStored
<1>1. CASE UNCHANGED vars
  BY Fields, <1>1 DEF vars
<1>2. ASSUME NEW w \in Workflows, Track(w) PROVE WakesAreStored'
  BY Fields, <1>2 DEF Track, Runnable
<1>3. CASE PickRetry
  BY Fields, <1>3 DEF PickRetry
<1>4. CASE RefuseRetry
  BY Fields, <1>4 DEF RefuseRetry
<1>5. CASE PickScheduled
  BY Fields, <1>5 DEF PickScheduled
<1>6. CASE PickConsumers
  BY Fields, <1>6 DEF PickConsumers
<1>7. CASE ProducerCommits
  BY Fields, <1>7 DEF ProducerCommits
<1>8. CASE StartRun
  BY Fields, <1>8 DEF StartRun
<1>9. CASE PrepareNothing
  BY Fields, <1>9 DEF PrepareNothing, Prepared
<1>10. CASE PrepareEvents
  BY Fields, <1>10 DEF PrepareEvents, Prepared
<1>11. CASE Mutate
  BY Fields, <1>11 DEF Mutate
<1>12. CASE ConsumerCommits
  BY Fields, <1>12 DEF ConsumerCommits
<1>13. CASE Complete
  BY Fields, <1>13 DEF Complete
<1>14. CASE FailTransient
  BY Fields, <1>14 DEF FailTransient
<1>15. CASE FailForGood("error") \/ FailForGood("maintenance")
  <2>1. UNCHANGED <<stored, wake>>
    BY <1>15, Zenon DEF FailForGood
  <2> QED BY <2>1
<1>16. ASSUME NEW w \in Workflows, ScheduleFires(w) PROVE WakesAreStored'
  BY Fields, <1>16 DEF ScheduleFires
<1>17. ASSUME NEW w \in Workflows, BackoffEnds(w) PROVE WakesAreStored'
  BY Fields, <1>17 DEF BackoffEnds
<1>18. ASSUME NEW w \in Workflows, NEW c \in Consumers, WakeComes(w, c) PROVE WakesAreStored'
  BY Fields, <1>18 DEF WakeComes
<1>19. CASE Restart
  BY Fields, <1>19 DEF Restart, Changing
<1>20. ASSUME NEW w \in Workflows, Pause(w) PROVE WakesAreStored'
  BY Fields, <1>20 DEF Pause, Changing
<1>21. ASSUME NEW w \in Workflows, Resume(w) PROVE WakesAreStored'
  BY Fields, <1>21 DEF Resume, Changing
<1>22. ASSUME NEW w \in Workflows, UserActivates(w) PROVE WakesAreStored'
  BY Fields, <1>22 DEF UserActivates, Activate, Changing
<1>23. ASSUME NEW w \in Workflows, FixIsActivated(w) PROVE WakesAreStored'
  BY Fields, <1>23 DEF FixIsActivated, Activate, Changing
<1> QED BY <1>1, <1>2, <1>3, <1>4, <1>5, <1>6, <1>7, <1>8, <1>9, <1>10, <1>11, <1>12, <1>13, <1>14, <1>15, <1>16, <1>17, <1>18, <1>19, <1>20, <1>21, <1>22, <1>23 DEF Next, Scheduler, Time, Outside

\* A fresh session is begun when no run waits to be retried, and a fix does not
\* make one wait while a session runs.
LEMMA FirstStep ==
    ASSUME SchedulingTypeOK, RetriesComeFirst, SessionsMayRun, [Next]_vars
    PROVE  RetriesComeFirst'
<1> USE DEF SchedulingTypeOK, ScriptTypes, RunTypes, RetriesComeFirst
<1>1. CASE UNCHANGED vars
  BY <1>1 DEF vars
<1>2. ASSUME NEW w \in Workflows, Track(w) PROVE RetriesComeFirst'
  BY <1>2, Fields DEF Track, Runnable
<1>3. CASE PickRetry
  BY <1>3, PickRetryEffect DEF PickRetry
<1>4. CASE RefuseRetry
  BY <1>4, Fields DEF RefuseRetry
<1>5. CASE PickScheduled
  BY <1>5, PickEffect DEF PickScheduled
<1>6. CASE PickConsumers
  BY <1>6, PickEffect DEF PickConsumers
<1>7. CASE ProducerCommits
  BY <1>7, MoveEffect DEF ProducerCommits
<1>8. CASE StartRun
  BY <1>8, MoveEffect DEF StartRun
<1>9. CASE PrepareNothing
  BY <1>9, MoveEffect DEF PrepareNothing, Prepared
<1>10. CASE PrepareEvents
  BY <1>10, MoveEffect DEF PrepareEvents, Prepared
<1>11. CASE Mutate
  BY <1>11, MoveEffect DEF Mutate
<1>12. CASE ConsumerCommits
  BY <1>12, MoveEffect DEF ConsumerCommits
<1>13. CASE Complete
  BY <1>13, OffIsNoSession DEF Complete
<1>14. CASE FailTransient
  BY <1>14, StopEffect, OffIsNoSession DEF RetriesComeFirst
<1>15. CASE FailForGood("error") \/ FailForGood("maintenance")
  BY <1>15, StopEffect, OffIsNoSession DEF RetriesComeFirst
<1>16. ASSUME NEW w \in Workflows, ScheduleFires(w) PROVE RetriesComeFirst'
  BY <1>16, Fields DEF ScheduleFires
<1>17. ASSUME NEW w \in Workflows, BackoffEnds(w) PROVE RetriesComeFirst'
  BY <1>17, Fields DEF BackoffEnds
<1>18. ASSUME NEW w \in Workflows, NEW c \in Consumers, WakeComes(w, c) PROVE RetriesComeFirst'
  BY <1>18, Fields DEF WakeComes
<1>19. CASE Restart
  BY <1>19, StopEffect, OffIsNoSession DEF RetriesComeFirst
<1>20. ASSUME NEW w \in Workflows, Pause(w) PROVE RetriesComeFirst'
  BY <1>20, Fields DEF Pause, Changing
<1>21. ASSUME NEW w \in Workflows, Resume(w) PROVE RetriesComeFirst'
  BY <1>21, Fields DEF Resume, Changing
<1>22. ASSUME NEW w \in Workflows, UserActivates(w) PROVE RetriesComeFirst'
  BY <1>22, Fields DEF UserActivates, Activate, Changing
<1>23. ASSUME NEW w \in Workflows, FixIsActivated(w) PROVE RetriesComeFirst'
  BY <1>23, Fields DEF FixIsActivated, Activate, SessionsMayRun
<1> QED BY <1>1, <1>2, <1>3, <1>4, <1>5, <1>6, <1>7, <1>8, <1>9, <1>10, <1>11, <1>12, <1>13, <1>14, <1>15, <1>16, <1>17, <1>18, <1>19, <1>20, <1>21, <1>22, <1>23 DEF Next, Scheduler, Time, Outside

\* What stops a workflow ends its session.
LEMMA MayRunStep ==
    ASSUME SchedulingTypeOK, SessionsMayRun, [Next]_vars
    PROVE  SessionsMayRun'
<1> USE DEF SchedulingTypeOK, ScriptTypes, SessionsMayRun
<1>1. CASE UNCHANGED vars
  BY <1>1 DEF vars
<1>2. ASSUME NEW w \in Workflows, Track(w) PROVE SessionsMayRun'
  BY <1>2, Fields DEF Track, Runnable
<1>3. CASE PickRetry
  BY <1>3, PickRetryEffect DEF PickRetry
<1>4. CASE RefuseRetry
  BY <1>4, Fields DEF RefuseRetry
<1>5. CASE PickScheduled
  BY <1>5, PickEffect DEF PickScheduled
<1>6. CASE PickConsumers
  BY <1>6, PickEffect DEF PickConsumers
<1>7. CASE ProducerCommits
  BY <1>7, MoveEffect DEF ProducerCommits
<1>8. CASE StartRun
  BY <1>8, MoveEffect DEF StartRun
<1>9. CASE PrepareNothing
  BY <1>9, MoveEffect DEF PrepareNothing, Prepared
<1>10. CASE PrepareEvents
  BY <1>10, MoveEffect DEF PrepareEvents, Prepared
<1>11. CASE Mutate
  BY <1>11, MoveEffect DEF Mutate
<1>12. CASE ConsumerCommits
  BY <1>12, MoveEffect DEF ConsumerCommits
<1>13. CASE Complete
  BY <1>13, OffIsNoSession DEF Complete
<1>14. CASE FailTransient
  BY <1>14, OffIsNoSession DEF FailTransient
<1>15. CASE FailForGood("error") \/ FailForGood("maintenance")
  BY <1>15, OffIsNoSession DEF FailForGood
<1>16. ASSUME NEW w \in Workflows, ScheduleFires(w) PROVE SessionsMayRun'
  BY <1>16, Fields DEF ScheduleFires
<1>17. ASSUME NEW w \in Workflows, BackoffEnds(w) PROVE SessionsMayRun'
  BY <1>17, Fields DEF BackoffEnds
<1>18. ASSUME NEW w \in Workflows, NEW c \in Consumers, WakeComes(w, c) PROVE SessionsMayRun'
  BY <1>18, Fields DEF WakeComes
<1>19. CASE Restart
  BY <1>19, OffIsNoSession DEF Restart
<1>20. ASSUME NEW w \in Workflows, Pause(w) PROVE SessionsMayRun'
  BY <1>20, Fields DEF Pause, Changing
<1>21. ASSUME NEW w \in Workflows, Resume(w) PROVE SessionsMayRun'
  BY <1>21, Fields DEF Resume, Changing
<1>22. ASSUME NEW w \in Workflows, UserActivates(w) PROVE SessionsMayRun'
  BY <1>22, Fields DEF UserActivates, Activate, Changing
<1>23. ASSUME NEW w \in Workflows, FixIsActivated(w) PROVE SessionsMayRun'
  BY <1>23, Fields DEF FixIsActivated, Activate, Changing
<1> QED BY <1>1, <1>2, <1>3, <1>4, <1>5, <1>6, <1>7, <1>8, <1>9, <1>10, <1>11, <1>12, <1>13, <1>14, <1>15, <1>16, <1>17, <1>18, <1>19, <1>20, <1>21, <1>22, <1>23 DEF Next, Scheduler, Time, Outside

\* The run the maintainer works on is the one that waits to be retried.
LEMMA BrokenStep ==
    ASSUME SchedulingTypeOK, SessionsMayRun, BrokenIsRetried, [Next]_vars
    PROVE  BrokenIsRetried'
<1> USE DEF SchedulingTypeOK, ScriptTypes, RunTypes, BrokenIsRetried
<1>1. CASE UNCHANGED vars
  BY <1>1 DEF vars
<1>2. ASSUME NEW w \in Workflows, Track(w) PROVE BrokenIsRetried'
  BY <1>2, Fields DEF Track, Runnable
<1>3. CASE PickRetry
  BY <1>3, PickRetryEffect DEF PickRetry
<1>4. CASE RefuseRetry
  BY <1>4, Fields DEF RefuseRetry
<1>5. CASE PickScheduled
  BY <1>5, PickEffect DEF PickScheduled
<1>6. CASE PickConsumers
  BY <1>6, PickEffect DEF PickConsumers
<1>7. CASE ProducerCommits
  BY <1>7, MoveEffect DEF ProducerCommits
<1>8. CASE StartRun
  BY <1>8, MoveEffect DEF StartRun
<1>9. CASE PrepareNothing
  BY <1>9, MoveEffect DEF PrepareNothing, Prepared
<1>10. CASE PrepareEvents
  BY <1>10, MoveEffect DEF PrepareEvents, Prepared
<1>11. CASE Mutate
  BY <1>11, MoveEffect DEF Mutate
<1>12. CASE ConsumerCommits
  BY <1>12, MoveEffect DEF ConsumerCommits
<1>13. CASE Complete
  BY <1>13, OffIsNoSession DEF Complete
<1>14. CASE FailTransient
  BY <1>14, StopEffect, Fields DEF FailTransient, Running, SessionsMayRun
<1>15. CASE FailForGood("error") \/ FailForGood("maintenance")
  <2>1. PICK why \in {"error", "maintenance"} : FailForGood(why)
    BY <1>15
  <2>2. /\ session.w \in Workflows /\ halt' = [halt EXCEPT ![session.w] = why]
        /\ broken' = [broken EXCEPT ![session.w] = IF why = "error" THEN broken[session.w]
                                       ELSE IF session.step = "emit" THEN session.c ELSE Refused]
    BY <2>1, Fields DEF FailForGood, Running
  <2>3. \/ retry' = retry /\ session.step # "emit"
        \/ /\ session.step = "emit" /\ retry' = [retry EXCEPT ![session.w] = session.c]
    BY <2>1, Zenon DEF FailForGood, Disposed
  <2> QED BY <2>2, <2>3 DEF SessionsMayRun
<1>16. ASSUME NEW w \in Workflows, ScheduleFires(w) PROVE BrokenIsRetried'
  BY <1>16, Fields DEF ScheduleFires
<1>17. ASSUME NEW w \in Workflows, BackoffEnds(w) PROVE BrokenIsRetried'
  BY <1>17, Fields DEF BackoffEnds
<1>18. ASSUME NEW w \in Workflows, NEW c \in Consumers, WakeComes(w, c) PROVE BrokenIsRetried'
  BY <1>18, Fields DEF WakeComes
<1>19. CASE Restart
  BY <1>19, StopEffect, Fields DEF Restart, Running, SessionsMayRun
<1>20. ASSUME NEW w \in Workflows, Pause(w) PROVE BrokenIsRetried'
  BY <1>20, Fields DEF Pause, Changing
<1>21. ASSUME NEW w \in Workflows, Resume(w) PROVE BrokenIsRetried'
  BY <1>21, Fields DEF Resume, Changing
<1>22. ASSUME NEW w \in Workflows, UserActivates(w) PROVE BrokenIsRetried'
  BY <1>22, Fields DEF UserActivates, Activate, Changing
<1>23. ASSUME NEW w \in Workflows, FixIsActivated(w) PROVE BrokenIsRetried'
  BY <1>23 DEF FixIsActivated, Activate
<1> QED BY <1>1, <1>2, <1>3, <1>4, <1>5, <1>6, <1>7, <1>8, <1>9, <1>10, <1>11, <1>12, <1>13, <1>14, <1>15, <1>16, <1>17, <1>18, <1>19, <1>20, <1>21, <1>22, <1>23 DEF Next, Scheduler, Time, Outside

\* A run that has reserved events was called, and stays so until it ends.
LEMMA CalledStep ==
    ASSUME SchedulingTypeOK, RunWasCalled, [Next]_vars
    PROVE  RunWasCalled'
<1> USE DEF SchedulingTypeOK, RunWasCalled
<1>1. CASE UNCHANGED vars
  BY <1>1 DEF vars
<1>2. ASSUME NEW w \in Workflows, Track(w) PROVE RunWasCalled'
  BY <1>2, Fields DEF Track, Runnable
<1>3. CASE PickRetry
  BY <1>3, PickRetryEffect DEF PickRetry
<1>4. CASE RefuseRetry
  BY <1>4, Fields DEF RefuseRetry
<1>5. CASE PickScheduled
  BY <1>5, PickEffect DEF PickScheduled
<1>6. CASE PickConsumers
  BY <1>6, PickEffect DEF PickConsumers
<1>7. CASE ProducerCommits
  BY <1>7, MoveEffect DEF ProducerCommits
<1>8. CASE StartRun
  BY <1>8, MoveEffect DEF StartRun
<1>9. CASE PrepareNothing
  BY <1>9, MoveEffect DEF PrepareNothing, Prepared
<1>10. CASE PrepareEvents
  <2>1. /\ session.w \in Workflows /\ session.c \in Consumers
        /\ session'.w = session.w /\ session'.c = session.c
    BY <1>10, PrepareEffect
  <2>2. woken' = [woken EXCEPT ![session.w][session.c] = woken[session.w][session.c] \/ ~dirty[session.w][session.c]] /\ dirty' = dirty
    BY <1>10 DEF PrepareEvents
  <2>3. woken'[session.w][session.c] \/ dirty'[session.w][session.c]
    BY <2>1, <2>2, Zenon DEF Flags
  <2> QED BY <2>1, <2>3
<1>11. CASE Mutate
  BY <1>11, MoveEffect DEF Mutate
<1>12. CASE ConsumerCommits
  BY <1>12, MoveEffect DEF ConsumerCommits
<1>13. CASE Complete
  BY <1>13, OffIsNoSession DEF Complete
<1>14. CASE FailTransient
  BY <1>14, OffIsNoSession DEF FailTransient
<1>15. CASE FailForGood("error") \/ FailForGood("maintenance")
  BY <1>15, OffIsNoSession DEF FailForGood
<1>16. ASSUME NEW w \in Workflows, ScheduleFires(w) PROVE RunWasCalled'
  BY <1>16, Fields DEF ScheduleFires
<1>17. ASSUME NEW w \in Workflows, BackoffEnds(w) PROVE RunWasCalled'
  BY <1>17, Fields DEF BackoffEnds
<1>18. ASSUME NEW w \in Workflows, NEW c \in Consumers, WakeComes(w, c) PROVE RunWasCalled'
  BY <1>18, Fields DEF WakeComes
<1>19. CASE Restart
  BY <1>19, OffIsNoSession DEF Restart
<1>20. ASSUME NEW w \in Workflows, Pause(w) PROVE RunWasCalled'
  BY <1>20, Fields DEF Pause, Changing
<1>21. ASSUME NEW w \in Workflows, Resume(w) PROVE RunWasCalled'
  BY <1>21, Fields DEF Resume, Changing
<1>22. ASSUME NEW w \in Workflows, UserActivates(w) PROVE RunWasCalled'
  BY <1>22, Fields DEF UserActivates, Activate, Changing
<1>23. ASSUME NEW w \in Workflows, FixIsActivated(w) PROVE RunWasCalled'
  BY <1>23, Fields DEF FixIsActivated, Activate, Changing
<1> QED BY <1>1, <1>2, <1>3, <1>4, <1>5, <1>6, <1>7, <1>8, <1>9, <1>10, <1>11, <1>12, <1>13, <1>14, <1>15, <1>16, <1>17, <1>18, <1>19, <1>20, <1>21, <1>22, <1>23 DEF Next, Scheduler, Time, Outside

\* Only an empty run makes a consumer clean, and what is released comes back to
\* one that is dirty or was woken.
LEMMA WakeupStep ==
    ASSUME SchedulingTypeOK, RunWasCalled, NoLostWakeup, [Next]_vars
    PROVE  NoLostWakeup'
<1> USE DEF SchedulingTypeOK
<1>0. UNCHANGED <<tracked, script, pending, dirty, declined, woken>> => NoLostWakeup'
  BY DEF NoLostWakeup
<1>1. CASE UNCHANGED vars
  BY <1>0, <1>1 DEF vars
<1>2. ASSUME NEW w \in Workflows, Track(w) PROVE NoLostWakeup'
  <2> SUFFICES ASSUME NEW v \in Workflows, NEW d \in Consumers, tracked'[v] = script'[v],
                      pending'[v][d] > declined'[v][d], ~woken'[v][d]
               PROVE  dirty'[v][d]
    BY DEF NoLostWakeup
  <2>0. pending[v][d] \in Nat /\ declined[v][d] \in Nat
    BY PendingsAreNumbers
  <2>1. /\ tracked' = [tracked EXCEPT ![w] = script[w]] /\ UNCHANGED <<script, pending, declined, woken>>
        /\ dirty' = [dirty EXCEPT ![w] = [c \in Consumers |-> TRUE]]
    BY <1>2 DEF Track
  <2>2. CASE v = w
    BY <2>1, <2>2 DEF Flags
  <2>3. CASE v # w
    BY <2>1, <2>3 DEF Flags, ScriptTypes, NoLostWakeup
  <2> QED BY <2>2, <2>3
<1>3. CASE PickRetry
  BY <1>0, <1>3 DEF PickRetry
<1>4. CASE RefuseRetry
  BY <1>0, <1>4 DEF RefuseRetry
<1>5. CASE PickScheduled
  BY <1>0, <1>5 DEF PickScheduled
<1>6. CASE PickConsumers
  BY <1>0, <1>6 DEF PickConsumers
<1>7. CASE ProducerCommits
  <2> SUFFICES ASSUME NEW v \in Workflows, NEW d \in Consumers, tracked'[v] = script'[v],
                      pending'[v][d] > declined'[v][d], ~woken'[v][d]
               PROVE  dirty'[v][d]
    BY DEF NoLostWakeup
  <2>0. pending[v][d] \in Nat /\ declined[v][d] \in Nat
    BY PendingsAreNumbers
  <2>1. session.w \in Workflows /\ UNCHANGED <<tracked, script, declined, woken>>
    BY <1>7, Fields DEF ProducerCommits
  <2>2. PICK S \in SUBSET Consumers : Publish(S)
    BY <1>7 DEF ProducerCommits
  <2>3. (dirty[v][d] => dirty'[v][d]) /\ (pending'[v][d] = pending[v][d] \/ dirty'[v][d])
    BY <2>1, <2>2, PublishEffect
  <2> QED BY <2>1, <2>3 DEF NoLostWakeup
<1>8. CASE StartRun
  BY <1>0, <1>8 DEF StartRun
<1>9. CASE PrepareNothing
  <2> SUFFICES ASSUME NEW v \in Workflows, NEW d \in Consumers, tracked'[v] = script'[v],
                      pending'[v][d] > declined'[v][d], ~woken'[v][d]
               PROVE  dirty'[v][d]
    BY DEF NoLostWakeup
  <2>0. pending[v][d] \in Nat /\ declined[v][d] \in Nat
    BY PendingsAreNumbers
  <2>1. /\ session.w \in Workflows /\ session.c \in Consumers /\ UNCHANGED <<tracked, script>>
        /\ dirty' = [dirty EXCEPT ![session.w][session.c] = FALSE]
        /\ declined' = [declined EXCEPT ![session.w][session.c] = pending[session.w][session.c]]
        /\ woken' = [woken EXCEPT ![session.w][session.c] = FALSE]
    BY <1>9, Fields DEF PrepareNothing, Prepared
  <2>2. PICK time \in {"none", "later"} : Prepared(0, time)
    BY <1>9 DEF PrepareNothing
  <2>3. 0 \in Nat /\ pending[session.w][session.c] \in Nat /\ 0 <= pending[session.w][session.c]
    BY <2>1, PendingsAreNumbers
  <2>4. pending'[v][d] = pending[v][d]
    BY <2>1, <2>2, <2>3, PreparedEffect
  <2>5. CASE v = session.w /\ d = session.c
    <3>1. declined'[v][d] = pending[v][d]
      BY <2>1, <2>5 DEF ConsumerTypes
    <3> QED BY <2>0, <2>4, <3>1
  <2>6. CASE ~(v = session.w /\ d = session.c)
    <3>1. declined'[v][d] = declined[v][d]
      BY <2>1, <2>6 DEF ConsumerTypes
    <3>2. (woken'[v][d] <=> woken[v][d]) /\ (dirty'[v][d] <=> dirty[v][d])
      BY <2>1, <2>6 DEF Flags
    <3> QED BY <2>1, <2>4, <3>1, <3>2 DEF NoLostWakeup
  <2> QED BY <2>5, <2>6
<1>10. CASE PrepareEvents
  <2> SUFFICES ASSUME NEW v \in Workflows, NEW d \in Consumers, tracked'[v] = script'[v],
                      pending'[v][d] > declined'[v][d], ~woken'[v][d]
               PROVE  dirty'[v][d]
    BY DEF NoLostWakeup
  <2>0. pending[v][d] \in Nat /\ declined[v][d] \in Nat
    BY PendingsAreNumbers
  <2>1. UNCHANGED <<tracked, script, dirty>>
        /\ woken' = [woken EXCEPT ![session.w][session.c] = woken[session.w][session.c] \/ ~dirty[session.w][session.c]]
    BY <1>10 DEF PrepareEvents, Prepared
  <2>2. PICK n \in 1 .. MaxEvents :
            /\ session.w \in Workflows /\ session.c \in Consumers
            /\ pending' \in [Workflows -> [Consumers -> 0 .. MaxEvents]]
            /\ pending[session.w][session.c] = pending'[session.w][session.c] + n
            /\ v # session.w \/ d # session.c => pending'[v][d] = pending[v][d]
            /\ declined' = [declined EXCEPT ![session.w][session.c] =
                    IF declined[session.w][session.c] < pending'[session.w][session.c]
                    THEN declined[session.w][session.c] ELSE pending'[session.w][session.c]]
    BY <1>10, PrepareEffect
  <2>3. CASE v = session.w /\ d = session.c
    <3>1. woken'[v][d] <=> woken[v][d] \/ ~dirty[v][d]
      BY <2>1, <2>2, <2>3, Zenon DEF Flags
    <3> QED BY <2>1, <3>1
  <2>4. CASE ~(v = session.w /\ d = session.c)
    <3>1. declined'[v][d] = declined[v][d]
      BY <2>2, <2>4 DEF ConsumerTypes
    <3>2. woken'[v][d] <=> woken[v][d]
      BY <2>1, <2>2, <2>4 DEF Flags
    <3> QED BY <2>1, <2>2, <2>4, <3>1, <3>2 DEF NoLostWakeup
  <2> QED BY <2>3, <2>4
<1>11. CASE Mutate
  BY <1>0, <1>11 DEF Mutate
<1>12. CASE ConsumerCommits
  <2> SUFFICES ASSUME NEW v \in Workflows, NEW d \in Consumers, tracked'[v] = script'[v],
                      pending'[v][d] > declined'[v][d], ~woken'[v][d]
               PROVE  dirty'[v][d]
    BY DEF NoLostWakeup
  <2>0. pending[v][d] \in Nat /\ declined[v][d] \in Nat
    BY PendingsAreNumbers
  <2>1. session.w \in Workflows /\ UNCHANGED <<tracked, script, declined, woken>>
    BY <1>12, Fields DEF ConsumerCommits
  <2>2. PICK S \in SUBSET Consumers : Publish(S)
    BY <1>12 DEF ConsumerCommits
  <2>3. (dirty[v][d] => dirty'[v][d]) /\ (pending'[v][d] = pending[v][d] \/ dirty'[v][d])
    BY <2>1, <2>2, PublishEffect
  <2> QED BY <2>1, <2>3 DEF NoLostWakeup
<1>13. CASE Complete
  BY <1>0, <1>13 DEF Complete
<1>14. CASE FailTransient
  <2> SUFFICES ASSUME NEW v \in Workflows, NEW d \in Consumers, tracked'[v] = script'[v],
                      pending'[v][d] > declined'[v][d], ~woken'[v][d]
               PROVE  dirty'[v][d]
    BY DEF NoLostWakeup
  <2>0. pending[v][d] \in Nat /\ declined[v][d] \in Nat
    BY PendingsAreNumbers
  <2>1. UNCHANGED <<tracked, script, dirty, declined, woken>>
    BY <1>14 DEF FailTransient
  <2>2. \/ pending'[v][d] = pending[v][d]
        \/ session.step = "mutate" /\ v = session.w /\ d = session.c
    BY <1>14, StopEffect
  <2> QED BY <2>1, <2>2 DEF NoLostWakeup, RunWasCalled
<1>15. CASE FailForGood("error") \/ FailForGood("maintenance")
  <2> SUFFICES ASSUME NEW v \in Workflows, NEW d \in Consumers, tracked'[v] = script'[v],
                      pending'[v][d] > declined'[v][d], ~woken'[v][d]
               PROVE  dirty'[v][d]
    BY DEF NoLostWakeup
  <2>0. pending[v][d] \in Nat /\ declined[v][d] \in Nat
    BY PendingsAreNumbers
  <2>1. UNCHANGED <<tracked, script, dirty, declined, woken>>
    BY <1>15 DEF FailForGood
  <2>2. \/ pending'[v][d] = pending[v][d]
        \/ session.step = "mutate" /\ v = session.w /\ d = session.c
    BY <1>15, StopEffect
  <2> QED BY <2>1, <2>2 DEF NoLostWakeup, RunWasCalled
<1>16. ASSUME NEW w \in Workflows, ScheduleFires(w) PROVE NoLostWakeup'
  BY <1>0, <1>16 DEF ScheduleFires
<1>17. ASSUME NEW w \in Workflows, BackoffEnds(w) PROVE NoLostWakeup'
  BY <1>0, <1>17 DEF BackoffEnds
<1>18. ASSUME NEW w \in Workflows, NEW c \in Consumers, WakeComes(w, c) PROVE NoLostWakeup'
  BY <1>0, <1>18 DEF WakeComes
<1>19. CASE Restart
  <2> SUFFICES ASSUME NEW v \in Workflows, NEW d \in Consumers, tracked'[v] = script'[v],
                      pending'[v][d] > declined'[v][d], ~woken'[v][d]
               PROVE  dirty'[v][d]
    BY DEF NoLostWakeup
  <2>0. pending[v][d] \in Nat /\ declined[v][d] \in Nat
    BY PendingsAreNumbers
  <2>1. /\ tracked' = [u \in Workflows |-> IF active[u] THEN script[u] ELSE 0]
        /\ dirty' = [u \in Workflows |-> [c \in Consumers |-> active[u]]] /\ script' = script
    BY <1>19 DEF Restart
  <2>2. CASE active[v]
    BY <2>1, <2>2 DEF Flags
  <2>3. CASE ~active[v]
    BY <2>1, <2>3 DEF ScriptTypes
  <2> QED BY <2>2, <2>3
<1>20. ASSUME NEW w \in Workflows, Pause(w) PROVE NoLostWakeup'
  BY <1>0, <1>20 DEF Pause, Changing
<1>21. ASSUME NEW w \in Workflows, Resume(w) PROVE NoLostWakeup'
  BY <1>0, <1>21 DEF Resume, Changing
<1>22. ASSUME NEW w \in Workflows, UserActivates(w) PROVE NoLostWakeup'
  <2> SUFFICES ASSUME NEW v \in Workflows, NEW d \in Consumers, tracked'[v] = script'[v],
                      pending'[v][d] > declined'[v][d], ~woken'[v][d]
               PROVE  dirty'[v][d]
    BY DEF NoLostWakeup
  <2>0. pending[v][d] \in Nat /\ declined[v][d] \in Nat
    BY PendingsAreNumbers
  <2>1. script' = [script EXCEPT ![w] = script[w] + 1] /\ UNCHANGED <<tracked, dirty, declined, woken, pending>>
    BY <1>22 DEF UserActivates, Activate
  <2>2. tracked[w] # script[w] + 1
    BY DEF ScriptTypes
  <2>3. v # w /\ script'[v] = script[v]
    BY <2>1, <2>2 DEF ScriptTypes
  <2> QED BY <2>1, <2>3 DEF NoLostWakeup
<1>23. ASSUME NEW w \in Workflows, FixIsActivated(w) PROVE NoLostWakeup'
  <2> SUFFICES ASSUME NEW v \in Workflows, NEW d \in Consumers, tracked'[v] = script'[v],
                      pending'[v][d] > declined'[v][d], ~woken'[v][d]
               PROVE  dirty'[v][d]
    BY DEF NoLostWakeup
  <2>0. pending[v][d] \in Nat /\ declined[v][d] \in Nat
    BY PendingsAreNumbers
  <2>1. script' = [script EXCEPT ![w] = script[w] + 1] /\ UNCHANGED <<tracked, dirty, declined, woken, pending>>
    BY <1>23 DEF FixIsActivated, Activate
  <2>2. tracked[w] # script[w] + 1
    BY DEF ScriptTypes
  <2>3. v # w /\ script'[v] = script[v]
    BY <2>1, <2>2 DEF ScriptTypes
  <2> QED BY <2>1, <2>3 DEF NoLostWakeup
<1> QED BY <1>1, <1>2, <1>3, <1>4, <1>5, <1>6, <1>7, <1>8, <1>9, <1>10, <1>11, <1>12, <1>13, <1>14, <1>15, <1>16, <1>17, <1>18, <1>19, <1>20, <1>21, <1>22, <1>23 DEF Next, Scheduler, Time, Outside

\* Init is inside the invariant.
LEMMA InitHolds == Init => SchedulingInv /\ NoLostWakeup
<1> SUFFICES ASSUME Init PROVE SchedulingInv /\ NoLostWakeup
  OBVIOUS
<1>1. Flags
  BY Zenon DEF Init, Flags
<1>2. ScriptTypes /\ RunTypes /\ ConsumerTypes /\ CounterTypes
  BY Bounds DEF Init, ScriptTypes, RunTypes, RunRef, ConsumerTypes, CounterTypes
<1>3. SessionTypes
  BY OffIsNoSession DEF Init, SessionTypes
<1>4. WakesAreStored /\ RetriesComeFirst /\ SessionsMayRun /\ BrokenIsRetried /\ RunWasCalled
  BY OffIsNoSession DEF Init, WakesAreStored, RetriesComeFirst, SessionsMayRun, BrokenIsRetried, RunWasCalled
<1>5. NothingIsDoubled
  BY OffIsNoSession, Bounds DEF Init, NothingIsDoubled, InRun, ToRetry
<1>6. NoLostWakeup
  BY DEF Init, NoLostWakeup
<1> QED BY <1>1, <1>2, <1>3, <1>4, <1>5, <1>6 DEF SchedulingInv, SchedulingTypeOK

\* The scheduler's state is in order: wake-up times are stored, retries come
\* first, what runs may run, and no event is in two places.
THEOREM SchedulingIsSafe == Spec => []SchedulingInv
<1>1. ASSUME SchedulingInv, [Next]_vars PROVE SchedulingInv'
  <2> USE DEF SchedulingInv
  <2>1. Flags' /\ ScriptTypes' /\ RunTypes' /\ SessionTypes' /\ CounterTypes'
    BY <1>1, FlagsStep, ScriptTypesStep, RunTypesStep, SessionTypesStep, CounterTypesStep DEF SchedulingTypeOK
  <2>2. NothingIsDoubled'
    BY <1>1, DoubledStep
  <2>3. ConsumerTypes'
    BY <1>1, <2>1, <2>2, ConsumerTypesStep
  <2>4. WakesAreStored' /\ RetriesComeFirst' /\ SessionsMayRun' /\ BrokenIsRetried' /\ RunWasCalled'
    BY <1>1, StoredStep, FirstStep, MayRunStep, BrokenStep, CalledStep
  <2> QED BY <2>1, <2>2, <2>3, <2>4 DEF SchedulingTypeOK
<1> QED BY InitHolds, <1>1, PTL DEF Spec

\* An event that no empty run of its consumer has passed over keeps the
\* consumer dirty, whatever fails, is retried, restarted or activated.
THEOREM WakeupsAreNotLost == Spec => []NoLostWakeup
<1>1. ASSUME SchedulingInv, NoLostWakeup, [Next]_vars PROVE NoLostWakeup'
  BY <1>1, WakeupStep DEF SchedulingInv
<1> QED BY InitHolds, <1>1, SchedulingIsSafe, PTL DEF Spec
=============================================================================
