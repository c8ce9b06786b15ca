----------------------------- MODULE EventLedger -----------------------------
(* What the execution model promises about the events of a workflow,         *)
(* whatever scheduler, reconciliation, maintainer, user and crashes do:      *)
(*   - an event is published once and is handled (consumed or skipped) once; *)
(*   - a run takes events at most once in its life, from the pending ones or *)
(*     from one other run that gives up all of its own;                      *)
(*   - a run gives up all the events it holds in one step, whether they go   *)
(*     back, are consumed, are skipped or pass to its retry.                 *)
EXTENDS Naturals

CONSTANTS Runs, Events, NoRun

VARIABLES
    state,    \* of each event
    holder,   \* the run that holds a reserved event
    took      \* the runs that have taken their events

vars == <<state, holder, took>>

Held(r) == {e \in Events : holder[e] = r}

Init ==
    /\ state = [e \in Events |-> "absent"]
    /\ holder = [e \in Events |-> NoRun]
    /\ took = {}

Put(S, s, r) ==
    /\ state' = [e \in Events |-> IF e \in S THEN s ELSE state[e]]
    /\ holder' = [e \in Events |-> IF e \in S THEN r ELSE holder[e]]

Publish(e) == state[e] = "absent" /\ Put({e}, "pending", NoRun) /\ UNCHANGED took

Reserve(r, S) ==
    /\ r \notin took
    /\ \A e \in S : state[e] = "pending"
    /\ Put(S, "reserved", r)
    /\ took' = took \cup {r}

HandOver(r, q) ==
    /\ r \in took /\ q \notin took
    /\ Put(Held(r), "reserved", q)
    /\ took' = took \cup {q}

GiveUp(r, s) ==
    /\ r \in took
    /\ Put(Held(r), s, NoRun)
    /\ UNCHANGED took

Next ==
    \/ \E e \in Events : Publish(e)
    \/ \E r \in Runs, S \in SUBSET Events : Reserve(r, S)
    \/ \E r, q \in Runs : HandOver(r, q)
    \/ \E r \in Runs, s \in {"pending", "consumed", "skipped"} : GiveUp(r, s)

Spec == Init /\ [][Next]_vars
=============================================================================
