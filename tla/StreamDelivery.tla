----------------------------- MODULE StreamDelivery -----------------------------
(***************************************************************************)
(* What a stream promises the consumer that iterates over it: the parts of *)
(* a file from the first on, then one end. Only a whole file is done.      *)
(***************************************************************************)
EXTENDS Naturals

VARIABLES parts,    \* parts of the file
          given,    \* parts the consumer was given, from the first on
          outcome   \* how the stream ended for the consumer

Init == parts \in Nat /\ given = 0 /\ outcome = "no"

Give ==
    /\ outcome = "no"
    /\ given' \in given .. parts
    /\ UNCHANGED <<parts, outcome>>

End ==
    /\ outcome = "no"
    /\ outcome' \in {"done", "error", "left"}
    /\ outcome' = "done" => given = parts
    /\ UNCHANGED <<parts, given>>

Spec == Init /\ [][Give \/ End]_<<parts, given, outcome>>
=============================================================================
