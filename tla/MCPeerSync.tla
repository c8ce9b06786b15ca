----------------------------- MODULE MCPeerSync -----------------------------
(***************************************************************************)
(* The instances of PeerSync that TLC checks: client 1 writes, client 2    *)
(* gets what it wrote through the server; and the server writes as well,   *)
(* beside the syncPeer that tells client 2 of client 1.                    *)
(***************************************************************************)
EXTENDS PeerSync

MCInitial == (0 :> 0) @@ (1 :> 1) @@ (2 :> 0)
MCWrites == (0 :> 0) @@ (1 :> 2) @@ (2 :> 0)

TwoWritersInitial == (0 :> 1) @@ (1 :> 1) @@ (2 :> 0)
TwoWritersWrites == (0 :> 3) @@ (1 :> 1) @@ (2 :> 0)
=============================================================================
