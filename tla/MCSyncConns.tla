---------------------------- MODULE MCSyncConns ----------------------------
(* Instances of SyncConns for TLC.                                         *)
EXTENDS SyncConns, TLC

CONSTANTS k1, k2, a1, a2

\* An address that connects twice, and two addresses.
Twice == (k1 :> a1) @@ (k2 :> a1)
Distinct == (k1 :> a1) @@ (k2 :> a2)
====
