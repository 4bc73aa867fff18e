---------------------------- MODULE MCSessions ----------------------------
(* Instances of Sessions for TLC.                                          *)
EXTENDS Sessions, TLC

CONSTANTS c1, c2, h1, h2, none, o1, o2, o3, o4, o5, o6

\* Two channels on one connection, and one.
BothOnOne == (h1 :> c1) @@ (h2 :> c1)
Single == h1 :> c1
====
