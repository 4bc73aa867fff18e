--------------------------- MODULE MCClusterSync ---------------------------
(* Instances of ClusterSync for TLC.                                       *)
EXTENDS ClusterSync, TLC

CONSTANTS n1, n2, n3, i1, i2, i12

\* Two nodes, and three in a line.
Pair == (n1 :> {n2}) @@ (n2 :> {n1})
Line == (n1 :> {n2}) @@ (n2 :> {n1, n3}) @@ (n3 :> {n2})

TwoOrder == <<"hosts", "users">>
PasswordsOrder == <<"passwords">>

\* Items of one word; i12 consists of the words i1 and i2.
OneWord == [i \in Items |-> {i}]
TwoWords == [i \in Items |-> IF i = i12 THEN {i1, i2} ELSE {i}]

\* Only the node at the end of the line whitelists i1.
EndKnows == [n \in Nodes |-> IF n = n3 THEN {i1} ELSE {}]
NoWhitelist == [n \in Nodes |-> {}]
====
