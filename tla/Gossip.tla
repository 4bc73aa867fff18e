------------------------------- MODULE Gossip -------------------------------
(***************************************************************************)
(* What the cluster synchronisation promises, without fingerprints, lists, *)
(* chunks and failing exchanges: every node keeps all it has ever known of *)
(* a section, learns what it does not refuse from a neighbour that knows   *)
(* it, under the same section, and does so sooner or later.                *)
(***************************************************************************)
CONSTANTS Nodes,
          Sections,
          Items,
          Pushes,    \* node -> the neighbours it pushes to
          Refused    \* node -> section -> what it does not take in

VARIABLE known       \* node -> section -> items

Init == known = [n \in Nodes |-> [s \in Sections |-> {}]]

\* Items that node n may yet learn in section s.
Learnable(n, s) ==
    (UNION {known[m][s] : m \in {m \in Nodes : n \in Pushes[m]}})
        \ (known[n][s] \cup Refused[n][s])

\* An attacker brings an item to node n.
Bring(n, s, i) ==
    /\ i \in Items \ Refused[n][s]
    /\ known' = [known EXCEPT ![n][s] = @ \cup {i}]

\* Node n learns item i, maybe with others.
Learn(n, s, i) ==
    \E news \in SUBSET Learnable(n, s) :
        /\ i \in news
        /\ known' = [known EXCEPT ![n][s] = @ \cup news]

Next == \E n \in Nodes, s \in Sections, i \in Items :
            Bring(n, s, i) \/ Learn(n, s, i)

Spec == /\ Init /\ [][Next]_known
        /\ \A n \in Nodes, s \in Sections, i \in Items :
              WF_known(Learn(n, s, i))
====
