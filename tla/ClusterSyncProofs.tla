------------------------- MODULE ClusterSyncProofs -------------------------
(***************************************************************************)
(* Proofs about ClusterSync for any cluster, any neighbourhood and any     *)
(* loot: its types, that no node takes in what it whitelists, and, for     *)
(* items of one word, that nothing is invented and that every step is one  *)
(* of Gossip or changes nothing a node knows.                              *)
(***************************************************************************)
EXTENDS ClusterSync, NaturalsInduction, WellFoundedInduction, TLAPS

-----------------------------------------------------------------------------
(* The order of the sections                                               *)

\* A set of natural numbers has a least one.
LEMMA LeastNatural ==
    ASSUME NEW T \in SUBSET Nat, T # {}
    PROVE  \E x \in T : \A y \in T : x <= y
<1>1. IsWellFoundedOn(OpToRel(<, Nat), Nat) BY NatLessThanWellFounded
<1>2. PICK x \in T : \A y \in T : ~(<<y, x>> \in OpToRel(<, Nat))
  BY <1>1, WFMin
<1>3. \A y \in T : ~(y < x) BY <1>2 DEF OpToRel
<1>. QED BY <1>3

\* The section a worker is at is one of those still to sync.
LEMMA FirstSection ==
    ASSUME NEW todo \in SUBSET Sections, todo # {}
    PROVE  SectionOrder[FirstPlace(todo)] \in todo
<1>. DEFINE T == {k \in DOMAIN SectionOrder : SectionOrder[k] \in todo}
<1>1. DOMAIN SectionOrder = 1..Len(SectionOrder) /\ Len(SectionOrder) \in Nat
  BY ClusterAssumption
<1>2. T \in SUBSET Nat BY <1>1
<1>3. T # {}
  <2>1. PICK s \in todo : TRUE OBVIOUS
  <2>2. s \in Sections OBVIOUS
  <2>3. PICK k \in DOMAIN SectionOrder : SectionOrder[k] = s
    BY <2>2, ClusterAssumption
  <2>. QED BY <2>3
<1>4. PICK x \in T : \A y \in T : x <= y BY <1>2, <1>3, LeastNatural
<1>5. \A j \in 1..(x - 1) : SectionOrder[j] \notin todo
  <2>. SUFFICES ASSUME NEW j \in 1..(x - 1), SectionOrder[j] \in todo
                PROVE  FALSE
    OBVIOUS
  <2>1. x \in 1..Len(SectionOrder) BY <1>1, <1>4
  <2>2. j \in 1..Len(SectionOrder) /\ j < x BY <1>1, <2>1
  <2>3. j \in T BY <1>1, <2>2
  <2>. QED BY <1>4, <2>1, <2>2, <2>3
<1>6. \E k \in DOMAIN SectionOrder :
        /\ SectionOrder[k] \in todo
        /\ \A j \in 1..(k - 1) : SectionOrder[j] \notin todo
  BY <1>4, <1>5
<1>. QED BY <1>6 DEF FirstPlace

-----------------------------------------------------------------------------
(* Types                                                                   *)

\* A worker with an answer is at a section.
LEMMA SectionType ==
    ASSUME TypeOK, NEW n \in Nodes, answers[n][peer[n]] # {}
    PROVE  Section(n) \in answers[n][peer[n]] /\ Section(n) \in Sections
<1>1. answers[n][peer[n]] \in SUBSET Sections BY DEF TypeOK
<1>2. SectionOrder[FirstPlace(answers[n][peer[n]])] \in answers[n][peer[n]]
  BY <1>1, FirstSection
<1>. QED BY <1>1, <1>2 DEF Section

\* What a peer adds to its loot are items.
LEMMA WordsType ==
    ASSUME NEW chunk \in SUBSET Items, NEW n \in Nodes, NEW s \in Sections
    PROVE  Admitted(n, s, Words(chunk)) \subseteq Items
<1>1. Words(chunk) \subseteq Items BY ClusterAssumption DEF Words
<1>. QED BY <1>1 DEF Admitted

\* A node keeps what it knows when it takes in more.
LEMMA ReceiveType ==
    ASSUME loot \in [Nodes -> [Sections -> SUBSET Items]],
           NEW n \in Nodes, NEW s \in Sections, NEW chunk \in SUBSET Items,
           Receive(n, s, chunk)
    PROVE  /\ loot' \in [Nodes -> [Sections -> SUBSET Items]]
           /\ \A m \in Nodes, t \in Sections :
                 loot'[m][t] = IF m = n /\ t = s
                               THEN loot[n][s] \cup Admitted(n, s, Words(chunk))
                               ELSE loot[m][t]
BY WordsType DEF Receive

\* Nothing known, everybody asleep.
LEMMA InitType == Init => TypeOK
BY ClusterAssumption DEF Init, TypeOK, NoSections

\* Every step keeps the types.
LEMMA NextType == TypeOK /\ [Next]_vars => TypeOK'
<1>. SUFFICES ASSUME TypeOK, [Next]_vars PROVE TypeOK' OBVIOUS
<1>. USE ClusterAssumption
<1>1. CASE UNCHANGED vars BY <1>1 DEF vars, TypeOK
<1>2. ASSUME NEW n \in Nodes, Collect(n) PROVE TypeOK'
  <2>1. PICK s \in Sections, i \in Items :
          /\ loot' = [loot EXCEPT ![n][s] = @ \cup {i}]
          /\ collected' = [collected EXCEPT ![s] = @ \cup {i}]
    BY <1>2 DEF Collect
  <2>2. UNCHANGED <<pc, fp, ask, answers, peer, batch, failures>>
    BY <1>2 DEF Collect
  <2>3. loot' \in [Nodes -> [Sections -> SUBSET Items]]
    BY <2>1 DEF TypeOK
  <2>. QED BY <2>1, <2>2, <2>3 DEF TypeOK
<1>3. ASSUME NEW n \in Nodes, Fingerprint(n) PROVE TypeOK'
  BY <1>3 DEF Fingerprint, TypeOK
<1>4. ASSUME NEW n \in Nodes, NEW m \in Nodes, AskSync(n, m) PROVE TypeOK'
  <2>1. Differing(fp[n], loot[m]) \subseteq Sections BY DEF Differing
  <2>2. answers' \in [Nodes -> [Nodes -> SUBSET Sections]]
    BY <1>4, <2>1 DEF AskSync, TypeOK
  <2>3. \A k \in Nodes : pc[k] = "push" => answers'[k][peer[k]] # {}
    BY <1>4 DEF AskSync, TypeOK
  <2>. QED BY <1>4, <2>2, <2>3 DEF AskSync, TypeOK
<1>5. ASSUME NEW n \in Nodes, NEW m \in Nodes, AskFails(n, m) PROVE TypeOK'
  BY <1>5 DEF AskFails, Failure, TypeOK
<1>6. ASSUME NEW n \in Nodes, NextPeer(n) PROVE TypeOK'
  <2>1. NoSections \in [Sections -> SUBSET Items] BY DEF NoSections
  <2>2. fp' \in [Nodes -> [Sections -> SUBSET Items]]
    BY <1>6, <2>1 DEF NextPeer, TypeOK
  <2>3. /\ peer' \in [Nodes -> Nodes]
        /\ pc' \in [Nodes -> {"sleep", "ask", "list", "push"}]
    <3>1. PICK m \in Nodes, l \in {"sleep", "list"} :
            peer' = [peer EXCEPT ![n] = m] /\ pc' = [pc EXCEPT ![n] = l]
      BY <1>6 DEF NextPeer
    <3>. QED BY <3>1 DEF TypeOK
  <2>4. \A k \in Nodes : pc'[k] = "push" => answers[k][peer'[k]] # {}
    BY <1>6 DEF NextPeer, TypeOK
  <2>. QED BY <1>6, <2>2, <2>3, <2>4 DEF NextPeer, TypeOK
<1>7. ASSUME NEW n \in Nodes, FetchList(n) PROVE TypeOK'
  <2>1. Section(n) \in Sections BY <1>7, SectionType DEF FetchList
  <2>2. PICK theirs : batch' = [batch EXCEPT ![n] = loot[n][Section(n)] \ theirs]
    BY <1>7 DEF FetchList
  <2>3. batch' \in [Nodes -> SUBSET Items]
    BY <2>1, <2>2 DEF TypeOK
  <2>. QED BY <1>7, <2>3 DEF FetchList, TypeOK
<1>8. ASSUME NEW n \in Nodes, SectionDone(n) PROVE TypeOK'
  <2>1. failures' \in 0..MaxFailures BY <1>8 DEF SectionDone, Failure, TypeOK
  <2>2. answers' \in [Nodes -> [Nodes -> SUBSET Sections]]
    BY <1>8 DEF SectionDone, TypeOK
  <2>3. \A k \in Nodes : pc'[k] = "push" => answers'[k][peer[k]] # {}
    BY <1>8 DEF SectionDone, TypeOK
  <2>. QED BY <1>8, <2>1, <2>2, <2>3 DEF SectionDone, TypeOK
<1>9. ASSUME NEW n \in Nodes, Push(n) PROVE TypeOK'
  <2>1. PICK chunk \in Chunks(n) :
          /\ Receive(peer[n], Section(n), chunk)
          /\ batch' = [batch EXCEPT ![n] = @ \ chunk]
    BY <1>9 DEF Push
  <2>2. Section(n) \in Sections BY <1>9, SectionType DEF Push, TypeOK
  <2>3. chunk \in SUBSET Items /\ peer[n] \in Nodes
    BY <2>1 DEF Chunks, TypeOK
  <2>4. loot' \in [Nodes -> [Sections -> SUBSET Items]]
    BY <2>1, <2>2, <2>3, ReceiveType DEF TypeOK
  <2>. QED BY <1>9, <2>1, <2>4 DEF Push, TypeOK
<1>10. ASSUME NEW n \in Nodes, PushFails(n) PROVE TypeOK'
  BY <1>10 DEF PushFails, Failure, TypeOK
<1>. QED
  BY <1>1, <1>2, <1>3, <1>4, <1>5, <1>6, <1>7, <1>8, <1>9, <1>10 DEF Next, Worker

\* The types of all variables, for any cluster; a worker that pushes is at a
\* section its peer has answered.
THEOREM TypeCorrect == Spec => []TypeOK
BY InitType, NextType, PTL DEF Spec

-----------------------------------------------------------------------------
(* What a worker has in hand                                               *)

\* A worker asks and syncs with its own clients only.
Reached ==
    \A n \in Nodes : /\ ask[n] \subseteq Peers[n]
                     /\ \A m \in Nodes : answers[n][m] # {} => m \in Peers[n]

\* What it still has to push it knows, in the section it is at.
Owned == \A n \in Nodes : pc[n] = "push" => batch[n] \subseteq loot[n][Section(n)]

PushInv == Reached /\ Owned

\* A step of one worker that takes no other worker's work away.
LEMMA OwnedFrame ==
    ASSUME TypeOK, Owned, NEW n \in Nodes,
           \A k \in Nodes, s \in Sections : loot[k][s] \subseteq loot'[k][s],
           \A k \in Nodes \ {n} : /\ pc'[k] = pc[k] /\ batch'[k] = batch[k]
                                  /\ peer'[k] = peer[k]
                                  /\ answers'[k] = answers[k],
           pc'[n] = "push" => /\ Section(n)' \in Sections
                              /\ batch'[n] \subseteq loot[n][Section(n)']
    PROVE  Owned'
<1>. SUFFICES ASSUME NEW k \in Nodes, pc'[k] = "push"
              PROVE  batch'[k] \subseteq loot'[k][Section(k)']
  BY DEF Owned
<1>1. CASE k = n BY <1>1
<1>2. CASE k # n
  <2>1. Section(k)' = Section(k) BY <1>2 DEF Section
  <2>2. pc[k] = "push" /\ batch'[k] = batch[k] BY <1>2
  <2>3. Section(k) \in Sections BY <2>2, SectionType DEF TypeOK
  <2>4. batch[k] \subseteq loot[k][Section(k)] BY <2>2 DEF Owned
  <2>. QED BY <2>1, <2>2, <2>3, <2>4
<1>. QED BY <1>1, <1>2

\* The chunk a worker pushes, and where to.
LEMMA PushPick ==
    ASSUME TypeOK, PushInv, NEW n \in Nodes, Push(n)
    PROVE  \E chunk \in SUBSET Items :
              /\ chunk \subseteq batch[n]
              /\ chunk \subseteq loot[n][Section(n)]
              /\ Section(n) \in Sections
              /\ peer[n] \in Peers[n] /\ peer[n] \in Nodes
              /\ batch' = [batch EXCEPT ![n] = @ \ chunk]
              /\ Receive(peer[n], Section(n), chunk)
              /\ \A m \in Nodes, t \in Sections :
                    loot'[m][t] = IF m = peer[n] /\ t = Section(n)
                                  THEN loot[m][t] \cup Admitted(m, t, Words(chunk))
                                  ELSE loot[m][t]
<1>1. PICK chunk \in Chunks(n) :
        /\ Receive(peer[n], Section(n), chunk)
        /\ batch' = [batch EXCEPT ![n] = @ \ chunk]
  BY DEF Push
<1>2. Section(n) \in Sections /\ answers[n][peer[n]] # {} /\ peer[n] \in Nodes
  BY SectionType DEF Push, TypeOK
<1>3. chunk \subseteq batch[n] /\ batch[n] \subseteq Items
  BY DEF Chunks, TypeOK
<1>4. batch[n] \subseteq loot[n][Section(n)] /\ peer[n] \in Peers[n]
  BY <1>2 DEF Push, PushInv, Owned, Reached
<1>5. loot' = [loot EXCEPT ![peer[n]][Section(n)] =
                  @ \cup Admitted(peer[n], Section(n), Words(chunk))]
  BY <1>1 DEF Receive
<1>6. \A m \in Nodes, t \in Sections :
        loot'[m][t] = IF m = peer[n] /\ t = Section(n)
                      THEN loot[m][t] \cup Admitted(m, t, Words(chunk))
                      ELSE loot[m][t]
  BY <1>2, <1>5 DEF TypeOK
<1>. QED BY <1>1, <1>2, <1>3, <1>4, <1>6

\* No step makes a node forget.
LEMMA LootGrows ==
    ASSUME TypeOK, PushInv, [Next]_vars
    PROVE  \A k \in Nodes, s \in Sections : loot[k][s] \subseteq loot'[k][s]
<1>1. ASSUME NEW n \in Nodes, Collect(n)
      PROVE  \A k \in Nodes, s \in Sections : loot[k][s] \subseteq loot'[k][s]
  BY <1>1 DEF Collect, TypeOK
<1>2. ASSUME NEW n \in Nodes, Push(n)
      PROVE  \A k \in Nodes, s \in Sections : loot[k][s] \subseteq loot'[k][s]
  <2>1. PICK chunk \in SUBSET Items :
          \A m \in Nodes, t \in Sections :
             loot'[m][t] = IF m = peer[n] /\ t = Section(n)
                           THEN loot[m][t] \cup Admitted(m, t, Words(chunk))
                           ELSE loot[m][t]
    BY <1>2, PushPick
  <2>. QED BY <2>1
<1>3. ASSUME NEW n \in Nodes,
             \/ Fingerprint(n) \/ NextPeer(n) \/ FetchList(n) \/ SectionDone(n)
             \/ PushFails(n)
             \/ \E m \in Nodes : AskSync(n, m) \/ AskFails(n, m)
      PROVE  loot' = loot
  BY <1>3 DEF Fingerprint, NextPeer, FetchList, SectionDone, PushFails, AskSync,
              AskFails
<1>4. CASE UNCHANGED vars BY <1>4 DEF vars
<1>. QED BY <1>1, <1>2, <1>3, <1>4 DEF Next, Worker

\* Every step keeps what the workers have in hand.
LEMMA NextPush == TypeOK /\ PushInv /\ [Next]_vars => PushInv'
<1>. SUFFICES ASSUME TypeOK, PushInv, [Next]_vars PROVE PushInv' OBVIOUS
<1>. USE ClusterAssumption
<1>0. \A k \in Nodes, s \in Sections : loot[k][s] \subseteq loot'[k][s]
  BY LootGrows
<1>1. CASE UNCHANGED vars
  BY <1>1 DEF vars, PushInv, Reached, Owned, Section
<1>2. ASSUME NEW n \in Nodes, Collect(n) PROVE PushInv'
  <2>1. UNCHANGED <<pc, ask, answers, peer, batch>> BY <1>2 DEF Collect
  <2>2. Section(n)' = Section(n) BY <2>1 DEF Section
  <2>3. Owned'
    <3>1. pc[n] = "push" => /\ Section(n) \in Sections
                            /\ batch[n] \subseteq loot[n][Section(n)]
      BY SectionType DEF PushInv, Owned, TypeOK
    <3>. QED BY <1>0, <2>1, <2>2, <3>1, OwnedFrame DEF PushInv
  <2>. QED BY <2>1, <2>3 DEF PushInv, Reached
<1>3. ASSUME NEW n \in Nodes,
             Fingerprint(n) \/ \E m \in Nodes : AskSync(n, m) \/ AskFails(n, m)
      PROVE  PushInv'
  <2>1. /\ pc' = [pc EXCEPT ![n] = "ask"]
        /\ UNCHANGED <<peer, batch>>
        /\ \A k \in Nodes \ {n} : answers'[k] = answers[k]
    BY <1>3 DEF Fingerprint, AskSync, AskFails, TypeOK
  <2>2. Owned'
    BY <1>0, <2>1, OwnedFrame DEF PushInv, TypeOK
  <2>3. Reached'
    <3>1. CASE Fingerprint(n)
      BY <3>1 DEF Fingerprint, PushInv, Reached, TypeOK
    <3>2. ASSUME NEW m \in Nodes, AskSync(n, m) PROVE Reached'
      BY <3>2 DEF AskSync, PushInv, Reached, TypeOK
    <3>3. ASSUME NEW m \in Nodes, AskFails(n, m) PROVE Reached'
      BY <3>3 DEF AskFails, PushInv, Reached, TypeOK
    <3>. QED BY <1>3, <3>1, <3>2, <3>3
  <2>. QED BY <2>2, <2>3 DEF PushInv
<1>4. ASSUME NEW n \in Nodes, NextPeer(n) PROVE PushInv'
  <2>1. /\ UNCHANGED <<batch, answers, ask>>
        /\ pc'[n] # "push"
        /\ \A k \in Nodes \ {n} : pc'[k] = pc[k] /\ peer'[k] = peer[k]
    BY <1>4 DEF NextPeer, TypeOK
  <2>2. Owned' BY <1>0, <2>1, OwnedFrame DEF PushInv
  <2>. QED BY <2>1, <2>2 DEF PushInv, Reached
<1>5. ASSUME NEW n \in Nodes, FetchList(n) PROVE PushInv'
  <2>1. PICK theirs : batch' = [batch EXCEPT ![n] = loot[n][Section(n)] \ theirs]
    BY <1>5 DEF FetchList
  <2>2. /\ UNCHANGED <<answers, ask, peer>> /\ answers[n][peer[n]] # {}
        /\ pc' = [pc EXCEPT ![n] = "push"]
    BY <1>5 DEF FetchList
  <2>3. Section(n)' = Section(n) BY <2>2 DEF Section
  <2>4. Section(n) \in Sections BY <2>2, SectionType
  <2>5. batch'[n] = loot[n][Section(n)] \ theirs
        /\ \A k \in Nodes \ {n} : batch'[k] = batch[k] /\ pc'[k] = pc[k]
    BY <2>1, <2>2 DEF TypeOK
  <2>6. Owned' BY <1>0, <2>2, <2>3, <2>4, <2>5, OwnedFrame DEF PushInv
  <2>. QED BY <2>2, <2>6 DEF PushInv, Reached
<1>6. ASSUME NEW n \in Nodes, SectionDone(n) PROVE PushInv'
  <2>1. /\ answers' = [answers EXCEPT ![n][peer[n]] = @ \ {Section(n)}]
        /\ pc' = [pc EXCEPT ![n] = "list"]
        /\ UNCHANGED <<ask, peer, batch>>
    BY <1>6 DEF SectionDone
  <2>2. /\ pc'[n] # "push"
        /\ \A k \in Nodes \ {n} : pc'[k] = pc[k] /\ answers'[k] = answers[k]
        /\ \A k, m \in Nodes : answers'[k][m] \subseteq answers[k][m]
    BY <2>1 DEF TypeOK
  <2>3. Owned' BY <1>0, <2>1, <2>2, OwnedFrame DEF PushInv
  <2>4. Reached' BY <2>1, <2>2 DEF PushInv, Reached
  <2>. QED BY <2>3, <2>4 DEF PushInv
<1>7. ASSUME NEW n \in Nodes, Push(n) \/ PushFails(n) PROVE PushInv'
  <2>1. /\ UNCHANGED <<pc, answers, ask, peer>> /\ pc[n] = "push"
        /\ \A k \in Nodes : batch'[k] \subseteq batch[k]
        /\ \A k \in Nodes \ {n} : batch'[k] = batch[k]
    <3>1. UNCHANGED <<pc, answers, ask, peer>> /\ pc[n] = "push"
      BY <1>7 DEF Push, PushFails
    <3>2. PICK chunk : batch' = [batch EXCEPT ![n] = @ \ chunk]
      BY <1>7 DEF Push, PushFails
    <3>. QED BY <3>1, <3>2 DEF TypeOK
  <2>2. Section(n)' = Section(n) BY <2>1 DEF Section
  <2>3. Section(n) \in Sections BY <2>1, SectionType DEF TypeOK
  <2>4. batch'[n] \subseteq loot[n][Section(n)]
    BY <2>1 DEF PushInv, Owned
  <2>5. Owned' BY <1>0, <2>1, <2>2, <2>3, <2>4, OwnedFrame DEF PushInv
  <2>. QED BY <2>1, <2>5 DEF PushInv, Reached
<1>. QED
  BY <1>1, <1>2, <1>3, <1>4, <1>5, <1>6, <1>7 DEF Next, Worker

\* Nobody has anything in hand at the start.
LEMMA InitPush == Init => PushInv
BY DEF Init, PushInv, Reached, Owned

-----------------------------------------------------------------------------
(* Whitelists                                                              *)

\* No round and no attacker makes a node take in a host it whitelists, for any
\* cluster, any whitelists and words of any kind.
THEOREM WhitelistKept == Spec => []WhitelistHolds
<1>1. Init => WhitelistHolds
  BY DEF Init, WhitelistHolds, NoSections
<1>2. TypeOK /\ PushInv /\ WhitelistHolds /\ [Next]_vars => WhitelistHolds'
  <2>. SUFFICES ASSUME TypeOK, PushInv, WhitelistHolds, [Next]_vars,
                       "hosts" \in Sections, NEW k \in Nodes
                PROVE  loot'[k]["hosts"] \cap Whitelist[k] = {}
    BY DEF WhitelistHolds
  <2>0. loot[k]["hosts"] \cap Whitelist[k] = {} BY DEF WhitelistHolds
  <2>1. ASSUME NEW n \in Nodes, Collect(n)
        PROVE  loot'[k]["hosts"] \cap Whitelist[k] = {}
    <3>1. PICK s \in Sections, i \in Items :
            /\ s = "hosts" => i \notin Whitelist[n]
            /\ loot' = [loot EXCEPT ![n][s] = @ \cup {i}]
      BY <2>1 DEF Collect
    <3>2. loot'[k]["hosts"] = IF k = n /\ s = "hosts"
                              THEN loot[k]["hosts"] \cup {i} ELSE loot[k]["hosts"]
      BY <3>1 DEF TypeOK
    <3>. QED BY <2>0, <3>1, <3>2
  <2>2. ASSUME NEW n \in Nodes, Push(n)
        PROVE  loot'[k]["hosts"] \cap Whitelist[k] = {}
    <3>1. PICK chunk \in SUBSET Items :
            \A m \in Nodes, t \in Sections :
               loot'[m][t] = IF m = peer[n] /\ t = Section(n)
                             THEN loot[m][t] \cup Admitted(m, t, Words(chunk))
                             ELSE loot[m][t]
      BY <2>2, PushPick
    <3>2. loot'[k]["hosts"] = loot[k]["hosts"]
          \/ loot'[k]["hosts"]
               = loot[k]["hosts"] \cup Admitted(k, "hosts", Words(chunk))
      BY <3>1
    <3>3. Admitted(k, "hosts", Words(chunk)) \cap Whitelist[k] = {}
      BY DEF Admitted
    <3>. QED BY <2>0, <3>2, <3>3
  <2>3. ASSUME NEW n \in Nodes,
               \/ Fingerprint(n) \/ NextPeer(n) \/ FetchList(n)
               \/ SectionDone(n) \/ PushFails(n)
               \/ \E m \in Nodes : AskSync(n, m) \/ AskFails(n, m)
        PROVE  loot' = loot
    BY <2>3 DEF Fingerprint, NextPeer, FetchList, SectionDone, PushFails,
                AskSync, AskFails
  <2>4. CASE UNCHANGED vars BY <2>0, <2>4 DEF vars
  <2>. QED BY <2>0, <2>1, <2>2, <2>3, <2>4 DEF Next, Worker
<1>. QED BY <1>1, <1>2, InitPush, NextPush, TypeCorrect, PTL DEF Spec

-----------------------------------------------------------------------------
(* Items of one word                                                       *)

\* No item is split at a blank on its way.
OneWord == \A i \in Items : Pieces[i] = {i}

\* Then a chunk arrives as it was sent.
LEMMA OneWordWords ==
    ASSUME OneWord, NEW chunk \in SUBSET Items
    PROVE  Words(chunk) = chunk
BY DEF OneWord, Words

\* A node knows only what was collected, in the section it was collected for,
\* however rounds overlap and exchanges fail.  The hypothesis is needed: run
\* cluster_words shows what becomes of an item of two words.
THEOREM NothingIsInvented ==
    ASSUME OneWord
    PROVE  Spec => []NothingInvented
<1>1. Init => NothingInvented
  BY DEF Init, NothingInvented, NoSections
<1>2. TypeOK /\ PushInv /\ NothingInvented /\ [Next]_vars => NothingInvented'
  <2>. SUFFICES ASSUME TypeOK, PushInv, NothingInvented, [Next]_vars,
                       NEW k \in Nodes, NEW t \in Sections
                PROVE  loot'[k][t] \subseteq collected'[t]
    BY DEF NothingInvented
  <2>0. \A m \in Nodes, s \in Sections : loot[m][s] \subseteq collected[s]
    BY DEF NothingInvented
  <2>1. ASSUME NEW n \in Nodes, Collect(n)
        PROVE  loot'[k][t] \subseteq collected'[t]
    <3>1. PICK s \in Sections, i \in Items :
            /\ loot' = [loot EXCEPT ![n][s] = @ \cup {i}]
            /\ collected' = [collected EXCEPT ![s] = @ \cup {i}]
      BY <2>1 DEF Collect
    <3>2. loot'[k][t] = IF k = n /\ t = s THEN loot[k][t] \cup {i} ELSE loot[k][t]
      BY <3>1 DEF TypeOK
    <3>3. collected'[t] = IF t = s THEN collected[t] \cup {i} ELSE collected[t]
      BY <3>1 DEF TypeOK
    <3>. QED BY <2>0, <3>2, <3>3
  <2>2. ASSUME NEW n \in Nodes, Push(n)
        PROVE  loot'[k][t] \subseteq collected'[t]
    <3>1. PICK chunk \in SUBSET Items :
            /\ chunk \subseteq loot[n][Section(n)]
            /\ \A m \in Nodes, s \in Sections :
                  loot'[m][s] = IF m = peer[n] /\ s = Section(n)
                                THEN loot[m][s] \cup Admitted(m, s, Words(chunk))
                                ELSE loot[m][s]
      BY <2>2, PushPick
    <3>2. Admitted(k, t, Words(chunk)) \subseteq chunk
      BY OneWordWords DEF Admitted
    <3>3. collected' = collected BY <2>2 DEF Push
    <3>4. CASE t = Section(n)
      <4>1. chunk \subseteq collected[t] BY <2>0, <3>1, <3>4
      <4>. QED BY <2>0, <3>1, <3>2, <3>3, <4>1
    <3>5. CASE t # Section(n) BY <2>0, <3>1, <3>3, <3>5
    <3>. QED BY <3>4, <3>5
  <2>3. ASSUME NEW n \in Nodes,
               \/ Fingerprint(n) \/ NextPeer(n) \/ FetchList(n)
               \/ SectionDone(n) \/ PushFails(n)
               \/ \E m \in Nodes : AskSync(n, m) \/ AskFails(n, m)
        PROVE  UNCHANGED <<loot, collected>>
    BY <2>3 DEF Fingerprint, NextPeer, FetchList, SectionDone, PushFails,
                AskSync, AskFails
  <2>4. CASE UNCHANGED vars BY <2>0, <2>4 DEF vars
  <2>. QED BY <2>0, <2>1, <2>2, <2>3, <2>4 DEF Next, Worker
<1>. QED BY <1>1, <1>2, InitPush, NextPush, TypeCorrect, PTL DEF Spec

-----------------------------------------------------------------------------
(* Gossip                                                                  *)

\* What a node refuses in Gossip.
Refusals == [n \in Nodes |-> [s \in Sections |-> Items \ Admitted(n, s, Items)]]

\* It does not admit that here, in a chunk or alone.
LEMMA RefusedIsNotAdmitted ==
    ASSUME NEW n \in Nodes, NEW s \in Sections, NEW chunk \in SUBSET Items
    PROVE  Admitted(n, s, chunk) = chunk \ Refusals[n][s]
<1>1. Refusals[n][s] = Items \ Admitted(n, s, Items) BY DEF Refusals
<1>. QED BY <1>1 DEF Admitted

\* Collecting is Bring.
LEMMA CollectBrings ==
    ASSUME TypeOK, NEW n \in Nodes, Collect(n)
    PROVE  G!Next
<1>1. PICK s \in Sections, i \in Items :
        /\ s = "hosts" => i \notin Whitelist[n]
        /\ loot' = [loot EXCEPT ![n][s] = @ \cup {i}]
  BY DEF Collect
<1>2. i \in Items \ Refusals[n][s]
  BY <1>1 DEF Refusals, Admitted
<1>3. G!Bring(n, s, i) BY <1>1, <1>2 DEF G!Bring, Refusals
<1>. QED BY <1>3 DEF G!Next

\* A chunk that arrives is what the peer learns from a neighbour, or nothing
\* new to it.
LEMMA PushTeaches ==
    ASSUME OneWord, TypeOK, PushInv, NEW n \in Nodes, Push(n)
    PROVE  G!Next \/ loot' = loot
<1>1. PICK chunk \in SUBSET Items :
        /\ chunk \subseteq loot[n][Section(n)]
        /\ Section(n) \in Sections
        /\ peer[n] \in Peers[n] /\ peer[n] \in Nodes
        /\ Receive(peer[n], Section(n), chunk)
  BY PushPick
<1>. DEFINE m == peer[n]
            s == Section(n)
            news == Admitted(m, s, chunk) \ loot[m][s]
<1>2. loot' = [loot EXCEPT ![m][s] = @ \cup Admitted(m, s, chunk)]
  BY <1>1, OneWordWords DEF Receive
<1>3. news \subseteq chunk /\ news \cap Refusals[m][s] = {}
  BY <1>1, RefusedIsNotAdmitted
<1>. HIDE DEF m, s
<1>4. loot' = [loot EXCEPT ![m][s] = @ \cup news]
  <2>1. loot[m][s] \cup Admitted(m, s, chunk) = loot[m][s] \cup news OBVIOUS
  <2>. QED BY <1>2, <2>1
<1>5. chunk \subseteq loot[n][s] /\ m \in Peers[n] /\ m \in Nodes /\ s \in Sections
  BY <1>1 DEF m, s
<1>6. CASE news = {}
  <2>1. loot[m][s] \cup news = loot[m][s] BY <1>6
  <2>. QED BY <1>4, <1>5, <2>1 DEF TypeOK
<1>7. CASE news # {}
  <2>. HIDE DEF news
  <2>1. PICK i \in news : i \in Items BY <1>3, <1>7
  <2>2. news \subseteq G!Learnable(m, s)
    <3>1. news \subseteq loot[n][s] /\ news \cap loot[m][s] = {}
      BY <1>3, <1>5 DEF news
    <3>. DEFINE Around == UNION {loot[k][s] : k \in {k \in Nodes : m \in Peers[k]}}
    <3>2. loot[n][s] \subseteq Around BY <1>5
    <3>3. G!Learnable(m, s) = Around \ (loot[m][s] \cup Refusals[m][s])
      BY DEF G!Learnable, Refusals
    <3>. HIDE DEF Around
    <3>4. news \cap Refusals[m][s] = {} BY <1>3
    <3>. QED BY <3>1, <3>2, <3>3, <3>4
  <2>3. G!Learn(m, s, i) BY <1>4, <2>1, <2>2 DEF G!Learn
  <2>. QED BY <1>5, <2>1, <2>3 DEF G!Next
<1>. QED BY <1>6, <1>7

\* The refinement: with all the machinery of fingerprints, lists, chunks and
\* failing exchanges, every step of the cluster is a step of Gossip, or one
\* that changes nothing a node knows.
THEOREM RefinesGossip ==
    ASSUME OneWord
    PROVE  Spec => G!Init /\ [][G!Next]_loot
<1>1. Init => G!Init BY DEF Init, G!Init, NoSections
<1>2. TypeOK /\ PushInv /\ [Next]_vars => [G!Next]_loot
  <2>. SUFFICES ASSUME TypeOK, PushInv, [Next]_vars PROVE [G!Next]_loot
    OBVIOUS
  <2>1. ASSUME NEW n \in Nodes,
               \/ Fingerprint(n) \/ NextPeer(n) \/ FetchList(n)
               \/ SectionDone(n) \/ PushFails(n)
               \/ \E m \in Nodes : AskSync(n, m) \/ AskFails(n, m)
        PROVE  loot' = loot
    BY <2>1 DEF Fingerprint, NextPeer, FetchList, SectionDone, PushFails,
                AskSync, AskFails
  <2>2. CASE UNCHANGED vars BY <2>2 DEF vars
  <2>. QED BY <2>1, <2>2, CollectBrings, PushTeaches DEF Next, Worker
<1>. QED BY <1>1, <1>2, InitPush, NextPush, TypeCorrect, PTL DEF Spec
====
