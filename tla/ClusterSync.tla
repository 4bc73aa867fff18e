---------------------------- MODULE ClusterSync ----------------------------
(***************************************************************************)
(* How the nodes of a cluster share their loot: SyncWorker of              *)
(* sync_server.go, the client side of sync_client.go and the commands SYNC,*)
(* HOSTS, USERS, PASSWORDS, PAYLOADS and ADD-... of sync_commands.go.      *)
(*                                                                         *)
(* A worker fingerprints its loot, asks every client which sections differ *)
(* from that fingerprint, and then, section by section, fetches the peer's *)
(* list and pushes what the peer lacks, in chunks.  A node only ever       *)
(* pushes.  Every exchange is one connection of SyncClient.Exec and may    *)
(* fail before or after the peer has run the command.                      *)
(***************************************************************************)
EXTENDS Integers, Sequences, FiniteSets

CONSTANTS Nodes,
          Peers,        \* node -> the nodes its clients connect to
          Sections,     \* out of hosts, users, passwords, payloads
          SectionOrder, \* the order in which SYNC lists them
          Items,        \* what can be collected
          Pieces,       \* item -> the words it consists of
          Whitelist,    \* node -> the hosts it whitelists
          MaxCollected, \* bound: items collected from attackers
          MaxFailures   \* bound: exchanges that fail

ASSUME ClusterAssumption ==
    /\ Peers \in [Nodes -> SUBSET Nodes]
    /\ SectionOrder \in Seq(Sections)
    /\ \A s \in Sections : \E k \in DOMAIN SectionOrder : SectionOrder[k] = s
    /\ Pieces \in [Items -> SUBSET Items]
    /\ Whitelist \in [Nodes -> SUBSET Items]
    /\ MaxCollected \in Nat /\ MaxFailures \in Nat

VARIABLES
    loot,       \* node -> section -> the items it knows
    collected,  \* history: section -> items attackers have brought
    pc,         \* where each SyncWorker is
    fp,         \* the loot its fingerprint was taken of
    ask,        \* peers it has yet to send SYNC to
    answers,    \* peer -> the sections it answered that are still to sync
    peer,       \* the peer it is syncing with
    batch,      \* items it still has to push in the current section
    failures    \* exchanges that have failed

vars == <<loot, collected, pc, fp, ask, answers, peer, batch, failures>>

\* An exchange fails: refused, timed out or cut off.
Failure == failures < MaxFailures /\ failures' = failures + 1

NoSections == [s \in Sections |-> {}]

-----------------------------------------------------------------------------
(* The peer's side                                                         *)

\* SYNC: the sections whose fingerprints differ.  External: a fingerprint,
\* StringSliceToSha256 of the list, is equal exactly for equal sets.
Differing(remote, local) == {s \in Sections : remote[s] # local[s]}

\* Mutant of Admitted: the two tests of isIPWhitelisted are missing.
AdmittedAll(n, s, words) == words

\* AddHost and AddHosts refuse what is whitelisted here.
Admitted(n, s, words) == IF s = "hosts" THEN words \ Whitelist[n] ELSE words

\* The words of a command line: the arguments of a chunk are split at blanks.
Words(chunk) == UNION {Pieces[i] : i \in chunk}

\* Mutant of Receive: all commands add to the same section.
ReceiveFirst(n, s, chunk) ==
    loot' = [loot EXCEPT ![n][SectionOrder[1]] =
                @ \cup Admitted(n, s, Words(chunk))]

\* ADD-HOST, ADD-USER, ADD-PASSWORD and ADD-PAYLOAD of a chunk at node n.
Receive(n, s, chunk) ==
    loot' = [loot EXCEPT ![n][s] = @ \cup Admitted(n, s, Words(chunk))]

-----------------------------------------------------------------------------
(* Attackers                                                               *)

NumCollected == Cardinality(UNION {{s} \X collected[s] : s \in Sections})

\* A login or the end of a session at node n adds to its loot.
Collect(n) ==
    /\ NumCollected < MaxCollected
    /\ \E s \in Sections, i \in Items :
          /\ i \notin collected[s]
          /\ s = "hosts" => i \notin Whitelist[n]
          /\ loot' = [loot EXCEPT ![n][s] = @ \cup {i}]
          /\ collected' = [collected EXCEPT ![s] = @ \cup {i}]
    /\ UNCHANGED <<pc, fp, ask, answers, peer, batch, failures>>

-----------------------------------------------------------------------------
(* SyncWorker                                                              *)

\* Loot.Fingerprint, then Broadcast of SYNC to all clients.
Fingerprint(n) ==
    /\ pc[n] = "sleep"
    /\ fp' = [fp EXCEPT ![n] = loot[n]]
    /\ ask' = [ask EXCEPT ![n] = Peers[n]]
    /\ answers' = [answers EXCEPT ![n] = [m \in Nodes |-> {}]]
    /\ pc' = [pc EXCEPT ![n] = "ask"]
    /\ UNCHANGED <<loot, collected, peer, batch, failures>>

\* IsAllowedHost at node m: n is among its clients.
Allows(m, n) == n \in Peers[m]

\* One Exec of ExecBroadcast.  A failed one, or an empty answer, leaves the
\* peer out of the result; a peer that does not allow this node answers with
\* garbage that cannot be decoded.
AskSync(n, m) ==
    /\ pc[n] = "ask"
    /\ m \in ask[n]
    /\ ask' = [ask EXCEPT ![n] = @ \ {m}]
    /\ answers' = [answers EXCEPT ![n][m] =
                     IF Allows(m, n) THEN Differing(fp[n], loot[m]) ELSE {}]
    /\ UNCHANGED <<loot, collected, pc, fp, peer, batch, failures>>

AskFails(n, m) ==
    /\ Failure
    /\ pc[n] = "ask"
    /\ m \in ask[n]
    /\ ask' = [ask EXCEPT ![n] = @ \ {m}]
    /\ UNCHANGED <<loot, collected, pc, fp, answers, peer, batch>>

\* The loop over the result: some peer with an answer, in any order.  The
\* fingerprint has been used by then.
NextPeer(n) ==
    /\ \/ pc[n] = "ask" /\ ask[n] = {}
       \/ pc[n] = "list" /\ answers[n][peer[n]] = {}
    /\ \/ \E m \in Nodes :
             /\ answers[n][m] # {}
             /\ peer' = [peer EXCEPT ![n] = m]
             /\ pc' = [pc EXCEPT ![n] = "list"]
       \/ /\ \A m \in Nodes : answers[n][m] = {}
          /\ peer' = [peer EXCEPT ![n] = n]
          /\ pc' = [pc EXCEPT ![n] = "sleep"]
    /\ fp' = [fp EXCEPT ![n] = NoSections]
    /\ UNCHANGED <<loot, collected, ask, answers, batch, failures>>

\* The place of the first of these sections in an answer.
FirstPlace(sections) ==
    CHOOSE k \in DOMAIN SectionOrder :
        /\ SectionOrder[k] \in sections
        /\ \A j \in 1..(k - 1) : SectionOrder[j] \notin sections

\* The section the loop over a peer's answer is at.
Section(n) == SectionOrder[FirstPlace(answers[n][peer[n]])]

\* Mutant of FetchList: the difference the wrong way round.
FetchReversed(n) ==
    /\ pc[n] = "list"
    /\ answers[n][peer[n]] # {}
    /\ batch' = [batch EXCEPT ![n] = loot[peer[n]][Section(n)] \ loot[n][Section(n)]]
    /\ pc' = [pc EXCEPT ![n] = "push"]
    /\ UNCHANGED <<loot, collected, fp, ask, answers, peer, failures>>

\* SyncData: the peer's list of the section, and the difference to what this
\* node knows by now.  An answer that is cut off reads as an empty list.
FetchList(n) ==
    /\ pc[n] = "list"
    /\ answers[n][peer[n]] # {}
    /\ \E theirs \in {loot[peer[n]][Section(n)], {}} :
          batch' = [batch EXCEPT ![n] = loot[n][Section(n)] \ theirs]
    /\ pc' = [pc EXCEPT ![n] = "push"]
    /\ UNCHANGED <<loot, collected, fp, ask, answers, peer, failures>>

\* Mutant of SectionDone: the worker goes on pushing after the last chunk.
SectionDoneStays(n) ==
    /\ \/ pc[n] = "push" /\ batch[n] = {} /\ UNCHANGED <<failures, pc>>
       \/ /\ pc[n] = "list" /\ answers[n][peer[n]] # {} /\ Failure
          /\ UNCHANGED pc
    /\ answers' = [answers EXCEPT ![n][peer[n]] = @ \ {Section(n)}]
    /\ UNCHANGED <<loot, collected, fp, ask, peer, batch>>

\* SyncData returns, after the last chunk or because the list could not be
\* fetched.
SectionDone(n) ==
    /\ \/ pc[n] = "push" /\ batch[n] = {} /\ UNCHANGED failures
       \/ pc[n] = "list" /\ answers[n][peer[n]] # {} /\ Failure
    /\ answers' = [answers EXCEPT ![n][peer[n]] = @ \ {Section(n)}]
    /\ pc' = [pc EXCEPT ![n] = "list"]
    /\ UNCHANGED <<loot, collected, fp, ask, peer, batch>>

\* AddChunked and AddPayload: one Exec per chunk, one per payload.  Whether it
\* arrived is not looked at.
Chunks(n) == {c \in SUBSET batch[n] :
                 c # {} /\ (Section(n) = "payloads" => Cardinality(c) = 1)}

Push(n) ==
    /\ pc[n] = "push"
    /\ \E chunk \in Chunks(n) :
          /\ Receive(peer[n], Section(n), chunk)
          /\ batch' = [batch EXCEPT ![n] = @ \ chunk]
    /\ UNCHANGED <<collected, pc, fp, ask, answers, peer, failures>>

PushFails(n) ==
    /\ Failure
    /\ pc[n] = "push"
    /\ \E chunk \in Chunks(n) : batch' = [batch EXCEPT ![n] = @ \ chunk]
    /\ UNCHANGED <<loot, collected, pc, fp, ask, answers, peer>>

-----------------------------------------------------------------------------
Init ==
    /\ loot = [n \in Nodes |-> NoSections]
    /\ collected = NoSections
    /\ pc = [n \in Nodes |-> "sleep"]
    /\ fp = [n \in Nodes |-> NoSections]
    /\ ask = [n \in Nodes |-> {}]
    /\ answers = [n \in Nodes |-> [m \in Nodes |-> {}]]
    /\ peer = [n \in Nodes |-> n]
    /\ batch = [n \in Nodes |-> {}]
    /\ failures = 0

Worker(n) ==
    \/ Fingerprint(n)
    \/ \E m \in Nodes : AskSync(n, m)
    \/ NextPeer(n)
    \/ FetchList(n)
    \/ SectionDone(n)
    \/ Push(n)

Next ==
    \E n \in Nodes :
        \/ Collect(n)
        \/ Worker(n)
        \/ \E m \in Nodes : AskFails(n, m)
        \/ PushFails(n)

\* Every worker keeps running, and wakes up again and again.  Exchanges fail
\* only finitely often (MaxFailures), and what a round has missed the next
\* one tries again.
Fairness == \A n \in Nodes : WF_vars(Worker(n))

Spec == Init /\ [][Next]_vars
FairSpec == Spec /\ Fairness

-----------------------------------------------------------------------------
(* Properties                                                              *)

\* Types; a worker that pushes is at some section of some peer.
TypeOK ==
    /\ loot \in [Nodes -> [Sections -> SUBSET Items]]
    /\ collected \in [Sections -> SUBSET Items]
    /\ pc \in [Nodes -> {"sleep", "ask", "list", "push"}]
    /\ fp \in [Nodes -> [Sections -> SUBSET Items]]
    /\ ask \in [Nodes -> SUBSET Nodes]
    /\ answers \in [Nodes -> [Nodes -> SUBSET Sections]]
    /\ peer \in [Nodes -> Nodes]
    /\ \A n \in Nodes : pc[n] = "push" => answers[n][peer[n]] # {}
    /\ batch \in [Nodes -> SUBSET Items]
    /\ failures \in 0..MaxFailures

\* A node knows only what an attacker has brought to some node, under the
\* section it was brought as: rounds that overlap, go stale or break off
\* invent nothing and move nothing from one section to another.
NothingInvented ==
    \A n \in Nodes, s \in Sections : loot[n][s] \subseteq collected[s]

\* No round makes a node take in a host it whitelists itself, whatever its
\* peers have collected.
WhitelistHolds ==
    "hosts" \in Sections =>
        \A n \in Nodes : loot[n]["hosts"] \cap Whitelist[n] = {}

\* Whatever any node collects reaches all nodes that admit it, over neighbours
\* that only push to their neighbours, from stale fingerprints and lists, and
\* although exchanges fail.
Convergence ==
    \A s \in Sections, i \in Items :
        i \in collected[s] ~>
            \A n \in Nodes : i \in loot[n][s] \/ i \notin Admitted(n, s, {i})

G == INSTANCE Gossip WITH
        known   <- loot,
        Pushes  <- Peers,
        Refused <- [n \in Nodes |-> [s \in Sections |->
                                        Items \ Admitted(n, s, Items)]]

\* All the machinery of SyncWorker comes to this: a node only ever gains items,
\* those of a neighbour that pushes to it, and every item it admits arrives.
ImplementsGossip == G!Spec
====
