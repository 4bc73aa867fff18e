----------------------------- MODULE HubProofs -----------------------------
(***************************************************************************)
(* Proofs about Hub for any subscriptions, callers, capacity of Send, hubs *)
(* and messages: its types, that the hub never touches a closed Send, that *)
(* a client it keeps misses nothing, and that WritePump's inner loop never *)
(* waits.                                                                  *)
(***************************************************************************)
EXTENDS Hub, FiniteSetTheorems, SequenceTheorems, TLAPS

-----------------------------------------------------------------------------
(* What happens to a stream of messages                                    *)

\* Messages, by their place.
Msgs == 1..MaxPushes

\* Handing the first of the queued messages on keeps the whole in order.
LEMMA MoveHead ==
    \A w, b, q \in Seq(Msgs) : q # <<>> =>
        w \o Append(b, Head(q)) \o Tail(q) = w \o b \o q
<1>. SUFFICES ASSUME NEW w \in Seq(Msgs), NEW b \in Seq(Msgs),
                     NEW q \in Seq(Msgs), q # <<>>
              PROVE  w \o Append(b, Head(q)) \o Tail(q) = w \o b \o q
  BY Zenon
<1>1. /\ Head(q) \in Msgs /\ Tail(q) \in Seq(Msgs) /\ Len(Tail(q)) = Len(q) - 1
      /\ \A i \in 1..Len(Tail(q)) : Tail(q)[i] = q[i + 1]
  BY HeadTailProperties
<1>2. q = <<Head(q)>> \o Tail(q)
  <2>. DEFINE r == <<Head(q)>> \o Tail(q)
  <2>1. <<Head(q)>> \in Seq(Msgs) BY <1>1
  <2>2. /\ r \in Seq(Msgs) /\ Len(r) = Len(q)
        /\ \A i \in 1..Len(q) : r[i] = IF i <= 1 THEN Head(q) ELSE Tail(q)[i - 1]
    BY <1>1, <2>1
  <2>3. \A i \in 1..Len(q) : r[i] = q[i] BY <1>1, <2>2
  <2>. HIDE DEF r
  <2>. QED BY <2>2, <2>3, SeqEqual DEF r
<1>3. Append(b, Head(q)) = b \o <<Head(q)>> BY <1>1
<1>4. w \o (b \o <<Head(q)>>) \o Tail(q) = w \o b \o (<<Head(q)>> \o Tail(q))
  <2>1. <<Head(q)>> \in Seq(Msgs) /\ b \o <<Head(q)>> \in Seq(Msgs) BY <1>1
  <2>2. w \o (b \o <<Head(q)>>) = (w \o b) \o <<Head(q)>>
    BY <2>1, ConcatAssociative
  <2>3. w \o b \in Seq(Msgs) BY ConcatProperties
  <2>4. ((w \o b) \o <<Head(q)>>) \o Tail(q)
          = (w \o b) \o (<<Head(q)>> \o Tail(q))
    BY <1>1, <2>1, <2>3, ConcatAssociative
  <2>. QED BY <2>2, <2>4, Zenon
<1>. QED BY <1>2, <1>3, <1>4

\* So does flushing the frame in the making.
LEMMA MoveBatch ==
    \A w, b, q \in Seq(Msgs) : (w \o b) \o <<>> \o q = w \o b \o q
OBVIOUS

\* Queueing a message adds it at the end of the whole.
LEMMA QueueLast ==
    \A w, b, q \in Seq(Msgs), m \in Msgs :
        w \o b \o Append(q, m) = Append(w \o b \o q, m)
OBVIOUS

\* The next message after a+1, ..., b is b+1.
LEMMA MessagesNext ==
    ASSUME NEW a \in Nat, NEW b \in Nat, a <= b
    PROVE  Append(Messages(a, b), b + 1) = Messages(a, b + 1)
BY DEF Messages

\* None is between a and a.
LEMMA MessagesNone ==
    ASSUME NEW a \in Nat
    PROVE  Messages(a, a) = <<>>
BY DEF Messages

-----------------------------------------------------------------------------
(* The inductive invariant                                                 *)

\* The types, with what each pump has in hand as a function.
Types ==
    /\ TypeOK
    /\ send \in [Subs -> Seq(1..MaxPushes)]
    /\ batch \in [Subs -> Seq(1..MaxPushes)]
    /\ written \in [Subs -> Seq(1..MaxPushes)]
    /\ stream + starting <= MaxHubs

\* What a hub has taken and will take was pushed.
Waiting(h) == {p \in Callers : call[p] = h}

Counted ==
    \A h \in Hubs : /\ IsFiniteSet(Waiting(h))
                    /\ taken[h] + Cardinality(Waiting(h)) <= pushes

\* The loop over h.clients serves clients of a message that was taken.
Serving ==
    \A h \in Hubs : /\ pending[h] \subseteq clients[h]
                    /\ pending[h] # {} => taken[h] > 0

\* Before it is registered a subscription is empty and in no map, and a pump
\* that waits has no frame in the making.
Fresh ==
    \A s \in Subs :
        /\ hubOf[s] = 0 <=> pump[s] = "none"
        /\ pump[s] \in {"none", "register"} =>
              /\ ~closed[s]
              /\ send[s] = <<>> /\ batch[s] = <<>> /\ written[s] = <<>>
              /\ \A h \in Hubs : s \notin clients[h]
        /\ pump[s] = "idle" => batch[s] = <<>>

\* The last message a client of h should have been given.
UpTo(h, s) == IF s \in pending[h] THEN taken[h] - 1 ELSE taken[h]

\* A client registered before the last message it should have been given.
Behind == \A h \in Hubs : \A s \in clients[h] : since[s] <= UpTo(h, s)

IInv == /\ Types /\ Counted /\ ServedIsOpen /\ Serving /\ Fresh /\ Behind
        /\ NothingMissed /\ DrainNeverWaits

\* Waiting sets are sets of callers; nobody waits at the start.
LEMMA InitInv == Init => IInv
<1>. SUFFICES ASSUME Init PROVE IInv OBVIOUS
<1>1. Types
  <2>1. /\ stream \in 0..MaxHubs /\ served \in 0..stream /\ starting \in 0..MaxHubs
        /\ stream + starting <= MaxHubs
        /\ pushes \in 0..MaxPushes /\ 0 \in 0..MaxPushes /\ 0 \in 0..BufSize
    BY HubAssumption DEF Init
  <2>2. <<>> \in Seq(1..MaxPushes) /\ Len(<<>>) <= BufSize
    BY HubAssumption
  <2>3. /\ closed \in [Subs -> BOOLEAN] /\ stalled \in [Subs -> BOOLEAN]
        /\ clients \in [Hubs -> SUBSET Subs] /\ pending \in [Hubs -> SUBSET Subs]
    BY DEF Init
  <2>4. 0 \in 0..stream BY <2>1
  <2>. QED BY <2>1, <2>2, <2>3, <2>4 DEF Init, Types, TypeOK
<1>2. Counted
  <2>. SUFFICES ASSUME NEW h \in Hubs
                PROVE  /\ IsFiniteSet(Waiting(h))
                       /\ taken[h] + Cardinality(Waiting(h)) <= pushes
    BY DEF Counted
  <2>1. Waiting(h) = {} BY DEF Init, Waiting, Hubs
  <2>. QED BY <2>1, FS_EmptySet DEF Init
<1>3. ServedIsOpen /\ Serving /\ Fresh /\ Behind /\ NothingMissed
      /\ DrainNeverWaits
  BY DEF Init, ServedIsOpen, Serving, Fresh, Behind, NothingMissed,
         DrainNeverWaits
<1>. QED BY <1>1, <1>2, <1>3 DEF IInv

-----------------------------------------------------------------------------
(* Steps of the server and its callers                                     *)

\* What only the server's own variables say of hubs and subscriptions.
LEMMA ServerFrame ==
    ASSUME IInv, UNCHANGED <<hub, sub>>
    PROVE  /\ ServedIsOpen' /\ Serving' /\ Fresh' /\ Behind'
           /\ NothingMissed' /\ DrainNeverWaits'
BY DEF IInv, hub, sub, ServedIsOpen, Serving, Fresh, Behind, UpTo,
       NothingMissed, DrainNeverWaits

\* A hub more, at most one for each Start that was due.
LEMMA ServerInv ==
    ASSUME IInv, Start \/ Reload
    PROVE  IInv'
<1>1. UNCHANGED <<hub, sub, call, pushes>> BY DEF Start, Reload
<1>2. /\ stream' \in 0..MaxHubs /\ served' \in 0..stream' /\ stream <= stream'
      /\ starting' \in 0..MaxHubs /\ stream' + starting' <= MaxHubs
  <2>. HubAssumption BY HubAssumption
  <2>1. CASE Start
    BY <2>1 DEF Start, IInv, Types, TypeOK, HubAssumption
  <2>2. CASE Reload
    BY <2>2 DEF Reload, IInv, Types, TypeOK, HubAssumption
  <2>. QED BY <2>1, <2>2
<1>3. Types'
  <2>1. call' \in [Callers -> 0..stream'] /\ hubOf' \in [Subs -> 0..stream']
    <3>1. 0..stream \subseteq 0..stream' BY <1>2 DEF IInv, Types, TypeOK
    <3>. QED BY <1>1, <3>1 DEF IInv, Types, TypeOK, sub
  <2>. QED BY <1>1, <1>2, <2>1 DEF IInv, Types, TypeOK, hub, sub
<1>4. Counted'
  BY <1>1 DEF IInv, Counted, Waiting, hub
<1>. QED BY <1>1, <1>3, <1>4, ServerFrame DEF IInv

\* A caller more waits, and the call is counted.
LEMMA PushInv ==
    ASSUME IInv, NEW p \in Callers, Push(p)
    PROVE  IInv'
<1>1. UNCHANGED <<hub, sub, stream, served, starting>> BY DEF Push
<1>2. pushes' = pushes + 1 /\ call' = [call EXCEPT ![p] = stream]
  BY DEF Push
<1>3. Types'
  BY <1>1, <1>2, HubAssumption DEF Push, IInv, Types, TypeOK, hub, sub
<1>4. Counted'
  <2>. SUFFICES ASSUME NEW h \in Hubs
                PROVE  /\ IsFiniteSet(Waiting(h)')
                       /\ taken'[h] + Cardinality(Waiting(h)') <= pushes'
    BY DEF Counted
  <2>1. /\ IsFiniteSet(Waiting(h)) /\ Cardinality(Waiting(h)) \in Nat
        /\ taken[h] + Cardinality(Waiting(h)) <= pushes
        /\ taken'[h] = taken[h] /\ taken[h] \in Nat /\ pushes \in Nat
    BY <1>1, FS_CardinalityType DEF IInv, Counted, Types, TypeOK, hub
  <2>2. p \notin Waiting(h) BY DEF Push, Waiting, Hubs
  <2>3. Waiting(h)' = IF h = stream THEN Waiting(h) \cup {p} ELSE Waiting(h)
    BY <1>2, <2>2 DEF Waiting, IInv, Types, TypeOK
  <2>4. /\ IsFiniteSet(Waiting(h) \cup {p})
        /\ Cardinality(Waiting(h) \cup {p}) = Cardinality(Waiting(h)) + 1
    BY <2>1, <2>2, FS_AddElement
  <2>. QED BY <1>2, <2>1, <2>3, <2>4
<1>. QED BY <1>1, <1>3, <1>4, ServerFrame DEF IInv

\* The upgrade of a request of a served page.
LEMMA SubscribeInv ==
    ASSUME IInv, NEW s \in Subs, Subscribe(s)
    PROVE  IInv'
<1>1. /\ UNCHANGED <<server, hub, send, closed, since, stalled, batch, left,
                     written>>
      /\ hubOf' = [hubOf EXCEPT ![s] = served]
      /\ pump' = [pump EXCEPT ![s] = "register"]
      /\ served # 0 /\ hubOf[s] = 0
  BY DEF Subscribe
<1>2. Types'
  BY <1>1 DEF IInv, Types, TypeOK, server, hub
<1>3. Counted'
  BY <1>1 DEF IInv, Counted, Waiting, server, hub
<1>4. pump[s] = "none" /\ \A h \in Hubs : s \notin clients[h]
  BY <1>1 DEF IInv, Fresh
<1>5. ServedIsOpen' /\ Serving'
  BY <1>1, <1>4 DEF IInv, ServedIsOpen, Serving, Types, TypeOK, hub
<1>6. Fresh'
  BY <1>1, <1>4 DEF IInv, Fresh, Types, TypeOK, hub
<1>7. Behind' /\ NothingMissed' /\ DrainNeverWaits'
  BY <1>1, <1>4
  DEF IInv, Behind, UpTo, NothingMissed, DrainNeverWaits, Types, TypeOK, hub
<1>. QED BY <1>2, <1>3, <1>5, <1>6, <1>7 DEF IInv

-----------------------------------------------------------------------------
(* Steps of the hub                                                        *)

\* A client enters the map of a hub that is at its select.
LEMMA HubRegisterInv ==
    ASSUME IInv, NEW s \in Subs, HubRegister(s)
    PROVE  IInv'
<1>. DEFINE h == hubOf[s]
<1>1. /\ UNCHANGED <<server, taken, pending, hubOf, send, closed, batch, left,
                     stalled, written>>
      /\ clients' = [clients EXCEPT ![h] = @ \cup {s}]
      /\ since' = [since EXCEPT ![s] = taken[h]]
      /\ pump[s] = "register" /\ pump' = [pump EXCEPT ![s] = "idle"]
      /\ pending[h] = {}
  BY DEF HubRegister, Selecting
<1>2. /\ h \in Hubs /\ ~closed[s] /\ taken[h] \in 0..MaxPushes
      /\ send[s] = <<>> /\ batch[s] = <<>> /\ written[s] = <<>>
      /\ \A k \in Hubs : s \notin clients[k]
  <2>1. /\ h # 0 /\ ~closed[s]
        /\ send[s] = <<>> /\ batch[s] = <<>> /\ written[s] = <<>>
        /\ \A k \in Hubs : s \notin clients[k]
    BY <1>1 DEF IInv, Fresh
  <2>2. stream \in 0..MaxHubs /\ h \in 0..stream
    BY DEF IInv, Types, TypeOK
  <2>3. h \in Hubs BY <2>1, <2>2, HubAssumption DEF Hubs
  <2>. QED BY <2>1, <2>3 DEF IInv, Types, TypeOK
<1>. HIDE DEF h
<1>3. Types'
  BY <1>1, <1>2 DEF IInv, Types, TypeOK, server
<1>4. Counted'
  BY <1>1 DEF IInv, Counted, Waiting, server
<1>5. hubOf[s] = h BY DEF h
<1>6. ServedIsOpen' /\ Serving'
  <2>1. \A k \in Hubs : clients'[k] = IF k = h THEN clients[k] \cup {s}
                                      ELSE clients[k]
    BY <1>1, <1>2 DEF IInv, Types, TypeOK
  <2>2. ServedIsOpen'
    BY <1>1, <1>2, <1>5, <2>1 DEF IInv, ServedIsOpen
  <2>3. Serving'
    BY <1>1, <2>1 DEF IInv, Serving
  <2>. QED BY <2>2, <2>3
<1>7. Fresh'
  BY <1>1, <1>2, <1>5 DEF IInv, Fresh, Types, TypeOK
<1>8. Behind'
  BY <1>1, <1>2 DEF IInv, Behind, UpTo, Types, TypeOK
<1>9. NothingMissed'
  <2>1. /\ Messages(taken[h], taken[h]) = <<>>
        /\ <<>> \o <<>> \o <<>> = <<>>
    <3>1. taken[h] \in Nat BY <1>2, HubAssumption
    <3>2. <<>> \in Seq(Nat) /\ <<>> \o <<>> = <<>> OBVIOUS
    <3>3. Messages(taken[h], taken[h]) = <<>> BY <3>1, MessagesNone
    <3>. QED BY <3>2, <3>3
  <2>. SUFFICES ASSUME NEW k \in Hubs, NEW r \in clients'[k], pump'[r] # "done"
                PROVE  written'[r] \o batch'[r] \o send'[r]
                         = Messages(since'[r], UpTo(k, r)')
    BY DEF NothingMissed, UpTo
  <2>2. CASE r = s
    <3>1. k = h BY <1>1, <1>2, <2>2 DEF IInv, Types, TypeOK
    <3>2. since'[r] = taken[h] /\ UpTo(k, r)' = taken[h]
      BY <1>1, <2>2, <3>1 DEF UpTo, IInv, Types, TypeOK
    <3>. QED BY <1>1, <1>2, <2>1, <2>2, <3>2
  <2>3. CASE r # s
    <3>1. /\ r \in clients[k] /\ r \in Subs /\ pump'[r] = pump[r]
          /\ since'[r] = since[r]
      BY <1>1, <1>2, <2>3 DEF IInv, Types, TypeOK
    <3>2. UpTo(k, r)' = UpTo(k, r) BY <1>1 DEF UpTo
    <3>. QED BY <1>1, <3>1, <3>2 DEF IInv, NothingMissed, UpTo
  <2>. QED BY <2>2, <2>3
<1>10. DrainNeverWaits'
  BY <1>1 DEF IInv, DrainNeverWaits, Types, TypeOK
<1>. QED BY <1>3, <1>4, <1>6, <1>7, <1>8, <1>9, <1>10 DEF IInv

\* A message is taken from a caller, and every client is to be served.
LEMMA HubBroadcastInv ==
    ASSUME IInv, NEW p \in Callers, HubBroadcast(p)
    PROVE  IInv'
<1>. DEFINE h == call[p]
<1>1. /\ UNCHANGED <<stream, served, starting, pushes, clients, sub>>
      /\ taken' = [taken EXCEPT ![h] = @ + 1]
      /\ pending' = [pending EXCEPT ![h] = clients[h]]
      /\ call' = [call EXCEPT ![p] = 0]
      /\ h # 0 /\ pending[h] = {}
  BY DEF HubBroadcast, Selecting
<1>2. h \in Hubs
  <2>1. stream \in 0..MaxHubs /\ h \in 0..stream BY DEF IInv, Types, TypeOK
  <2>. QED BY <1>1, <2>1, HubAssumption DEF Hubs
<1>3. p \in Waiting(h) BY DEF Waiting
<1>. HIDE DEF h
<1>4. \A k \in Hubs : Waiting(k)' = IF k = h THEN Waiting(k) \ {p} ELSE Waiting(k)
  <2>1. \A k \in Hubs : k # 0 BY DEF Hubs
  <2>2. \A q \in Callers : call'[q] = IF q = p THEN 0 ELSE call[q]
    BY <1>1 DEF IInv, Types, TypeOK
  <2>3. call[p] = h BY DEF h
  <2>. QED BY <2>1, <2>2, <2>3 DEF Waiting
<1>5. \A k \in Hubs : taken'[k] = IF k = h THEN taken[k] + 1 ELSE taken[k]
  BY <1>1 DEF IInv, Types, TypeOK
<1>6. \A k \in Hubs : taken[k] \in Nat /\ taken'[k] \in Nat
  <2>1. \A k \in Hubs : taken[k] \in 0..MaxPushes BY DEF IInv, Types, TypeOK
  <2>. QED BY <1>5, <2>1, HubAssumption
<1>7. \A k \in Hubs : /\ IsFiniteSet(Waiting(k)')
                      /\ Cardinality(Waiting(k)') \in Nat
                      /\ taken'[k] + Cardinality(Waiting(k)') <= pushes
  <2>. SUFFICES ASSUME NEW k \in Hubs
                PROVE  /\ IsFiniteSet(Waiting(k)')
                       /\ Cardinality(Waiting(k)') \in Nat
                       /\ taken'[k] + Cardinality(Waiting(k)') <= pushes
    OBVIOUS
  <2>1. /\ IsFiniteSet(Waiting(k)) /\ Cardinality(Waiting(k)) \in Nat
        /\ taken[k] + Cardinality(Waiting(k)) <= pushes
        /\ pushes \in Nat
    BY FS_CardinalityType, HubAssumption DEF IInv, Counted, Types, TypeOK
  <2>2. CASE k # h BY <1>4, <1>5, <2>1, <2>2
  <2>3. CASE k = h
    <3>1. /\ IsFiniteSet(Waiting(k) \ {p})
          /\ Cardinality(Waiting(k) \ {p}) = Cardinality(Waiting(k)) - 1
      BY <1>3, <2>1, <2>3, FS_RemoveElement
    <3>2. Cardinality(Waiting(k) \ {p}) \in Nat BY <3>1, FS_CardinalityType
    <3>. QED BY <1>4, <1>5, <1>6, <2>1, <2>3, <3>1, <3>2
  <2>. QED BY <2>2, <2>3
<1>8. Counted' BY <1>1, <1>7 DEF Counted
<1>9. Types'
  <2>1. pushes \in 0..MaxPushes BY DEF IInv, Types, TypeOK
  <2>2. \A k \in Hubs : taken'[k] \in 0..MaxPushes
    BY <1>6, <1>7, <2>1, HubAssumption
  <2>3. taken' \in [Hubs -> 0..MaxPushes]
    BY <1>1, <2>2 DEF IInv, Types, TypeOK
  <2>4. pending' \in [Hubs -> SUBSET Subs] /\ call' \in [Callers -> 0..stream]
    BY <1>1, <1>2 DEF IInv, Types, TypeOK
  <2>. QED BY <1>1, <2>3, <2>4 DEF IInv, Types, TypeOK, sub
<1>10. \A k \in Hubs : pending'[k] = IF k = h THEN clients[k] ELSE pending[k]
  BY <1>1 DEF IInv, Types, TypeOK
<1>11. ServedIsOpen'
  BY <1>1, <1>10 DEF IInv, ServedIsOpen, sub
<1>12. Serving'
  BY <1>1, <1>5, <1>6, <1>10 DEF IInv, Serving
<1>13. Fresh' /\ DrainNeverWaits'
  BY <1>1 DEF IInv, Fresh, DrainNeverWaits, sub
<1>14. \A k \in Hubs : \A s \in clients[k] : UpTo(k, s)' = UpTo(k, s)
  BY <1>1, <1>2, <1>5, <1>6, <1>10 DEF UpTo
<1>15. Behind' /\ NothingMissed'
  <2>1. \A k \in Hubs : clients'[k] = clients[k] BY <1>1
  <2>2. Behind'
    BY <1>1, <1>14 DEF IInv, Behind, sub
  <2>3. NothingMissed'
    <3>. SUFFICES ASSUME NEW k \in Hubs, NEW s \in clients'[k], pump'[s] # "done"
                  PROVE  written'[s] \o batch'[s] \o send'[s]
                           = Messages(since'[s], UpTo(k, s)')
      BY DEF NothingMissed, UpTo
    <3>1. s \in clients[k] /\ UNCHANGED <<pump, written, batch, send, since>>
      BY <1>1 DEF sub
    <3>. QED BY <1>14, <3>1 DEF IInv, NothingMissed, UpTo
  <2>. QED BY <2>2, <2>3
<1>. QED BY <1>8, <1>9, <1>11, <1>12, <1>13, <1>15 DEF IInv

\* One client is served, or closed and deleted.
LEMMA HubServeInv ==
    ASSUME IInv, NEW h \in Hubs, HubServe(h)
    PROVE  IInv'
<1>1. PICK s \in pending[h] :
        /\ pending' = [pending EXCEPT ![h] = @ \ {s}]
        /\ \/ /\ ~closed[s] /\ Len(send[s]) < BufSize
              /\ send' = [send EXCEPT ![s] = Append(@, taken[h])]
              /\ UNCHANGED <<clients, closed>>
           \/ /\ Len(send[s]) >= BufSize
              /\ closed' = [closed EXCEPT ![s] = TRUE]
              /\ clients' = [clients EXCEPT ![h] = @ \ {s}]
              /\ UNCHANGED send
        /\ UNCHANGED <<server, taken, hubOf, since, pump, batch, left,
                       stalled, written>>
  BY DEF HubServe
<1>2. /\ s \in Subs /\ s \in clients[h] /\ hubOf[s] = h /\ ~closed[s]
      /\ taken[h] \in 1..MaxPushes
  <2>1. s \in clients[h] /\ taken[h] > 0 BY <1>1 DEF IInv, Serving
  <2>2. hubOf[s] = h /\ ~closed[s] BY <1>1 DEF IInv, ServedIsOpen
  <2>3. s \in Subs /\ taken[h] \in 0..MaxPushes
    BY <2>1 DEF IInv, Types, TypeOK
  <2>. QED BY <2>1, <2>2, <2>3, HubAssumption
<1>3. /\ pump[s] \notin {"none", "register"}
      /\ \A k \in Hubs : s \in clients[k] => k = h
  BY <1>2 DEF IInv, Fresh, ServedIsOpen
<1>4. Counted'
  BY <1>1 DEF IInv, Counted, Waiting, server
<1>5. \A k \in Hubs : pending'[k] = IF k = h THEN pending[k] \ {s} ELSE pending[k]
  BY <1>1 DEF IInv, Types, TypeOK
<1>6. \A k \in Hubs : \A r \in clients[k] : r # s => UpTo(k, r)' = UpTo(k, r)
  BY <1>1, <1>5 DEF UpTo
<1>7. CASE /\ Len(send[s]) < BufSize
           /\ send' = [send EXCEPT ![s] = Append(@, taken[h])]
           /\ UNCHANGED <<clients, closed>>
  <2>1. /\ send[s] \in Seq(1..MaxPushes) /\ Len(send[s]) \in Nat
        /\ Append(send[s], taken[h]) \in Seq(1..MaxPushes)
        /\ Len(Append(send[s], taken[h])) = Len(send[s]) + 1
    BY <1>2 DEF IInv, Types, TypeOK
  <2>2. \A r \in Subs : send'[r] = IF r = s THEN Append(send[s], taken[h])
                                   ELSE send[r]
    BY <1>7, <1>2 DEF IInv, Types, TypeOK
  <2>3. Types'
    <3>1. send' \in [Subs -> Seq(1..MaxPushes)]
      BY <1>2, <1>7, <2>1 DEF IInv, Types, TypeOK
    <3>2. \A r \in Subs : Len(send'[r]) <= BufSize
      BY <1>7, <2>1, <2>2, HubAssumption DEF IInv, Types, TypeOK
    <3>3. pending' \in [Hubs -> SUBSET Subs]
      BY <1>1 DEF IInv, Types, TypeOK
    <3>. QED
      BY <1>1, <1>7, <3>1, <3>2, <3>3 DEF IInv, Types, TypeOK, server
  <2>4. ServedIsOpen' /\ Serving'
    BY <1>1, <1>5, <1>7 DEF IInv, ServedIsOpen, Serving
  <2>5. Fresh'
    BY <1>1, <1>3, <1>7, <2>2 DEF IInv, Fresh
  <2>6. UpTo(h, s) = taken[h] - 1 /\ UpTo(h, s)' = taken[h]
    <3>1. taken' = taken BY <1>1
    <3>2. s \notin pending'[h] BY <1>5
    <3>. QED BY <1>1, <3>1, <3>2 DEF UpTo
  <2>7. since[s] \in Nat /\ taken[h] - 1 \in Nat /\ since[s] <= taken[h] - 1
    <3>1. since[s] \in Nat /\ taken[h] - 1 \in Nat
      BY <1>2, HubAssumption DEF IInv, Types, TypeOK
    <3>. QED BY <1>2, <2>6, <3>1 DEF IInv, Behind
  <2>8. Behind'
    <3>. SUFFICES ASSUME NEW k \in Hubs, NEW r \in clients[k]
                  PROVE  since[r] <= UpTo(k, r)'
      BY <1>1, <1>7 DEF Behind
    <3>1. CASE r = s
      <4>1. k = h BY <1>3, <3>1
      <4>. QED BY <1>2, <2>6, <2>7, <3>1, <4>1
    <3>2. CASE r # s
      BY <1>6, <3>2 DEF IInv, Behind
    <3>. QED BY <3>1, <3>2
  <2>9. NothingMissed'
    <3>. SUFFICES ASSUME NEW k \in Hubs, NEW r \in clients[k], pump[r] # "done"
                  PROVE  written[r] \o batch[r] \o send'[r]
                           = Messages(since[r], UpTo(k, r)')
      BY <1>1, <1>7 DEF NothingMissed, UpTo
    <3>1. r \in Subs BY DEF IInv, Types, TypeOK
    <3>2. written[r] \o batch[r] \o send[r] = Messages(since[r], UpTo(k, r))
      BY DEF IInv, NothingMissed, UpTo
    <3>3. CASE r = s
      <4>1. k = h BY <1>3, <3>3
      <4>2. written[s] \in Seq(1..MaxPushes) /\ batch[s] \in Seq(1..MaxPushes)
        BY <1>2 DEF IInv, Types, TypeOK
      <4>3. written[s] \o batch[s] \o Append(send[s], taken[h])
              = Append(written[s] \o batch[s] \o send[s], taken[h])
        <5>1. /\ written[s] \in Seq(Msgs) /\ batch[s] \in Seq(Msgs)
              /\ send[s] \in Seq(Msgs) /\ taken[h] \in Msgs
          BY <1>2, <2>1, <4>2 DEF Msgs
        <5>. QED BY <5>1, QueueLast, Zenon
      <4>4. Append(Messages(since[s], taken[h] - 1), (taken[h] - 1) + 1)
              = Messages(since[s], (taken[h] - 1) + 1)
        BY <2>7, MessagesNext
      <4>5. (taken[h] - 1) + 1 = taken[h] BY <1>2, HubAssumption
      <4>. QED BY <1>2, <2>2, <2>6, <3>2, <3>3, <4>1, <4>3, <4>4, <4>5
    <3>4. CASE r # s
      BY <1>6, <2>2, <3>1, <3>2, <3>4
    <3>. QED BY <3>3, <3>4
  <2>10. DrainNeverWaits'
    <3>. SUFFICES ASSUME NEW r \in Subs, pump[r] = "drain"
                  PROVE  left[r] <= Len(send'[r])
      BY <1>1 DEF DrainNeverWaits
    <3>1. left[r] <= Len(send[r]) /\ left[r] \in 0..BufSize
      BY DEF IInv, DrainNeverWaits, Types, TypeOK
    <3>2. CASE r = s
      <4>1. Len(send'[r]) = Len(send[r]) + 1 BY <1>2, <2>1, <2>2, <3>2
      <4>. QED BY <2>1, <3>1, <3>2, <4>1, HubAssumption
    <3>3. CASE r # s
      BY <2>2, <3>1, <3>3
    <3>. QED BY <3>2, <3>3
  <2>. QED
    BY <1>4, <2>3, <2>4, <2>5, <2>8, <2>9, <2>10 DEF IInv
<1>8. CASE /\ closed' = [closed EXCEPT ![s] = TRUE]
           /\ clients' = [clients EXCEPT ![h] = @ \ {s}]
           /\ UNCHANGED send
  <2>1. \A k \in Hubs : clients'[k] = clients[k] \ {s}
    BY <1>3, <1>8 DEF IInv, Types, TypeOK
  <2>2. \A r \in Subs : r # s => closed'[r] = closed[r]
    BY <1>8 DEF IInv, Types, TypeOK
  <2>3. \A k \in Hubs : pending'[k] = pending[k] \ {s}
    BY <1>3, <1>5 DEF IInv, Serving
  <2>4. Types'
    BY <1>1, <1>8 DEF IInv, Types, TypeOK, server
  <2>5. ServedIsOpen'
    BY <1>1, <2>1, <2>2, <2>3 DEF IInv, ServedIsOpen, Types, TypeOK
  <2>6. Serving'
    BY <1>1, <2>1, <2>3 DEF IInv, Serving
  <2>7. Fresh'
    BY <1>1, <1>3, <1>8, <2>1, <2>2 DEF IInv, Fresh
  <2>8. Behind'
    BY <1>1, <1>6, <2>1 DEF IInv, Behind
  <2>9. NothingMissed'
    <3>. SUFFICES ASSUME NEW k \in Hubs, NEW r \in clients[k] \ {s},
                         pump[r] # "done"
                  PROVE  written[r] \o batch[r] \o send[r]
                           = Messages(since[r], UpTo(k, r)')
      BY <1>1, <1>8, <2>1 DEF NothingMissed, UpTo
    <3>. QED BY <1>6 DEF IInv, NothingMissed, UpTo
  <2>10. DrainNeverWaits'
    BY <1>1, <1>8 DEF IInv, DrainNeverWaits
  <2>. QED
    BY <1>4, <2>4, <2>5, <2>6, <2>7, <2>8, <2>9, <2>10 DEF IInv
<1>. QED BY <1>1, <1>7, <1>8

-----------------------------------------------------------------------------
(* Steps of WritePump                                                      *)

\* A step of one pump: the messages on its connection, in its frame and in its
\* Send stay the same and in order, unless the pump ends.
LEMMA PumpFrame ==
    ASSUME IInv, NEW s \in Subs, pump[s] \notin {"none", "register"},
           UNCHANGED <<server, hub, hubOf, closed, since>>,
           send' \in [Subs -> Seq(1..MaxPushes)],
           batch' \in [Subs -> Seq(1..MaxPushes)],
           written' \in [Subs -> Seq(1..MaxPushes)],
           left' \in [Subs -> 0..BufSize],
           pump' \in [Subs -> {"none", "register", "idle", "count", "drain", "done"}],
           stalled' \in [Subs -> BOOLEAN],
           \A r \in Subs \ {s} : /\ send'[r] = send[r] /\ batch'[r] = batch[r]
                                 /\ written'[r] = written[r] /\ left'[r] = left[r]
                                 /\ pump'[r] = pump[r],
           Len(send'[s]) <= BufSize,
           pump'[s] \notin {"none", "register"},
           pump'[s] = "idle" => batch'[s] = <<>>,
           pump'[s] = "drain" => left'[s] <= Len(send'[s]),
           pump'[s] # "done" =>
               /\ pump[s] # "done"
               /\ written'[s] \o batch'[s] \o send'[s]
                    = written[s] \o batch[s] \o send[s]
    PROVE  IInv'
<1>1. Types'
  <2>1. \A r \in Subs : Len(send'[r]) <= BufSize
    BY DEF IInv, Types, TypeOK
  <2>. QED BY <2>1 DEF IInv, Types, TypeOK, server, hub
<1>2. Counted' BY DEF IInv, Counted, Waiting, server, hub
<1>3. ServedIsOpen' /\ Serving' BY DEF IInv, ServedIsOpen, Serving, hub
<1>4. Fresh' BY DEF IInv, Fresh, hub
<1>5. \A h \in Hubs : \A r \in clients[h] : UpTo(h, r)' = UpTo(h, r)
  BY DEF UpTo, hub
<1>6. Behind' BY <1>5 DEF IInv, Behind, hub
<1>7. NothingMissed'
  <2>. SUFFICES ASSUME NEW h \in Hubs, NEW r \in clients[h], pump'[r] # "done"
                PROVE  written'[r] \o batch'[r] \o send'[r]
                         = Messages(since[r], UpTo(h, r))
    BY <1>5 DEF NothingMissed, UpTo, hub
  <2>1. r \in Subs BY DEF IInv, Types, TypeOK
  <2>2. pump[r] # "done" BY <2>1
  <2>3. written[r] \o batch[r] \o send[r] = Messages(since[r], UpTo(h, r))
    BY <2>2 DEF IInv, NothingMissed, UpTo
  <2>4. written'[r] \o batch'[r] \o send'[r] = written[r] \o batch[r] \o send[r]
    <3>1. CASE r # s
      <4>1. written'[r] = written[r] /\ batch'[r] = batch[r] /\ send'[r] = send[r]
        BY <2>1, <3>1
      <4>. QED BY <4>1, Zenon
    <3>2. CASE r = s BY <3>2, Zenon
    <3>. QED BY <3>1, <3>2
  <2>. QED BY <2>3, <2>4, Zenon
<1>8. DrainNeverWaits' BY DEF IInv, DrainNeverWaits
<1>. QED BY <1>1, <1>2, <1>3, <1>4, <1>6, <1>7, <1>8 DEF IInv

\* What a pump has in hand before a step.
LEMMA PumpState ==
    ASSUME IInv, NEW s \in Subs
    PROVE  /\ send[s] \in Seq(1..MaxPushes) /\ batch[s] \in Seq(1..MaxPushes)
           /\ written[s] \in Seq(1..MaxPushes)
           /\ Len(send[s]) \in Nat /\ Len(send[s]) <= BufSize
           /\ left[s] \in 0..BufSize
BY DEF IInv, Types, TypeOK

\* The first message of Send, or one more of those counted, goes to the frame.
LEMMA PumpMoveInv ==
    ASSUME IInv, NEW s \in Subs, PumpTake(s) \/ PumpDrain(s)
    PROVE  IInv'
<1>1. /\ send[s] # <<>> /\ pump[s] \in {"idle", "drain"}
      /\ batch' = [batch EXCEPT ![s] = Append(batch[s], Head(send[s]))]
      /\ send' = [send EXCEPT ![s] = Tail(send[s])]
      /\ UNCHANGED <<server, hub, hubOf, closed, since, stalled, written>>
  <2>1. CASE PumpTake(s)
    <3>1. batch[s] = <<>> BY <2>1 DEF PumpTake, IInv, Fresh
    <3>2. <<Head(send[s])>> = Append(batch[s], Head(send[s])) BY <3>1
    <3>. QED BY <2>1, <3>2 DEF PumpTake
  <2>2. CASE PumpDrain(s) BY <2>2 DEF PumpDrain
  <2>. QED BY <2>1, <2>2
<1>2. /\ written[s] \o Append(batch[s], Head(send[s])) \o Tail(send[s])
           = written[s] \o batch[s] \o send[s]
      /\ Tail(send[s]) \in Seq(1..MaxPushes)
      /\ Append(batch[s], Head(send[s])) \in Seq(1..MaxPushes)
      /\ Len(Tail(send[s])) = Len(send[s]) - 1
  <2>1. /\ send[s] \in Seq(Msgs) /\ batch[s] \in Seq(Msgs)
        /\ written[s] \in Seq(Msgs) /\ send[s] # <<>>
    BY <1>1, PumpState DEF Msgs
  <2>2. written[s] \o Append(batch[s], Head(send[s])) \o Tail(send[s])
          = written[s] \o batch[s] \o send[s]
    BY <2>1, MoveHead, Zenon
  <2>3. /\ Tail(send[s]) \in Seq(Msgs)
        /\ Append(batch[s], Head(send[s])) \in Seq(Msgs)
        /\ Len(Tail(send[s])) = Len(send[s]) - 1
    BY <2>1, HeadTailProperties
  <2>. QED BY <2>2, <2>3 DEF Msgs
<1>3. /\ send' \in [Subs -> Seq(1..MaxPushes)]
      /\ batch' \in [Subs -> Seq(1..MaxPushes)]
      /\ send'[s] = Tail(send[s]) /\ batch'[s] = Append(batch[s], Head(send[s]))
      /\ \A r \in Subs \ {s} : send'[r] = send[r] /\ batch'[r] = batch[r]
  BY <1>1, <1>2 DEF IInv, Types
<1>4. Len(send'[s]) = Len(send[s]) - 1 /\ Len(send'[s]) <= BufSize
  BY <1>2, <1>3, PumpState, HubAssumption
<1>5. written'[s] \o batch'[s] \o send'[s] = written[s] \o batch[s] \o send[s]
  BY <1>1, <1>2, <1>3, Zenon
<1>6. /\ pump' \in [Subs -> {"none", "register", "idle", "count", "drain", "done"}]
      /\ left' \in [Subs -> 0..BufSize]
      /\ \A r \in Subs \ {s} : pump'[r] = pump[r] /\ left'[r] = left[r]
      /\ \/ pump'[s] = "count"
         \/ pump'[s] = "drain" /\ left'[s] <= Len(send'[s])
  <2>1. CASE PumpTake(s)
    BY <2>1 DEF PumpTake, IInv, Types, TypeOK
  <2>2. CASE PumpDrain(s)
    <3>1. /\ pump[s] = "drain" /\ pump' = pump /\ left[s] > 0
          /\ left' = [left EXCEPT ![s] = @ - 1]
      BY <2>2 DEF PumpDrain
    <3>2. left[s] <= Len(send[s]) BY <3>1 DEF IInv, DrainNeverWaits
    <3>3. left[s] - 1 \in 0..BufSize /\ left[s] - 1 <= Len(send'[s])
      BY <1>4, <3>1, <3>2, PumpState, HubAssumption
    <3>. QED BY <3>1, <3>3 DEF IInv, Types, TypeOK
  <2>. QED BY <2>1, <2>2
<1>7. /\ written' \in [Subs -> Seq(1..MaxPushes)]
      /\ stalled' \in [Subs -> BOOLEAN]
      /\ \A r \in Subs \ {s} : written'[r] = written[r]
  BY <1>1 DEF IInv, Types, TypeOK
<1>. QED
  BY <1>1, <1>3, <1>4, <1>5, <1>6, <1>7, PumpFrame

\* The other steps of a pump, and the browser's: the frame is flushed or given
\* up, n is counted, or nothing moves.
LEMMA PumpOtherInv ==
    ASSUME IInv, NEW s \in Subs,
           \/ PumpCount(s) \/ PumpFlush(s) \/ PumpFail(s) \/ PumpClosed(s)
           \/ Stall(s)
    PROVE  IInv'
<1>1. UNCHANGED <<server, hub, hubOf, closed, since, send>>
  BY DEF PumpCount, PumpFlush, PumpFail, PumpClosed, Stall
<1>2. pump[s] \in {"idle", "count", "drain"}
  BY DEF PumpCount, PumpFlush, PumpFail, PumpClosed, Stall
<1>3. /\ <<>> \in Seq(1..MaxPushes)
      /\ written[s] \o batch[s] \in Seq(1..MaxPushes)
  BY PumpState, ConcatProperties
<1>4. /\ batch' \in [Subs -> Seq(1..MaxPushes)]
      /\ \A r \in Subs \ {s} : batch'[r] = batch[r]
  BY <1>3 DEF PumpCount, PumpFlush, PumpFail, PumpClosed, Stall, IInv, Types
<1>5. /\ written' \in [Subs -> Seq(1..MaxPushes)]
      /\ \A r \in Subs \ {s} : written'[r] = written[r]
  BY <1>3 DEF PumpCount, PumpFlush, PumpFail, PumpClosed, Stall, IInv, Types
<1>6. /\ left' \in [Subs -> 0..BufSize]
      /\ \A r \in Subs \ {s} : left'[r] = left[r]
  <2>1. Len(send[s]) \in 0..BufSize BY PumpState, HubAssumption
  <2>. QED
    BY <2>1
    DEF PumpCount, PumpFlush, PumpFail, PumpClosed, Stall, IInv, Types, TypeOK
<1>7. /\ pump' \in [Subs -> {"none", "register", "idle", "count", "drain", "done"}]
      /\ \A r \in Subs \ {s} : pump'[r] = pump[r]
      /\ pump'[s] \in {"idle", "count", "drain", "done"}
  BY <1>2 DEF PumpCount, PumpFlush, PumpFail, PumpClosed, Stall, IInv, Types, TypeOK
<1>8. stalled' \in [Subs -> BOOLEAN]
  BY DEF PumpCount, PumpFlush, PumpFail, PumpClosed, Stall, IInv, Types, TypeOK
<1>9. pump'[s] = "idle" => batch'[s] = <<>>
  BY <1>2 DEF PumpCount, PumpFlush, PumpFail, PumpClosed, Stall, IInv, Types,
              TypeOK, Fresh
<1>10. pump'[s] = "drain" => left'[s] <= Len(send'[s])
  BY <1>1, PumpState
  DEF PumpCount, PumpFlush, PumpFail, PumpClosed, Stall, IInv, Types, TypeOK,
      DrainNeverWaits
<1>11. ASSUME pump'[s] # "done"
       PROVE  written'[s] \o batch'[s] \o send'[s]
                = written[s] \o batch[s] \o send[s]
  <2>1. CASE PumpFlush(s)
    <3>1. /\ written'[s] = written[s] \o batch[s]
          /\ batch'[s] = <<>> /\ send'[s] = send[s]
      BY <2>1 DEF PumpFlush, IInv, Types
    <3>2. /\ send[s] \in Seq(Msgs) /\ batch[s] \in Seq(Msgs)
          /\ written[s] \in Seq(Msgs)
      BY PumpState DEF Msgs
    <3>3. (written[s] \o batch[s]) \o <<>> \o send[s]
            = written[s] \o batch[s] \o send[s]
      BY <3>2, MoveBatch, Zenon
    <3>. QED BY <3>1, <3>3, Zenon
  <2>2. CASE PumpCount(s) \/ Stall(s)
    <3>1. written' = written /\ batch' = batch /\ send' = send
      BY <2>2 DEF PumpCount, Stall
    <3>. QED BY <3>1, Zenon
  <2>3. CASE PumpFail(s) \/ PumpClosed(s)
    <3>1. pump'[s] = "done"
      BY <2>3 DEF PumpFail, PumpClosed, IInv, Types, TypeOK
    <3>. QED BY <1>11, <3>1
  <2>. QED BY <2>1, <2>2, <2>3
<1>12. /\ send' \in [Subs -> Seq(1..MaxPushes)] /\ Len(send'[s]) <= BufSize
       /\ \A r \in Subs \ {s} : send'[r] = send[r]
  BY <1>1, PumpState DEF IInv, Types
<1>. QED
  BY <1>1, <1>2, <1>4, <1>5, <1>6, <1>7, <1>8, <1>9, <1>10, <1>11, <1>12,
     PumpFrame

-----------------------------------------------------------------------------
\* Every step keeps the inductive invariant.
LEMMA NextInv == IInv /\ [Next]_vars => IInv'
<1>. SUFFICES ASSUME IInv, [Next]_vars PROVE IInv' OBVIOUS
<1>1. CASE UNCHANGED vars
  <2>1. UNCHANGED <<server, hub, sub>> BY <1>1 DEF vars
  <2>2. Types' BY <2>1 DEF IInv, Types, TypeOK, server, hub, sub
  <2>3. Counted' BY <2>1 DEF IInv, Counted, Waiting, server, hub
  <2>. QED BY <2>1, <2>2, <2>3, ServerFrame DEF IInv
<1>2. ASSUME NEW s \in Subs, PumpStep(s) PROVE IInv'
  BY <1>2, PumpMoveInv, PumpOtherInv DEF PumpStep
<1>. QED
  BY <1>1, <1>2, ServerInv, PushInv, SubscribeInv, HubRegisterInv,
     HubBroadcastInv, HubServeInv, PumpOtherInv
  DEF Next

\* The invariant holds in every behaviour.
LEMMA AlwaysInv == Spec => []IInv
BY InitInv, NextInv, PTL DEF Spec

\* The types: no Send is ever fuller than its capacity, whatever that is.
THEOREM TypeCorrect == Spec => []TypeOK
<1>1. IInv => TypeOK BY DEF IInv, Types
<1>. QED BY <1>1, AlwaysInv, PTL

\* No hub sends on a closed Send or closes one twice, so that no client can
\* make it panic, for any number of browsers, hubs and messages.
THEOREM NeverTouchesClosed == Spec => []ServedIsOpen
<1>1. IInv => ServedIsOpen BY DEF IInv
<1>. QED BY <1>1, AlwaysInv, PTL

\* A client its hub has kept was given every message since it registered, once
\* and in order, whatever the capacity of Send and the interleaving with its
\* pump.
THEOREM StreamComplete == Spec => []NothingMissed
<1>1. IInv => NothingMissed BY DEF IInv
<1>. QED BY <1>1, AlwaysInv, PTL

\* The inner loop of WritePump finds the messages it counted.
THEOREM DrainCounted == Spec => []DrainNeverWaits
<1>1. IInv => DrainNeverWaits BY DEF IInv
<1>. QED BY <1>1, AlwaysInv, PTL
====
