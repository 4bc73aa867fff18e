-------------------------- MODULE SyncConnsProofs --------------------------
(***************************************************************************)
(* Proofs about SyncConns for any connections, addresses and reloads: its  *)
(* types and the lock of the map, that every entry of the map has an owner *)
(* whose Remove is still to come, and that no connection in use is closed. *)
(***************************************************************************)
EXTENDS SyncConns, TLAPS

\* Where a connection, the acceptor and the clean-up can be.
ConnLabels == {"none", "backlog", "accepted", "start", "read", "remove",
               "close", "done"}
AcceptorLabels == {"accept", "create", "replace", "dispatch", "remove", "close",
                   "down"}

ControlTypes ==
    /\ pc \in [Procs -> ConnLabels \cup AcceptorLabels \cup {"sleep", "sweep"}]
    /\ \A c \in Conns : pc[c] \in ConnLabels
    /\ pc[Acceptor] \in AcceptorLabels
    /\ pc[Cleaner] \in {"sleep", "sweep", "down"}

\* A connection starts with its peer, and the one the acceptor works on has no
\* goroutine yet.
Coupled ==
    /\ \A c \in Conns : peer[c] = "none" <=> pc[c] = "none"
    /\ pc[Acceptor] \notin {"accept", "down"} =>
          current \in Conns /\ pc[current] = "accepted"

\* The inductive invariant.
IInv == TypeOK /\ ControlTypes /\ Coupled /\ EntryHasOwner /\ InUseStaysOpen

\* The processes are told apart.
LEMMA ProcsDistinct ==
    /\ Conns \subseteq Procs /\ Acceptor \in Procs /\ Cleaner \in Procs
    /\ Acceptor \notin Conns /\ Cleaner \notin Conns /\ Acceptor # Cleaner
    /\ Nobody \notin Procs
    /\ Nobody \notin Conns
BY ConnsAssumption DEF Procs

\* An empty map, every lock free.
LEMMA InitInv == Init => IInv
<1>. SUFFICES ASSUME Init PROVE IInv OBVIOUS
<1>1. ControlTypes
  BY ProcsDistinct DEF Init, ControlTypes, ConnLabels, AcceptorLabels
<1>2. TypeOK
  <2>1. \A p \in Procs : pc[p] \notin {"replace", "close", "sweep"}
    BY DEF Init
  <2>2. reload \in BOOLEAN BY DEF Init
  <2>3. reloads \in 0..MaxReloads BY ConnsAssumption DEF Init
  <2>. QED
    BY <2>1, <2>2, <2>3, ProcsDistinct, ConnsAssumption DEF Init, TypeOK
<1>3. Coupled /\ EntryHasOwner /\ InUseStaysOpen
  BY ProcsDistinct DEF Init, Coupled, EntryHasOwner, InUseStaysOpen
<1>. QED BY <1>1, <1>2, <1>3 DEF IInv

-----------------------------------------------------------------------------
(* Steps of the remote ends and of the configuration                       *)

\* Reloads change only who is let in.
LEMMA ReloadInv ==
    ASSUME IInv, ReloadStart \/ ReloadRemove \/ ReloadAdd
    PROVE  IInv'
<1>1. UNCHANGED conns
  BY DEF ReloadStart, ReloadRemove, ReloadAdd
<1>2. clients' \subseteq Addrs
  BY DEF IInv, TypeOK, ReloadStart, ReloadRemove, ReloadAdd
<1>3. reload' \in BOOLEAN
  BY DEF IInv, TypeOK, ReloadStart, ReloadRemove, ReloadAdd
<1>4. reloads' \in 0..MaxReloads
  BY ConnsAssumption DEF IInv, TypeOK, ReloadStart, ReloadRemove, ReloadAdd
<1>. QED
  BY <1>1, <1>2, <1>3, <1>4
  DEF IInv, TypeOK, ControlTypes, Coupled, EntryHasOwner, InUseStaysOpen, conns

\* A peer connects, sends or goes, or time passes.
LEMMA PeerInv ==
    ASSUME IInv, NEW c \in Conns,
           PeerConnect(c) \/ PeerAnswers(c) \/ PeerSendEmpty(c) \/ Age(c)
    PROVE  IInv'
<1>1. CASE PeerConnect(c)
  <2>1. pc[c] = "none" BY <1>1 DEF PeerConnect, IInv, Coupled
  <2>2. ControlTypes'
    BY <1>1, ProcsDistinct
    DEF PeerConnect, Goto, IInv, ControlTypes, ConnLabels
  <2>3. TypeOK'
    BY <1>1, <2>1, ProcsDistinct
    DEF PeerConnect, Goto, IInv, TypeOK, ControlTypes, config
  <2>4. Coupled' /\ EntryHasOwner' /\ InUseStaysOpen'
    BY <1>1, <2>1, ProcsDistinct
    DEF PeerConnect, Goto, IInv, TypeOK, ControlTypes, Coupled, EntryHasOwner,
        InUseStaysOpen
  <2>. QED BY <2>2, <2>3, <2>4 DEF IInv
<1>2. CASE PeerAnswers(c) \/ PeerSendEmpty(c) \/ Age(c)
  <2>1. UNCHANGED <<entry, isOpen, target, connsLock, sscLock, pc, current,
                    todo, config>>
    BY <1>2 DEF PeerAnswers, PeerSend, PeerClose, PeerSendEmpty, Age
  <2>2. /\ peer' \in [Conns -> {"none", "silent", "empty", "sent", "gone"}]
        /\ isOld' \in [Conns -> BOOLEAN]
        /\ \A d \in Conns : peer'[d] = "none" <=> peer[d] = "none"
    BY <1>2 DEF PeerAnswers, PeerSend, PeerClose, PeerSendEmpty, Age, IInv, TypeOK
  <2>. QED
    BY <2>1, <2>2
    DEF IInv, TypeOK, ControlTypes, Coupled, EntryHasOwner, InUseStaysOpen,
        config
<1>. QED BY <1>1, <1>2

-----------------------------------------------------------------------------
(* Steps of the acceptor                                                   *)

\* A new connection is taken from the backlog.
LEMMA AcceptInv ==
    ASSUME IInv, NEW c \in Conns, Accept(c)
    PROVE  IInv'
<1>1. ControlTypes'
  BY ProcsDistinct
  DEF Accept, IInv, ControlTypes, ConnLabels, AcceptorLabels
<1>2. TypeOK'
  BY ProcsDistinct DEF Accept, IInv, TypeOK, ControlTypes, config
<1>3. Coupled' /\ EntryHasOwner' /\ InUseStaysOpen'
  BY ProcsDistinct
  DEF Accept, IInv, TypeOK, ControlTypes, Coupled, EntryHasOwner, InUseStaysOpen
<1>. QED BY <1>1, <1>2, <1>3 DEF IInv

\* The process ends, and nothing of it is left.
LEMMA AcceptFailsInv ==
    ASSUME IInv, AcceptFails
    PROVE  IInv'
<1>1. /\ pc' \in [Procs -> {"down", "none", "done"}]
      /\ pc'[Acceptor] = "down" /\ pc'[Cleaner] = "down"
      /\ \A c \in Conns : pc'[c] = IF pc[c] = "none" THEN "none" ELSE "done"
  BY ProcsDistinct DEF AcceptFails
<1>2. ControlTypes'
  BY <1>1, ProcsDistinct DEF ControlTypes, ConnLabels, AcceptorLabels
<1>3. TypeOK'
  <2>1. \A p \in Procs : connsLock' = p <=> pc'[p] \in {"replace", "close", "sweep"}
    BY <1>1, ProcsDistinct DEF AcceptFails
  <2>. QED
    BY <2>1 DEF AcceptFails, IInv, TypeOK
<1>4. Coupled'
  BY <1>1 DEF AcceptFails, IInv, Coupled
<1>5. EntryHasOwner' /\ InUseStaysOpen'
  BY DEF AcceptFails, EntryHasOwner, InUseStaysOpen
<1>. QED BY <1>2, <1>3, <1>4, <1>5 DEF IInv

\* Create, in its three steps: the entry it leaves is one of the connection in
\* hand, or the one that was there.
LEMMA CreateInv ==
    ASSUME IInv, Create \/ CreateLock \/ CreateReplace
    PROVE  IInv'
<1>1. current \in Conns /\ pc[current] = "accepted" /\ AddrOf[current] \in Addrs
  BY ConnsAssumption DEF IInv, Coupled, Create, CreateLock, CreateReplace
<1>2. CASE CreateLock
  <2>1. ControlTypes'
    BY <1>2, ProcsDistinct
    DEF CreateLock, Goto, IInv, ControlTypes, AcceptorLabels
  <2>2. TypeOK'
    BY <1>2, ProcsDistinct
    DEF CreateLock, Goto, IInv, TypeOK, ControlTypes, config
  <2>3. Coupled' /\ EntryHasOwner' /\ InUseStaysOpen'
    BY <1>2, ProcsDistinct
    DEF CreateLock, Goto, IInv, TypeOK, ControlTypes, Coupled, EntryHasOwner,
        InUseStaysOpen
  <2>. QED BY <2>1, <2>2, <2>3 DEF IInv
<1>3. CASE Create \/ CreateReplace
  <2>1. /\ pc' = [pc EXCEPT ![Acceptor] = "dispatch"]
        /\ UNCHANGED <<peer, sscLock, current, todo, config>>
    BY <1>3 DEF Create, CreateReplace, Goto
  <2>2. /\ connsLock' = Nobody
        /\ \A p \in Procs \ {Acceptor} : connsLock # p
    BY <1>3, ProcsDistinct
    DEF Create, CreateReplace, IInv, TypeOK, ControlTypes
  <2>3. \/ entry' = [entry EXCEPT ![AddrOf[current]] = current]
        \/ entry' = entry
    BY <1>3 DEF Create, CreateReplace
  <2>4. /\ isOpen' \in [Conns -> BOOLEAN] /\ isOld' \in [Conns -> BOOLEAN]
        /\ \A d \in Conns : sscLock[d] # Nobody /\ isOpen[d] => isOpen'[d]
    <3>1. CASE Create
      BY <1>1, <3>1 DEF Create, IInv, TypeOK
    <3>2. CASE CreateReplace
      BY <1>1, <3>2 DEF CreateReplace, IInv, TypeOK
    <3>. QED BY <1>3, <3>1, <3>2
  <2>5. \E d \in Conns : target' = [target EXCEPT ![current] = d]
    <3>1. CASE Create
      BY <1>1, <3>1, ProcsDistinct DEF Create, HasOpen, IInv, TypeOK
    <3>2. CASE CreateReplace
      BY <1>1, <3>2 DEF CreateReplace
    <3>. QED BY <1>3, <3>1, <3>2
  <2>6. ControlTypes'
    BY <2>1, ProcsDistinct DEF IInv, ControlTypes, AcceptorLabels
  <2>7. TypeOK'
    <3>1. \A p \in Procs : connsLock' = p
             <=> pc'[p] \in {"replace", "close", "sweep"}
      BY <2>1, <2>2, ProcsDistinct DEF IInv, TypeOK, ControlTypes
    <3>2. entry' \in [Addrs -> Conns \cup {Nobody}] /\ target' \in [Conns -> Conns]
      BY <1>1, <2>3, <2>5 DEF IInv, TypeOK
    <3>. QED BY <2>1, <2>2, <2>4, <3>1, <3>2 DEF IInv, TypeOK, config
  <2>8. \A c \in Conns : pc'[c] = pc[c]
    BY <2>1, ProcsDistinct DEF IInv, ControlTypes
  <2>9. Coupled'
    BY <1>1, <2>1, <2>8 DEF IInv, Coupled
  <2>10. EntryHasOwner'
    BY <1>1, <2>3, <2>8, <2>7, ProcsDistinct DEF IInv, EntryHasOwner, TypeOK
  <2>11. InUseStaysOpen'
    BY <1>1, <2>1, <2>4, <2>5, <2>8 DEF IInv, InUseStaysOpen, TypeOK
  <2>. QED BY <2>6, <2>7, <2>9, <2>10, <2>11 DEF IInv
<1>. QED BY <1>2, <1>3

\* A sync node gets its goroutine, anyone else is to be removed.
LEMMA DispatchInv ==
    ASSUME IInv, Dispatch
    PROVE  IInv'
<1>1. current \in Conns /\ pc[current] = "accepted"
  BY DEF IInv, Coupled, Dispatch
<1>2. ControlTypes'
  BY <1>1, ProcsDistinct
  DEF Dispatch, Goto, IInv, ControlTypes, ConnLabels, AcceptorLabels
<1>3. TypeOK'
  BY <1>1, ProcsDistinct
  DEF Dispatch, Goto, IInv, TypeOK, ControlTypes, config
<1>4. Coupled' /\ EntryHasOwner' /\ InUseStaysOpen'
  BY <1>1, ProcsDistinct
  DEF Dispatch, Goto, IInv, TypeOK, ControlTypes, Coupled, EntryHasOwner,
      InUseStaysOpen
<1>. QED BY <1>2, <1>3, <1>4 DEF IInv

-----------------------------------------------------------------------------
(* Steps of the handlers                                                   *)

\* handleConnection takes the ssc.lock of an open entry only and gives it back
\* before Remove.
LEMMA HandlerInv ==
    ASSUME IInv, NEW c \in Conns,
           HandlerLock(c) \/ HandlerRead(c) \/ HandlerSkip(c)
    PROVE  IInv'
<1>1. CASE HandlerLock(c)
  <2>1. ControlTypes'
    BY <1>1, ProcsDistinct
    DEF HandlerLock, Goto, IInv, ControlTypes, ConnLabels
  <2>2. TypeOK'
    BY <1>1, ProcsDistinct
    DEF HandlerLock, Goto, IInv, TypeOK, ControlTypes, config
  <2>3. Coupled' /\ EntryHasOwner' /\ InUseStaysOpen'
    BY <1>1, ProcsDistinct
    DEF HandlerLock, Goto, IInv, TypeOK, ControlTypes, Coupled, EntryHasOwner,
        InUseStaysOpen
  <2>. QED BY <2>1, <2>2, <2>3 DEF IInv
<1>2. CASE HandlerRead(c)
  <2>1. ControlTypes'
    BY <1>2, ProcsDistinct
    DEF HandlerRead, Goto, IInv, ControlTypes, ConnLabels
  <2>2. TypeOK'
    BY <1>2, ProcsDistinct
    DEF HandlerRead, Goto, IInv, TypeOK, ControlTypes, config
  <2>3. Coupled' /\ EntryHasOwner' /\ InUseStaysOpen'
    BY <1>2, ProcsDistinct
    DEF HandlerRead, Goto, IInv, TypeOK, ControlTypes, Coupled, EntryHasOwner,
        InUseStaysOpen
  <2>. QED BY <2>1, <2>2, <2>3 DEF IInv
<1>3. CASE HandlerSkip(c)
  BY <1>3, ProcsDistinct
  DEF HandlerSkip, IInv, TypeOK, ControlTypes, Coupled, EntryHasOwner,
      InUseStaysOpen, config
<1>. QED BY <1>1, <1>2, <1>3

\* Remove, by the acceptor or a handler: the owner of an entry is done only
\* when the entry of its address is gone.
LEMMA RemoveInv ==
    ASSUME IInv, NEW p \in Conns \cup {Acceptor}, Remove(p)
    PROVE  IInv'
<1>. DEFINE c == Subject(p)
<1>1. /\ c \in Conns /\ AddrOf[c] \in Addrs
      /\ pc[p] \in {"remove", "close"}
      /\ p = Acceptor => pc[c] = "accepted"
      /\ p # Acceptor => c = p
      /\ p \in Procs
  BY ProcsDistinct, ConnsAssumption
  DEF Remove, RemoveLock, RemoveClose, Subject, IInv, Coupled
<1>2. CASE RemoveLock(p) /\ entry[AddrOf[c]] # Nobody
  <2>1. /\ connsLock = Nobody /\ connsLock' = p
        /\ pc[p] = "remove" /\ pc' = [pc EXCEPT ![p] = "close"]
        /\ UNCHANGED <<peer, entry, isOpen, isOld, target, sscLock, current,
                       todo, config>>
    BY <1>2 DEF RemoveLock, Goto
  <2>2. ControlTypes'
    BY <1>1, <2>1, ProcsDistinct
    DEF IInv, ControlTypes, ConnLabels, AcceptorLabels
  <2>3. TypeOK'
    BY <1>1, <2>1, ProcsDistinct DEF IInv, TypeOK, ControlTypes, config
  <2>4. Coupled' /\ EntryHasOwner' /\ InUseStaysOpen'
    BY <1>1, <2>1, ProcsDistinct
    DEF IInv, TypeOK, ControlTypes, Coupled, EntryHasOwner, InUseStaysOpen
  <2>. QED BY <2>2, <2>3, <2>4 DEF IInv
<1>3. CASE RemoveClose(p) \/ (RemoveLock(p) /\ entry[AddrOf[c]] = Nobody)
  <2>1. Removed(p) /\ UNCHANGED <<peer, sscLock, todo, config>>
    BY <1>3 DEF RemoveLock, RemoveClose
  <2>2. /\ connsLock' = Nobody
        /\ \A q \in Procs \ {p} : connsLock # q
    BY <1>1, <1>3, ProcsDistinct
    DEF RemoveLock, RemoveClose, IInv, TypeOK
  <2>3. /\ entry' = [entry EXCEPT ![AddrOf[c]] = Nobody]
        /\ isOpen' \in [Conns -> BOOLEAN] /\ isOld' \in [Conns -> BOOLEAN]
        /\ \A d \in Conns : sscLock[d] # Nobody /\ isOpen[d] => isOpen'[d]
    <3>1. CASE RemoveClose(p)
      BY <1>1, <3>1 DEF RemoveClose, IInv, TypeOK
    <3>2. CASE RemoveLock(p) /\ entry[AddrOf[c]] = Nobody
      BY <1>1, <3>2 DEF RemoveLock, IInv, TypeOK
    <3>. QED BY <1>3, <3>1, <3>2
  <2>4. /\ pc'[c] = "done"
        /\ \A q \in Procs \ {c, Acceptor} : pc'[q] = pc[q]
        /\ pc'[Acceptor] = IF p = Acceptor THEN "accept" ELSE pc[Acceptor]
        /\ DOMAIN pc' = Procs
    BY <1>1, <2>1, ProcsDistinct DEF Removed, IInv, ControlTypes
  <2>5. /\ target' = [target EXCEPT ![c] = c]
        /\ current' = IF p = Acceptor THEN Nobody ELSE current
    BY <2>1 DEF Removed
  <2>6. ControlTypes'
    <3>1. pc' = [pc EXCEPT ![c] = "done",
                           ![Acceptor] = IF p = Acceptor THEN "accept" ELSE @]
      BY <2>1 DEF Removed
    <3>. HIDE DEF c
    <3>. QED
      BY <1>1, <3>1, ProcsDistinct
      DEF IInv, ControlTypes, ConnLabels, AcceptorLabels
  <2>. HIDE DEF c
  <2>7. TypeOK'
    <3>1. \A q \in Procs : connsLock' = q
             <=> pc'[q] \in {"replace", "close", "sweep"}
      BY <1>1, <2>2, <2>4, ProcsDistinct DEF IInv, TypeOK, ControlTypes
    <3>2. /\ entry' \in [Addrs -> Conns \cup {Nobody}]
          /\ target' \in [Conns -> Conns]
          /\ current' \in Conns \cup {Nobody}
      BY <1>1, <2>3, <2>5 DEF IInv, TypeOK
    <3>. QED BY <2>1, <2>2, <2>3, <3>1, <3>2 DEF IInv, TypeOK, config
  <2>8. Coupled'
    <3>1. \A d \in Conns : peer'[d] = "none" <=> pc'[d] = "none"
      BY <1>1, <2>1, <2>4, ProcsDistinct DEF IInv, Coupled
    <3>2. ASSUME pc'[Acceptor] \notin {"accept", "down"}
          PROVE  current' \in Conns /\ pc'[current'] = "accepted"
      BY <1>1, <2>4, <2>5, <3>2, ProcsDistinct DEF IInv, Coupled
    <3>. QED BY <3>1, <3>2 DEF Coupled
  <2>9. EntryHasOwner'
    BY <1>1, <2>3, <2>4, ProcsDistinct DEF IInv, EntryHasOwner, TypeOK
  <2>10. InUseStaysOpen'
    BY <1>1, <2>1, <2>3, <2>4, <2>5, ProcsDistinct
    DEF IInv, InUseStaysOpen, TypeOK
  <2>. QED BY <2>6, <2>7, <2>8, <2>9, <2>10 DEF IInv
<1>. QED BY <1>2, <1>3 DEF Remove, RemoveLock

-----------------------------------------------------------------------------
(* Steps of the clean-up                                                   *)

\* CleanUp closes only entries whose ssc.lock is free.
LEMMA CleanerInv ==
    ASSUME IInv, CleanerStep
    PROVE  IInv'
<1>1. CASE CleanUpLock \/ CleanUpDone
  <2>1. /\ \/ pc' = [pc EXCEPT ![Cleaner] = "sweep"] /\ connsLock' = Cleaner
              /\ connsLock = Nobody
           \/ pc' = [pc EXCEPT ![Cleaner] = "sleep"] /\ connsLock' = Nobody
              /\ pc[Cleaner] = "sweep"
        /\ todo' \subseteq Conns
        /\ UNCHANGED <<peer, entry, isOpen, isOld, target, sscLock, current,
                       config>>
    BY <1>1 DEF CleanUpLock, CleanUpDone, Goto, IInv, TypeOK
  <2>2. ControlTypes'
    BY <2>1, ProcsDistinct DEF IInv, ControlTypes
  <2>3. TypeOK'
    BY <2>1, ProcsDistinct DEF IInv, TypeOK, ControlTypes, config
  <2>4. Coupled' /\ EntryHasOwner' /\ InUseStaysOpen'
    BY <2>1, ProcsDistinct
    DEF IInv, TypeOK, ControlTypes, Coupled, EntryHasOwner, InUseStaysOpen
  <2>. QED BY <2>2, <2>3, <2>4 DEF IInv
<1>2. CASE CleanUpClose
  BY <1>2, ProcsDistinct
  DEF CleanUpClose, IInv, TypeOK, ControlTypes, Coupled, EntryHasOwner,
      InUseStaysOpen, config
<1>. QED BY <1>1, <1>2 DEF CleanerStep

-----------------------------------------------------------------------------
\* Every step keeps the inductive invariant.
LEMMA NextInv == IInv /\ [Next]_vars => IInv'
<1>. SUFFICES ASSUME IInv, [Next]_vars PROVE IInv' OBVIOUS
<1>1. CASE UNCHANGED vars
  BY <1>1
  DEF vars, config, IInv, TypeOK, ControlTypes, Coupled, EntryHasOwner,
      InUseStaysOpen
<1>2. CASE AcceptorStep
  BY <1>2, AcceptInv, CreateInv, DispatchInv, RemoveInv DEF AcceptorStep
<1>3. ASSUME NEW c \in Conns, HandlerStep(c) PROVE IInv'
  BY <1>3, HandlerInv, RemoveInv DEF HandlerStep
<1>. QED BY <1>1, <1>2, <1>3, AcceptFailsInv, CleanerInv, ReloadInv, PeerInv DEF Next

\* The invariant holds in every behaviour.
LEMMA AlwaysInv == Spec => []IInv
BY InitInv, NextInv, PTL DEF Spec

\* The types, and mutual exclusion on the map: sscs.lock is held exactly by the
\* goroutine that is closing entries under it, however many there are.
THEOREM TypeCorrect == Spec => []TypeOK
<1>1. IInv => TypeOK BY DEF IInv
<1>. QED BY <1>1, AlwaysInv, PTL

\* The map does not fill up: every entry belongs to a connection from its
\* address whose own Remove is still to come, for any connections and any way
\* in which their addresses coincide.
THEOREM EntriesOwned == Spec => []EntryHasOwner
<1>1. IInv => EntryHasOwner BY DEF IInv
<1>. QED BY <1>1, AlwaysInv, PTL

\* Nobody closes a connection that handleConnection reads from, neither Create,
\* nor Remove of the same address, nor CleanUp.
THEOREM NotClosedInUse == Spec => []InUseStaysOpen
<1>1. IInv => InUseStaysOpen BY DEF IInv
<1>. QED BY <1>1, AlwaysInv, PTL
====
