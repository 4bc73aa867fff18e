-------------------------- MODULE SessionsProofs --------------------------
(***************************************************************************)
(* Proofs about Sessions for any number of connections, channels and heap  *)
(* cells and any limits: its types, the session gauge, orphans, and the    *)
(* condition on the limits under which expire cannot crash the service.    *)
(***************************************************************************)
EXTENDS Sessions, FiniteSetTheorems, TLAPS

-----------------------------------------------------------------------------
(* What the setters and the allocator return                               *)

\* The session ID every call is about is a connection.
LEMMA IDType ==
    ASSUME TypeOK, NEW p \in Procs
    PROVE  ID(p) \in Conns
BY ProcsAssumption DEF ID, TypeOK, OtherTypes, Procs

\* Setters map sessions to sessions and never change the orphan mark.
LEMMA SetterType ==
    ASSUME NEW s \in Session
    PROVE  /\ UpdateActivity(s) \in Session
           /\ SetUser(s) \in Session
           /\ SetShell(s) \in Session
           /\ UpdateActivity(s).orphan = s.orphan
           /\ SetUser(s).orphan = s.orphan
           /\ SetShell(s).orphan = s.orphan
<1>1. IdleCap \in Nat /\ 0 \in 0..IdleCap
  BY BoundsAssumption DEF IdleCap
<1>. QED
  BY <1>1 DEF Session, UpdateActivity, SetUser, SetShell

\* So does attaching a channel.
LEMMA SetSSHSessionType ==
    ASSUME NEW s \in Session, NEW h \in Chans
    PROVE  /\ SetSSHSession(s, h) \in Session
           /\ SetSSHSession(s, h).orphan = s.orphan
<1>1. IdleCap \in Nat /\ 0 \in 0..IdleCap
  BY BoundsAssumption DEF IdleCap
<1>. QED
  BY <1>1 DEF Session, UpdateActivity, SetSSHSession

\* What Create puts into the map is a session that is no orphan.
LEMMA NewSessionType == NewSession \in Session /\ NewSession.orphan = FALSE
<1>1. IdleCap \in Nat /\ 0 \in 0..IdleCap
  BY BoundsAssumption DEF IdleCap
<1>. QED
  BY <1>1 DEF Session, NewSession

\* Collecting garbage keeps the heap a heap of sessions.
LEMMA CollectedType ==
    ASSUME NEW h \in [Objs -> Session]
    PROVE  Collected(h) \in [Objs -> Session]
BY NewSessionType DEF Collected

-----------------------------------------------------------------------------
(* Types                                                                   *)

\* The empty registry with all goroutines at their start has the types.
LEMMA InitType == Init => TypeOK
<1>. SUFFICES ASSUME Init PROVE TypeOK OBVIOUS
<1>1. HeapTypes BY NewSessionType DEF Init, HeapTypes
<1>2. ControlTypes
  <2>1. \A p \in Procs : pc[p] \in {"off", "idle", "sleep"}
    BY DEF Init
  <2>2. pc \in [Procs -> Locations] BY DEF Init, Locations
  <2>3. pc[Cleaner] = "sleep" /\ ~locked
    BY ProcsAssumption DEF Init, Procs
  <2>4. ret \in [Procs -> Locations \ (Holding \cup {"sweep", "unwind"})]
    BY DEF Init, Locations, Holding
  <2>. QED BY <2>1, <2>2, <2>3, <2>4 DEF Init, ControlTypes, Holding
<1>3. OtherTypes
  <2>1. (CHOOSE c \in Conns : TRUE) \in Conns BY ProcsAssumption
  <2>2. calls \in [Conns -> 0..MaxCalls] BY BoundsAssumption DEF Init
  <2>3. chanOpen \in [Chans -> BOOLEAN] BY DEF Init
  <2>4. serving \in [Chans -> Chans \cup {NoChan}] BY DEF Init
  <2>5. victim \in Conns BY <2>1, Zenon DEF Init
  <2>6. activeSessions \in Int BY DEF Init
  <2>7. todo \subseteq Conns /\ crashed \in BOOLEAN BY Zenon DEF Init
  <2>. QED BY <2>2, <2>3, <2>4, <2>5, <2>6, <2>7 DEF OtherTypes
<1>. QED BY <1>1, <1>2, <1>3 DEF TypeOK

\* Looking a session up, or creating it, from any callback.
LEMMA EnterType ==
    ASSUME TypeOK, NEW p \in Conns \cup Chans,
           NEW from, NEW to \in Locations \ {"unwind"}, Enter(p, from, to)
    PROVE  TypeOK'
<1>. p \in Procs /\ p # Cleaner BY ProcsAssumption DEF Procs
<1>1. ID(p) \in Conns BY IDType
<1>2. /\ HeapTypes'
      /\ ptr'[p] # NoObj
      /\ \A q \in Procs \ {p} : ptr'[q] = ptr[q]
      /\ activeSessions' \in Int
  <2>1. CASE Has(ID(p))
    BY <1>1, <2>1
    DEF Enter, Create, Has, TypeOK, HeapTypes, OtherTypes
  <2>2. CASE ~Has(ID(p))
    <3>. DEFINE o == CHOOSE o \in Free : TRUE
    <3>1. o \in Objs BY <2>2 DEF Enter, Create, Free
    <3>2. /\ sessions' = [sessions EXCEPT ![ID(p)] = o]
          /\ heap' = [heap EXCEPT ![o] = NewSession]
          /\ ptr' = [ptr EXCEPT ![p] = o]
          /\ activeSessions' = activeSessions + 1
      BY <2>2 DEF Enter, Create
    <3>. HIDE DEF o
    <3>. QED
      BY <1>1, <3>1, <3>2, NewSessionType, HeapAssumption
      DEF TypeOK, HeapTypes, OtherTypes
  <2>. QED BY <2>1, <2>2
<1>3. ControlTypes'
  BY <1>2 DEF Enter, Create, Goto, TypeOK, ControlTypes
<1>4. OtherTypes'
  BY <1>2 DEF Enter, TypeOK, OtherTypes
<1>. QED BY <1>2, <1>3, <1>4 DEF TypeOK

\* Removing, from any goroutine.
LEMMA RemoveType ==
    ASSUME TypeOK, NEW p \in Procs, Remove(p)
    PROVE  TypeOK'
<1>1. ID(p) \in Conns BY IDType
<1>2. CASE RemoveEntry(p)
  <2>1. HeapTypes'
    <3>1. CASE Has(ID(p))
      <4>1. sessions[ID(p)] \in Objs
        BY <1>1, <3>1 DEF Has, TypeOK, HeapTypes
      <4>2. [heap EXCEPT ![sessions[ID(p)]] = UpdateActivity(@)]
              \in [Objs -> Session]
        BY <4>1, SetterType DEF TypeOK, HeapTypes
      <4>. QED
        BY <1>1, <1>2, <3>1, <4>2, CollectedType
        DEF RemoveEntry, TypeOK, HeapTypes
    <3>2. CASE ~Has(ID(p))
      BY <1>2, <3>2 DEF RemoveEntry, TypeOK, HeapTypes
    <3>. QED BY <3>1, <3>2
  <2>2. ControlTypes'
    <3>1. CASE Has(ID(p))
      BY <1>2, <3>1 DEF RemoveEntry, TypeOK, ControlTypes
    <3>2. CASE ~Has(ID(p))
      <4>1. /\ "unwind" \in Locations /\ "unwind" \notin Holding
            /\ "unwind" # "sweep" /\ "rm" # "sweep"
        BY DEF Locations, Holding
      <4>2. /\ pc' = [pc EXCEPT ![p] = IF frames[p] = 0 THEN ret[p]
                                                       ELSE "unwind"]
            /\ UNCHANGED <<frames, ret, ptr, locked>>
            /\ pc[p] = "rm" /\ ~locked
        BY <1>2, <3>2 DEF RemoveEntry, Goto
      <4>3. CASE frames[p] = 0
        BY <4>1, <4>2, <4>3 DEF TypeOK, ControlTypes
      <4>4. CASE frames[p] # 0
        BY <4>1, <4>2, <4>4 DEF TypeOK, ControlTypes
      <4>. QED BY <4>3, <4>4
    <3>. QED BY <3>1, <3>2
  <2>3. OtherTypes' BY <1>2 DEF RemoveEntry, TypeOK, OtherTypes
  <2>. QED BY <2>1, <2>2, <2>3 DEF TypeOK
<1>3. CASE RemoveDecrement(p)
  <2>1. "log" \in Locations \ Holding BY DEF Locations, Holding
  <2>2. HeapTypes' BY <1>3 DEF RemoveDecrement, TypeOK, HeapTypes
  <2>3. ControlTypes'
    BY <1>3, <2>1 DEF RemoveDecrement, TypeOK, ControlTypes, Goto
  <2>4. OtherTypes' BY <1>3 DEF RemoveDecrement, TypeOK, OtherTypes
  <2>. QED BY <2>2, <2>3, <2>4 DEF TypeOK
<1>4. CASE RemoveLog(p)
  <2>1. "unwind" \in Locations \ Holding BY DEF Locations, Holding
  <2>2. HeapTypes' BY <1>4 DEF RemoveLog, TypeOK, HeapTypes
  <2>3. ControlTypes'
    BY <1>4, <2>1 DEF RemoveLog, TypeOK, ControlTypes, Goto
  <2>4. OtherTypes' BY <1>4 DEF RemoveLog, TypeOK, OtherTypes
  <2>. QED BY <2>2, <2>3, <2>4 DEF TypeOK
<1>. QED BY <1>2, <1>3, <1>4 DEF Remove

\* Callbacks that return: the pointer goes and a session is written back.
LEMMA LeaveType ==
    ASSUME HeapTypes, NEW p \in Procs, NEW s \in Session, Leave(p, s)
    PROVE  /\ HeapTypes'
           /\ \A q \in Procs \ {p} : ptr'[q] = ptr[q]
<1>1. [heap EXCEPT ![ptr[p]] = s] \in [Objs -> Session] BY DEF HeapTypes
<1>. QED BY <1>1, CollectedType DEF Leave, HeapTypes

\* The session a goroutine inside a callback works on.
LEMMA HeldSession ==
    ASSUME TypeOK, NEW p \in Procs, pc[p] \in Holding
    PROVE  ptr[p] \in Objs /\ heap[ptr[p]] \in Session
BY DEF TypeOK, HeapTypes, ControlTypes

\* Moving a goroutine that holds no session after the step, or keeps it.
LEMMA GotoType ==
    ASSUME ControlTypes, NEW p \in Procs, p # Cleaner,
           NEW l \in Locations \ {"unwind"}, pc' = [pc EXCEPT ![p] = l],
           l \in Holding => ptr'[p] # NoObj,
           \A q \in Procs \ {p} : ptr'[q] = ptr[q],
           UNCHANGED <<frames, locked>>,
           ret' \in [Procs -> Locations \ (Holding \cup {"sweep", "unwind"})]
    PROVE  ControlTypes'
<1>. Cleaner \in Procs BY DEF Procs
<1>1. /\ pc' \in [Procs -> Locations]
      /\ pc'[p] = l /\ \A q \in Procs \ {p} : pc'[q] = pc[q]
  BY DEF ControlTypes
<1>. QED BY <1>1 DEF ControlTypes

\* Callbacks of a connection keep the types.
LEMMA ConnType ==
    ASSUME TypeOK, NEW c \in Conns, ConnStep(c) \/ ClientStep(c)
    PROVE  TypeOK'
<1>. c \in Procs /\ c # Cleaner BY ProcsAssumption DEF Procs
<1>. USE DEF Locations, Holding
<1>1. CASE Enter(c, "accept", "accepted") BY <1>1, EnterType
<1>2. CASE Enter(c, "auth", "authed") BY <1>2, EnterType
<1>3. CASE Enter(c, "fail", "failed") BY <1>3, EnterType
<1>4. CASE Enter(c, "forward", "forwarded") BY <1>4, EnterType
<1>5. CASE ConnectionCallback(c)
  <2>1. heap[ptr[c]] \in Session BY <1>5, HeldSession DEF ConnectionCallback
  <2>2. HeapTypes' /\ \A q \in Procs \ {c} : ptr'[q] = ptr[q]
    BY <1>5, <2>1, LeaveType, SetterType DEF ConnectionCallback, TypeOK
  <2>3. ControlTypes'
    BY <1>5, <2>2, GotoType
    DEF ConnectionCallback, Goto, TypeOK, ControlTypes
  <2>4. OtherTypes' BY <1>5 DEF ConnectionCallback, TypeOK, OtherTypes
  <2>. QED BY <2>2, <2>3, <2>4 DEF TypeOK
<1>6. CASE AuthHandler(c)
  <2>1. heap[ptr[c]] \in Session BY <1>6, HeldSession DEF AuthHandler
  <2>2. HeapTypes' /\ \A q \in Procs \ {c} : ptr'[q] = ptr[q]
    BY <1>6, <2>1, LeaveType, SetterType DEF AuthHandler, TypeOK
  <2>3. ControlTypes'
    BY <1>6, <2>2, GotoType DEF AuthHandler, Goto, TypeOK, ControlTypes
  <2>4. OtherTypes' BY <1>6 DEF AuthHandler, TypeOK, OtherTypes
  <2>. QED BY <2>2, <2>3, <2>4 DEF TypeOK
<1>7. CASE ConnectionFailedCallback(c)
  <2>1. heap[ptr[c]] \in Session
    BY <1>7, HeldSession DEF ConnectionFailedCallback
  <2>2. HeapTypes' /\ \A q \in Procs \ {c} : ptr'[q] = ptr[q]
    BY <1>7, <2>1, LeaveType DEF ConnectionFailedCallback, TypeOK
  <2>3. ControlTypes'
    BY <1>7, <2>2, GotoType
    DEF ConnectionFailedCallback, CallRemove, Goto, TypeOK, ControlTypes
  <2>4. OtherTypes' BY <1>7 DEF ConnectionFailedCallback, TypeOK, OtherTypes
  <2>. QED BY <2>2, <2>3, <2>4 DEF TypeOK
<1>8. CASE PortForwardingCallback(c)
  <2>1. heap[ptr[c]] \in Session
    BY <1>8, HeldSession DEF PortForwardingCallback
  <2>2. HeapTypes' /\ \A q \in Procs \ {c} : ptr'[q] = ptr[q]
    BY <1>8, <2>1, LeaveType DEF PortForwardingCallback, TypeOK
  <2>3. ControlTypes'
    BY <1>8, <2>2, GotoType
    DEF PortForwardingCallback, CallRemove, TypeOK, ControlTypes
  <2>4. OtherTypes' BY <1>8 DEF PortForwardingCallback, TypeOK, OtherTypes
  <2>. QED BY <2>2, <2>3, <2>4 DEF TypeOK
<1>9. CASE ClientStep(c)
  <2>1. HeapTypes'
    BY <1>9
    DEF ClientStep, Connect, Handshake, Forward, Disconnect, TypeOK, HeapTypes
  <2>2. ControlTypes'
    BY <1>9, GotoType
    DEF ClientStep, Connect, Handshake, Forward, Disconnect, Goto, TypeOK,
        ControlTypes
  <2>3. OtherTypes'
    <3>1. CASE Used(c) /\ UNCHANGED <<activeSessions, serving, chanOpen, todo,
                                      victim, crashed>>
      <4>1. calls' \in [Conns -> 0..MaxCalls]
        BY <3>1, BoundsAssumption DEF Used, TypeOK, OtherTypes
      <4>. QED BY <3>1, <4>1 DEF TypeOK, OtherTypes
    <3>2. CASE UNCHANGED <<activeSessions, serving, chanOpen, calls, todo,
                           victim, crashed>>
      BY <3>2 DEF TypeOK, OtherTypes
    <3>3. CASE Disconnect(c)
      <4>1. chanOpen' \in [Chans -> BOOLEAN] BY <3>3 DEF Disconnect
      <4>. QED BY <3>3, <4>1 DEF Disconnect, TypeOK, OtherTypes
    <3>. QED
      BY <1>9, <3>1, <3>2, <3>3 DEF ClientStep, Connect, Handshake, Forward
  <2>. QED BY <2>1, <2>2, <2>3 DEF TypeOK
<1>. QED
  BY <1>1, <1>2, <1>3, <1>4, <1>5, <1>6, <1>7, <1>8, <1>9, RemoveType
  DEF ConnStep

\* Callbacks of a channel and sessionHandler keep the types.
LEMMA ChanType ==
    ASSUME TypeOK, NEW h \in Chans,
           ChanStep(h) \/ OpenChannel(h) \/ ProcessCommand(h)
    PROVE  TypeOK'
<1>. h \in Procs /\ h # Cleaner BY ProcsAssumption DEF Procs
<1>. USE DEF Locations, Holding
<1>1. CASE Enter(h, "pty", "ptySet") BY <1>1, EnterType
<1>2. CASE Enter(h, "request", "requestSet") BY <1>2, EnterType
<1>3. CASE Enter(h, "handler", "created") BY <1>3, EnterType
<1>4. CASE RequestCallback(h)
  <2>1. heap[ptr[h]] \in Session BY <1>4, HeldSession DEF RequestCallback
  <2>2. HeapTypes' /\ \A q \in Procs \ {h} : ptr'[q] = ptr[q]
    BY <1>4, <2>1, LeaveType, SetterType DEF RequestCallback, TypeOK
  <2>3. ControlTypes'
    BY <1>4, <2>2, GotoType DEF RequestCallback, Goto, TypeOK, ControlTypes
  <2>4. OtherTypes' BY <1>4 DEF RequestCallback, TypeOK, OtherTypes
  <2>. QED BY <2>2, <2>3, <2>4 DEF TypeOK
<1>5. CASE HandlerAttach(h)
  <2>1. heap[ptr[h]] \in Session /\ ptr[h] \in Objs
    BY <1>5, HeldSession DEF HandlerAttach
  <2>2. HeapTypes'
    BY <1>5, <2>1, SetSSHSessionType
    DEF HandlerAttach, Touch, TypeOK, HeapTypes
  <2>3. ptr'[h] # NoObj BY <1>5, <2>1, HeapAssumption DEF HandlerAttach
  <2>4. ControlTypes'
    BY <1>5, <2>3, GotoType DEF HandlerAttach, Goto, TypeOK, ControlTypes
  <2>5. OtherTypes' BY <1>5 DEF HandlerAttach, TypeOK, OtherTypes
  <2>. QED BY <2>2, <2>4, <2>5 DEF TypeOK
<1>6. CASE HandlerSetShell(h)
  <2>1. heap[ptr[h]] \in Session /\ ptr[h] \in Objs
    BY <1>6, HeldSession DEF HandlerSetShell
  <2>2. HeapTypes'
    BY <1>6, <2>1, SetterType DEF HandlerSetShell, Touch, TypeOK, HeapTypes
  <2>3. ptr'[h] # NoObj BY <1>6, <2>1, HeapAssumption DEF HandlerSetShell
  <2>4. ControlTypes'
    BY <1>6, <2>3, GotoType DEF HandlerSetShell, Goto, TypeOK, ControlTypes
  <2>5. OtherTypes' BY <1>6 DEF HandlerSetShell, TypeOK, OtherTypes
  <2>. QED BY <2>2, <2>4, <2>5 DEF TypeOK
<1>7. CASE HandlerReadShell(h)
  <2>1. heap[ptr[h]] \in Session /\ ptr[h] \in Objs
    BY <1>7, HeldSession DEF HandlerReadShell
  <2>2. HeapTypes' BY <1>7 DEF HandlerReadShell, TypeOK, HeapTypes
  <2>3. ptr'[h] # NoObj BY <1>7, <2>1, HeapAssumption DEF HandlerReadShell
  <2>4. ControlTypes'
    BY <1>7, <2>3, GotoType DEF HandlerReadShell, Goto, TypeOK, ControlTypes
  <2>5. serving' \in [Chans -> Chans \cup {NoChan}]
    BY <1>7, <2>1 DEF HandlerReadShell, Session, TypeOK, OtherTypes
  <2>6. OtherTypes' BY <1>7, <2>5 DEF HandlerReadShell, TypeOK, OtherTypes
  <2>. QED BY <2>2, <2>4, <2>6 DEF TypeOK
<1>8. CASE HandlerFinish(h)
  <2>1. heap[ptr[h]] \in Session BY <1>8, HeldSession DEF HandlerFinish
  <2>2. HeapTypes' /\ \A q \in Procs \ {h} : ptr'[q] = ptr[q]
    BY <1>8, <2>1, LeaveType DEF HandlerFinish, TypeOK
  <2>3. ControlTypes'
    BY <1>8, <2>2, GotoType
    DEF HandlerFinish, CallRemove, Goto, TypeOK, ControlTypes
  <2>4. chanOpen' \in [Chans -> BOOLEAN]
    BY <1>8 DEF HandlerFinish, TypeOK, OtherTypes
  <2>5. OtherTypes' BY <1>8, <2>4 DEF HandlerFinish, TypeOK, OtherTypes
  <2>. QED BY <2>2, <2>3, <2>5 DEF TypeOK
<1>9. CASE LibraryExit(h) \/ OpenChannel(h)
  <2>1. HeapTypes' BY <1>9 DEF LibraryExit, OpenChannel, TypeOK, HeapTypes
  <2>2. ControlTypes'
    BY <1>9, GotoType
    DEF LibraryExit, OpenChannel, Goto, TypeOK, ControlTypes
  <2>3. chanOpen' \in [Chans -> BOOLEAN]
    BY <1>9 DEF LibraryExit, OpenChannel, TypeOK, OtherTypes
  <2>4. OtherTypes'
    BY <1>9, <2>3 DEF LibraryExit, OpenChannel, TypeOK, OtherTypes
  <2>. QED BY <2>1, <2>2, <2>4 DEF TypeOK
<1>10. CASE ProcessCommand(h)
  <2>1. heap[ptr[h]] \in Session /\ ptr[h] \in Objs
    BY <1>10, HeldSession DEF ProcessCommand
  <2>2. HeapTypes'
    BY <1>10, <2>1, SetterType DEF ProcessCommand, Touch, TypeOK, HeapTypes
  <2>3. ControlTypes' BY <1>10 DEF ProcessCommand, TypeOK, ControlTypes
  <2>4. OtherTypes' BY <1>10 DEF ProcessCommand, TypeOK, OtherTypes
  <2>. QED BY <2>2, <2>3, <2>4 DEF TypeOK
<1>. QED
  BY <1>1, <1>2, <1>3, <1>4, <1>5, <1>6, <1>7, <1>8, <1>9, <1>10, RemoveType
  DEF ChanStep

\* cleanUp keeps the types, and takes and releases ss.lock in step with pc.
LEMMA CleanerType ==
    ASSUME TypeOK, CleanerStep
    PROVE  TypeOK'
<1>. Cleaner \in Procs BY DEF Procs
<1>. USE DEF Locations, Holding
<1>1. CASE CleanUpLock
  <2>1. HeapTypes' BY <1>1 DEF CleanUpLock, TypeOK, HeapTypes
  <2>2. ControlTypes' BY <1>1 DEF CleanUpLock, Goto, TypeOK, ControlTypes
  <2>3. OtherTypes' BY <1>1 DEF CleanUpLock, Live, TypeOK, OtherTypes
  <2>. QED BY <2>1, <2>2, <2>3 DEF TypeOK
<1>2. CASE CleanUpSkip
  BY <1>2 DEF CleanUpSkip, TypeOK, HeapTypes, ControlTypes, OtherTypes
<1>3. CASE CleanUpExpire
  <2>1. PICK c \in todo :
          /\ Has(c)
          /\ heap' = [heap EXCEPT ![sessions[c]].orphan =
                                    @ \/ IsOrphan(heap[sessions[c]])]
          /\ chanOpen' = [h \in Chans |->
                             chanOpen[h] /\ (\/ h # heap[sessions[c]].ssh
                                             \/ IsOrphan(heap[sessions[c]]))]
          /\ crashed' = (/\ heap[sessions[c]].ssh = NoChan
                         /\ ~IsOrphan(heap[sessions[c]]))
          /\ victim' = c
          /\ todo' = todo \ {c}
    BY <1>3 DEF CleanUpExpire
  <2>2. c \in Conns /\ sessions[c] \in Objs
    BY <2>1 DEF Has, TypeOK, HeapTypes, OtherTypes
  <2>3. heap' \in [Objs -> Session]
    <3>1. heap[sessions[c]] \in Session
      BY <2>2 DEF TypeOK, HeapTypes
    <3>2. [heap[sessions[c]] EXCEPT !.orphan = @ \/ IsOrphan(heap[sessions[c]])]
             \in Session
      BY <3>1 DEF Session
    <3>. QED BY <2>1, <2>2, <3>2 DEF TypeOK, HeapTypes
  <2>4. HeapTypes' BY <1>3, <2>3 DEF CleanUpExpire, TypeOK, HeapTypes
  <2>5. ControlTypes'
    BY <1>3 DEF CleanUpExpire, CallRemove, TypeOK, ControlTypes
  <2>6. chanOpen' \in [Chans -> BOOLEAN] BY <2>1
  <2>7. crashed' \in BOOLEAN BY <2>1
  <2>8. OtherTypes'
    BY <1>3, <2>1, <2>2, <2>6, <2>7 DEF CleanUpExpire, TypeOK, OtherTypes
  <2>. QED BY <2>4, <2>5, <2>8 DEF TypeOK
<1>4. CASE CleanUpRelock
  <2>1. HeapTypes' BY <1>4 DEF CleanUpRelock, TypeOK, HeapTypes
  <2>2. ControlTypes' BY <1>4 DEF CleanUpRelock, Goto, TypeOK, ControlTypes
  <2>3. OtherTypes' BY <1>4 DEF CleanUpRelock, Live, TypeOK, OtherTypes
  <2>. QED BY <2>1, <2>2, <2>3 DEF TypeOK
<1>5. CASE CleanUpDone
  <2>1. HeapTypes' BY <1>5 DEF CleanUpDone, TypeOK, HeapTypes
  <2>2. ControlTypes' BY <1>5 DEF CleanUpDone, Goto, TypeOK, ControlTypes
  <2>3. OtherTypes' BY <1>5 DEF CleanUpDone, TypeOK, OtherTypes
  <2>. QED BY <2>1, <2>2, <2>3 DEF TypeOK
<1>. QED BY <1>1, <1>2, <1>3, <1>4, <1>5, RemoveType DEF CleanerStep

\* Time only changes how long sessions have been idle.
LEMMA TickType ==
    ASSUME TypeOK, Tick
    PROVE  TypeOK'
<1>1. IdleCap \in Nat BY BoundsAssumption DEF IdleCap
<1>2. \A s \in Session :
        [s EXCEPT !.idle = IF @ < IdleCap THEN @ + 1 ELSE @] \in Session
  BY <1>1 DEF Session
<1>3. HeapTypes' BY <1>2 DEF Tick, TypeOK, HeapTypes
<1>. QED BY <1>3 DEF Tick, TypeOK, HeapTypes, ControlTypes, OtherTypes

\* Types: callbacks that look a session up always hold one, Remove never
\* unwinds a frame it has not pushed, and ss.lock is held by the clean-up
\* worker alone, for any number of connections and channels.
THEOREM TypeCorrect == Spec => []TypeOK
<1>1. TypeOK /\ [Next]_vars => TypeOK'
  <2>1. ASSUME TypeOK, UNCHANGED vars PROVE TypeOK'
    BY <2>1 DEF vars, TypeOK, HeapTypes, ControlTypes, OtherTypes
  <2>. QED
    BY <2>1, ConnType, ChanType, CleanerType, TickType DEF Next
<1>. QED BY <1>1, InitType, PTL DEF Spec

-----------------------------------------------------------------------------
(* A limit of at least OrphanAfter keeps expire from crashing the service   *)

\* The nil SSHSession is dereferenced only where the orphan test, which comes
\* first, has said no; a session without a channel that is older than MaxAge
\* is older than OrphanAfter.
THEOREM Survival ==
    ASSUME OrphanAfter <= MaxAge
    PROVE  Spec => []ServiceSurvives
<1>1. Init => ServiceSurvives BY DEF Init, ServiceSurvives
<1>2. TypeOK /\ ServiceSurvives /\ [Next]_vars => ServiceSurvives'
  <2>. SUFFICES ASSUME TypeOK, ~crashed, [Next]_vars PROVE ~crashed'
    BY DEF ServiceSurvives
  <2>1. CASE CleanUpExpire
    <3>1. PICK c \in todo :
            /\ Has(c) /\ Expired(heap[sessions[c]])
            /\ crashed' = (/\ heap[sessions[c]].ssh = NoChan
                           /\ ~IsOrphan(heap[sessions[c]]))
      BY <2>1 DEF CleanUpExpire
    <3>2. heap[sessions[c]] \in Session
      BY <3>1 DEF Has, TypeOK, HeapTypes, OtherTypes
    <3>3. heap[sessions[c]].idle \in Nat
      BY <3>2, BoundsAssumption DEF Session, IdleCap
    <3>. QED
      BY <3>1, <3>3, BoundsAssumption DEF Expired, IsOrphan
  <2>2. CASE UNCHANGED crashed BY <2>2
  <2>3. CASE \E c \in Conns : ConnStep(c) \/ ClientStep(c)
    BY <2>2, <2>3
    DEF ConnStep, ClientStep, Enter, ConnectionCallback, AuthHandler,
        ConnectionFailedCallback, PortForwardingCallback, Remove, RemoveEntry,
        RemoveDecrement, RemoveLog, Connect, Handshake, Forward, Disconnect
  <2>4. CASE \E h \in Chans : ChanStep(h) \/ OpenChannel(h) \/ ProcessCommand(h)
    BY <2>2, <2>4
    DEF ChanStep, OpenChannel, ProcessCommand, Enter, RequestCallback,
        HandlerAttach, HandlerSetShell, HandlerReadShell, HandlerFinish,
        LibraryExit, Remove, RemoveEntry, RemoveDecrement, RemoveLog
  <2>5. CASE CleanerStep \/ Tick
    BY <2>1, <2>2, <2>5
    DEF CleanerStep, CleanUpLock, CleanUpSkip, CleanUpRelock, CleanUpDone,
        Remove, RemoveEntry, RemoveDecrement, RemoveLog, Tick
  <2>. QED BY <2>2, <2>3, <2>4, <2>5 DEF Next, vars
<1>. QED BY <1>1, <1>2, TypeCorrect, PTL DEF Spec

-----------------------------------------------------------------------------
(* The gauge                                                               *)

\* Only Create and Remove touch the map, the frames and the gauge.
LEMMA RegistryFrame ==
    ASSUME [Next]_vars
    PROVE  \/ UNCHANGED <<sessions, frames, activeSessions>>
           \/ \E p \in Procs : Remove(p)
           \/ \E p \in Conns \cup Chans, from, to \in Locations \ {"unwind"} :
                 Enter(p, from, to)
<1>. USE DEF Locations
<1>1. CASE UNCHANGED vars BY <1>1 DEF vars
<1>2. ASSUME NEW c \in Conns, ConnStep(c) \/ ClientStep(c)
      PROVE  \/ UNCHANGED <<sessions, frames, activeSessions>>
             \/ Remove(c)
             \/ \E from, to \in Locations \ {"unwind"} : Enter(c, from, to)
  BY <1>2
  DEF ConnStep, ClientStep, ConnectionCallback, AuthHandler, Leave,
      ConnectionFailedCallback, PortForwardingCallback, Connect, Handshake,
      Forward, Disconnect
<1>3. ASSUME NEW h \in Chans, ChanStep(h) \/ OpenChannel(h) \/ ProcessCommand(h)
      PROVE  \/ UNCHANGED <<sessions, frames, activeSessions>>
             \/ Remove(h)
             \/ \E from, to \in Locations \ {"unwind"} : Enter(h, from, to)
  BY <1>3
  DEF ChanStep, OpenChannel, ProcessCommand, RequestCallback, HandlerAttach,
      HandlerSetShell, HandlerReadShell, HandlerFinish, LibraryExit, Leave
<1>4. CASE CleanerStep \/ Tick
  BY <1>4
  DEF CleanerStep, CleanUpLock, CleanUpSkip, CleanUpExpire, CleanUpRelock,
      CleanUpDone, Tick, Procs
<1>. QED BY <1>1, <1>2, <1>3, <1>4 DEF Next, Procs

\* A frame is pending when its number is at most its goroutine's count.
LEMMA PendingMember ==
    ASSUME NEW x
    PROVE  x \in Pending <=> \E p \in Procs : \E i \in 1..frames[p] : x = <<p, i>>
BY DEF Pending

\* The inductive form: the set that is counted is finite.
GaugeIInv == IsFiniteSet(Pending) /\ GaugeInv

\* Nothing is registered, nothing pending, and the gauge is zero.
LEMMA GaugeInit == Init => GaugeIInv
<1>. SUFFICES ASSUME Init PROVE GaugeIInv OBVIOUS
<1>1. Live = {} BY DEF Init, Live, Has
<1>2. Pending = {}
  <2>1. \A p \in Procs : frames[p] = 0 BY DEF Init
  <2>2. \A p \in Procs : 1..frames[p] = {} BY <2>1
  <2>. QED BY <2>2, PendingMember
<1>. QED BY <1>1, <1>2, FS_EmptySet DEF Init, GaugeIInv, GaugeInv

\* There are finitely many registered sessions.
LEMMA LiveFinite == IsFiniteSet(Live) /\ Cardinality(Live) \in Nat
BY ProcsAssumption, FS_Subset, FS_CardinalityType DEF Live

\* Create raises the gauge with the map, Remove turns an entry into a pending
\* frame and a pending frame into a decrement.
LEMMA GaugeNext == TypeOK /\ GaugeIInv /\ [Next]_vars => GaugeIInv'
<1>. SUFFICES ASSUME TypeOK, GaugeIInv, [Next]_vars PROVE GaugeIInv' OBVIOUS
<1>. Cardinality(Pending) \in Nat BY FS_CardinalityType DEF GaugeIInv
<1>0. CASE UNCHANGED <<sessions, frames, activeSessions>>
  BY <1>0 DEF GaugeIInv, GaugeInv, Live, Has, Pending
<1>1. ASSUME NEW p \in Conns \cup Chans, NEW from, NEW to, Enter(p, from, to)
      PROVE  GaugeIInv'
  <2>1. CASE Has(ID(p))
    BY <1>1, <2>1
    DEF Enter, Create, GaugeIInv, GaugeInv, Live, Has, Pending
  <2>2. CASE ~Has(ID(p))
    <3>. DEFINE o == CHOOSE o \in Free : TRUE
    <3>1. o \in Objs BY <1>1, <2>2 DEF Enter, Create, Free
    <3>2. /\ sessions' = [sessions EXCEPT ![ID(p)] = o]
          /\ activeSessions' = activeSessions + 1
          /\ frames' = frames
      BY <1>1, <2>2 DEF Enter, Create
    <3>. HIDE DEF o
    <3>3. ID(p) \in Conns BY IDType DEF Procs
    <3>4. Live' = Live \cup {ID(p)} /\ ID(p) \notin Live
      BY <2>2, <3>1, <3>2, <3>3, HeapAssumption
      DEF Live, Has, TypeOK, HeapTypes
    <3>5. Cardinality(Live') = Cardinality(Live) + 1
      BY <3>4, LiveFinite, FS_AddElement
    <3>6. Pending' = Pending BY <3>2 DEF Pending
    <3>. QED
      BY <3>2, <3>5, <3>6, LiveFinite DEF GaugeIInv, GaugeInv
  <2>. QED BY <2>1, <2>2
<1>2. ASSUME NEW p \in Procs, RemoveEntry(p) PROVE GaugeIInv'
  <2>1. CASE Has(ID(p))
    <3>1. /\ sessions' = [sessions EXCEPT ![ID(p)] = NoObj]
          /\ frames' = [frames EXCEPT ![p] = frames[p] + 1]
          /\ activeSessions' = activeSessions
      BY <1>2, <2>1 DEF RemoveEntry
    <3>2. ID(p) \in Live BY <2>1, IDType DEF Live
    <3>3. Live' = Live \ {ID(p)}
      BY <3>1, <3>2 DEF Live, Has, TypeOK, HeapTypes
    <3>4. Cardinality(Live') = Cardinality(Live) - 1
      BY <3>2, <3>3, LiveFinite, FS_RemoveElement
    <3>. DEFINE new == <<p, frames[p] + 1>>
    <3>5. frames[p] \in Nat BY DEF TypeOK, ControlTypes
    <3>6. new \notin Pending BY <3>5, PendingMember
    <3>7. Pending' = Pending \cup {new}
      <4>1. 1..(frames[p] + 1) = (1..frames[p]) \cup {frames[p] + 1} BY <3>5
      <4>2. \A x : x \in Pending' <=>
                    \E q \in Procs : \E i \in 1..frames'[q] : x = <<q, i>>
        BY DEF Pending
      <4>3. /\ frames'[p] = frames[p] + 1
            /\ \A q \in Procs \ {p} : frames'[q] = frames[q]
        BY <3>1 DEF TypeOK, ControlTypes
      <4>. QED BY <4>1, <4>2, <4>3, PendingMember
    <3>. HIDE DEF new
    <3>8. IsFiniteSet(Pending') /\ Cardinality(Pending') = Cardinality(Pending) + 1
      BY <3>6, <3>7, FS_AddElement DEF GaugeIInv
    <3>. QED
      BY <3>1, <3>4, <3>8, LiveFinite DEF GaugeIInv, GaugeInv
  <2>2. CASE ~Has(ID(p))
    BY <1>2, <2>2
    DEF RemoveEntry, GaugeIInv, GaugeInv, Live, Has, Pending
  <2>. QED BY <2>1, <2>2
<1>3. ASSUME NEW p \in Procs, RemoveDecrement(p) PROVE GaugeIInv'
  <2>1. /\ frames' = [frames EXCEPT ![p] = frames[p] - 1]
        /\ activeSessions' = activeSessions - 1
        /\ sessions' = sessions
    BY <1>3 DEF RemoveDecrement
  <2>2. frames[p] \in Nat /\ frames[p] > 0
    BY <1>3 DEF RemoveDecrement, TypeOK, ControlTypes
  <2>. DEFINE old == <<p, frames[p]>>
  <2>3. old \in Pending BY <2>2, PendingMember
  <2>4. Pending' = Pending \ {old}
    <3>1. 1..(frames[p] - 1) = (1..frames[p]) \ {frames[p]} BY <2>2
    <3>2. \A x : x \in Pending' <=>
                  \E q \in Procs : \E i \in 1..frames'[q] : x = <<q, i>>
      BY DEF Pending
    <3>3. /\ frames'[p] = frames[p] - 1
          /\ \A q \in Procs \ {p} : frames'[q] = frames[q]
      BY <2>1 DEF TypeOK, ControlTypes
    <3>. QED BY <3>1, <3>2, <3>3, PendingMember
  <2>. HIDE DEF old
  <2>5. IsFiniteSet(Pending') /\ Cardinality(Pending') = Cardinality(Pending) - 1
    BY <2>3, <2>4, FS_RemoveElement DEF GaugeIInv
  <2>6. Live' = Live BY <2>1 DEF Live, Has
  <2>. QED
    BY <2>1, <2>5, <2>6, LiveFinite DEF GaugeIInv, GaugeInv
<1>4. ASSUME NEW p \in Procs, RemoveLog(p) PROVE GaugeIInv'
  BY <1>4 DEF RemoveLog, GaugeIInv, GaugeInv, Live, Has, Pending
<1>. QED BY <1>0, <1>1, <1>2, <1>3, <1>4, RegistryFrame DEF Remove

\* The session gauge: activeSessions is the number of registered sessions
\* plus the number of Remove frames that have deleted but not decremented.
THEOREM GaugeCorrect == Spec => []GaugeInv
<1>1. GaugeIInv => GaugeInv BY DEF GaugeIInv
<1>. QED BY <1>1, GaugeInit, GaugeNext, TypeCorrect, PTL DEF Spec

-----------------------------------------------------------------------------
(* Orphans                                                                 *)

\* No two addresses share a Session object.
Unshared == \A c, d \in Live : sessions[c] = sessions[d] => c = d

\* The inductive form: without Unshared, marking one session as an orphan
\* could mark another one that stays.
OrphanIInv == Unshared /\ OrphanIsLeaving

\* A step that leaves the map alone, keeps the clean-up worker's control state
\* and marks nobody keeps the invariant.
LEMMA OrphanFrame ==
    ASSUME TypeOK, OrphanIInv,
           UNCHANGED <<sessions, victim>>, pc'[Cleaner] = pc[Cleaner],
           \A o \in Objs : heap'[o].orphan => heap[o].orphan
    PROVE  OrphanIInv'
BY DEF OrphanIInv, Unshared, OrphanIsLeaving, Live, Has, TypeOK, HeapTypes

\* Neither the garbage collector nor a callback that writes its Session back
\* marks an orphan.
LEMMA WriteBack ==
    ASSUME TypeOK, NEW o \in Objs, NEW s \in Session,
           s.orphan = heap[o].orphan, NEW h \in [Objs -> Session],
           h = [heap EXCEPT ![o] = s]
    PROVE  /\ \A x \in Objs : h[x].orphan => heap[x].orphan
           /\ \A x \in Objs : Collected(h)[x].orphan => heap[x].orphan
BY NewSessionType DEF Collected, TypeOK, HeapTypes

\* A callback that leaves.
LEMMA LeaveOrphan ==
    ASSUME TypeOK, NEW p \in Procs, pc[p] \in Holding, NEW s \in Session,
           s.orphan = heap[ptr[p]].orphan, Leave(p, s)
    PROVE  \A x \in Objs : heap'[x].orphan => heap[x].orphan
<1>1. ptr[p] \in Objs BY HeldSession
<1>. DEFINE h == [heap EXCEPT ![ptr[p]] = s]
<1>2. h \in [Objs -> Session] BY DEF TypeOK, HeapTypes
<1>3. heap' = Collected(h) BY DEF Leave
<1>. HIDE DEF h
<1>4. h = [heap EXCEPT ![ptr[p]] = s] BY DEF h
<1>. QED BY <1>1, <1>2, <1>3, <1>4, WriteBack

\* Looking up changes nothing; a new session is in a cell of its own.
LEMMA EnterOrphan ==
    ASSUME TypeOK, OrphanIInv, NEW p \in Conns \cup Chans, NEW from, NEW to,
           Enter(p, from, to)
    PROVE  OrphanIInv'
<1>. p \in Procs /\ p # Cleaner /\ Cleaner \in Procs
  BY ProcsAssumption DEF Procs
<1>1. victim' = victim /\ pc'[Cleaner] = pc[Cleaner]
  BY DEF Enter, Create, Goto, TypeOK, ControlTypes
<1>2. ID(p) \in Conns BY IDType
<1>3. CASE Has(ID(p))
  BY <1>1, <1>3, OrphanFrame DEF Enter, Create
<1>4. CASE ~Has(ID(p))
  <2>. DEFINE o == CHOOSE o \in Free : TRUE
  <2>1. o \in Free BY <1>4 DEF Enter, Create
  <2>2. /\ sessions' = [sessions EXCEPT ![ID(p)] = o]
        /\ heap' = [heap EXCEPT ![o] = NewSession]
    BY <1>4 DEF Enter, Create
  <2>. HIDE DEF o
  <2>3. o \in Objs /\ \A c \in Conns : sessions[c] # o BY <2>1 DEF Free
  <2>4. /\ sessions'[ID(p)] = o
        /\ \A c \in Conns \ {ID(p)} : sessions'[c] = sessions[c]
    BY <1>2, <2>2 DEF TypeOK, HeapTypes
  <2>5. /\ heap'[o].orphan = FALSE
        /\ \A x \in Objs \ {o} : heap'[x] = heap[x]
    BY <2>2, <2>3, NewSessionType DEF TypeOK, HeapTypes
  <2>6. Unshared'
    BY <2>3, <2>4 DEF OrphanIInv, Unshared, Live, Has
  <2>7. OrphanIsLeaving'
    <3>. SUFFICES ASSUME NEW c \in Conns, sessions'[c] # NoObj,
                         heap'[sessions'[c]].orphan
                  PROVE  victim' = c /\ pc'[Cleaner] = "rm"
      BY DEF OrphanIsLeaving, Live, Has
    <3>1. c # ID(p) BY <2>4, <2>5
    <3>2. sessions'[c] = sessions[c] /\ sessions[c] # o /\ sessions[c] \in Objs
      BY <2>3, <2>4, <3>1 DEF TypeOK, HeapTypes
    <3>. QED
      BY <1>1, <2>5, <3>2 DEF OrphanIInv, OrphanIsLeaving, Live, Has
  <2>. QED BY <2>6, <2>7 DEF OrphanIInv
<1>. QED BY <1>3, <1>4

\* Remove takes an entry away; the clean-up's own returns only when the entry
\* of its victim is gone.
LEMMA RemoveOrphan ==
    ASSUME TypeOK, OrphanIInv, NEW p \in Procs, Remove(p)
    PROVE  OrphanIInv'
<1>. Cleaner \in Procs BY DEF Procs
<1>1. ID(p) \in Conns BY IDType
<1>2. CASE RemoveEntry(p) /\ Has(ID(p))
  <2>1. /\ sessions' = [sessions EXCEPT ![ID(p)] = NoObj]
        /\ UNCHANGED <<victim, pc>>
    BY <1>2 DEF RemoveEntry
  <2>2. sessions[ID(p)] \in Objs BY <1>1, <1>2 DEF Has, TypeOK, HeapTypes
  <2>. DEFINE o == sessions[ID(p)]
              h == [heap EXCEPT ![o] = UpdateActivity(heap[o])]
  <2>3. heap[o] \in Session BY <2>2 DEF TypeOK, HeapTypes
  <2>4. UpdateActivity(heap[o]) \in Session
        /\ UpdateActivity(heap[o]).orphan = heap[o].orphan
    BY <2>3, SetterType
  <2>5. h \in [Objs -> Session] BY <2>4 DEF TypeOK, HeapTypes
  <2>6. heap' = Collected(h) BY <1>2 DEF RemoveEntry
  <2>7. \A x \in Objs : heap'[x].orphan => heap[x].orphan
    BY <2>2, <2>4, <2>5, <2>6, WriteBack
  <2>8. /\ Live' = Live \ {ID(p)}
        /\ \A c \in Live' : sessions'[c] = sessions[c] /\ sessions[c] \in Objs
    BY <1>1, <2>1 DEF Live, Has, TypeOK, HeapTypes
  <2>. QED
    BY <2>1, <2>7, <2>8 DEF OrphanIInv, Unshared, OrphanIsLeaving
<1>3. CASE RemoveEntry(p) /\ ~Has(ID(p))
  <2>1. UNCHANGED <<sessions, heap, victim>> BY <1>3 DEF RemoveEntry
  <2>2. CASE p = Cleaner
    <3>1. victim \notin Live
      BY <1>3, <2>2, ProcsAssumption DEF ID, Live
    <3>2. \A c \in Live : ~heap[sessions[c]].orphan
      BY <3>1 DEF OrphanIInv, OrphanIsLeaving
    <3>. QED
      BY <2>1, <3>2 DEF OrphanIInv, Unshared, OrphanIsLeaving, Live, Has
  <2>3. CASE p # Cleaner
    <3>1. pc'[Cleaner] = pc[Cleaner]
      BY <1>3, <2>3 DEF RemoveEntry, Goto, TypeOK, ControlTypes
    <3>. QED BY <2>1, <3>1, OrphanFrame
  <2>. QED BY <2>2, <2>3
<1>4. CASE RemoveDecrement(p) \/ RemoveLog(p)
  <2>1. UNCHANGED <<sessions, heap, victim>> /\ pc[p] # "rm"
    BY <1>4 DEF RemoveDecrement, RemoveLog
  <2>2. pc'[Cleaner] = pc[Cleaner] \/ pc[Cleaner] # "rm"
    BY <1>4, <2>1 DEF RemoveDecrement, RemoveLog, Goto, TypeOK, ControlTypes
  <2>3. CASE pc'[Cleaner] = pc[Cleaner] BY <2>1, <2>3, OrphanFrame
  <2>4. CASE pc[Cleaner] # "rm"
    BY <2>1, <2>4 DEF OrphanIInv, Unshared, OrphanIsLeaving, Live, Has
  <2>. QED BY <2>2, <2>3, <2>4
<1>. QED BY <1>2, <1>3, <1>4 DEF Remove

\* The other steps of a connection: they only touch the session they hold.
LEMMA ConnOrphan ==
    ASSUME TypeOK, OrphanIInv, NEW c \in Conns, ConnStep(c) \/ ClientStep(c)
    PROVE  OrphanIInv'
<1>. c \in Procs /\ c # Cleaner /\ Cleaner \in Procs
  BY ProcsAssumption DEF Procs
<1>. DEFINE Writes == ConnectionCallback(c) \/ AuthHandler(c)
                      \/ ConnectionFailedCallback(c)
                      \/ PortForwardingCallback(c)
<1>1. CASE Writes
  <2>1. pc[c] \in Holding
    BY <1>1
    DEF ConnectionCallback, AuthHandler, ConnectionFailedCallback,
        PortForwardingCallback, Holding
  <2>2. heap[ptr[c]] \in Session BY <2>1, HeldSession
  <2>3. /\ UpdateActivity(heap[ptr[c]]) \in Session
        /\ UpdateActivity(heap[ptr[c]]).orphan = heap[ptr[c]].orphan
        /\ SetUser(heap[ptr[c]]) \in Session
        /\ SetUser(heap[ptr[c]]).orphan = heap[ptr[c]].orphan
    BY <2>2, SetterType
  <2>4. PICK s \in Session : s.orphan = heap[ptr[c]].orphan /\ Leave(c, s)
    BY <1>1, <2>2, <2>3
    DEF ConnectionCallback, AuthHandler, ConnectionFailedCallback,
        PortForwardingCallback
  <2>5. \A x \in Objs : heap'[x].orphan => heap[x].orphan
    BY <2>1, <2>4, LeaveOrphan
  <2>6. UNCHANGED <<sessions, victim>> /\ pc'[Cleaner] = pc[Cleaner]
    BY <1>1
    DEF ConnectionCallback, AuthHandler, ConnectionFailedCallback,
        PortForwardingCallback, Leave, Goto, CallRemove, TypeOK, ControlTypes
  <2>. QED BY <2>5, <2>6, OrphanFrame
<1>2. CASE ClientStep(c)
  <2>1. UNCHANGED <<sessions, heap, victim>> /\ pc'[Cleaner] = pc[Cleaner]
    BY <1>2
    DEF ClientStep, Connect, Handshake, Forward, Disconnect, Goto, TypeOK,
        ControlTypes
  <2>. QED BY <2>1, OrphanFrame
<1>. QED BY <1>1, <1>2, EnterOrphan, RemoveOrphan DEF ConnStep

\* And of a channel.
LEMMA ChanOrphan ==
    ASSUME TypeOK, OrphanIInv, NEW h \in Chans,
           ChanStep(h) \/ OpenChannel(h) \/ ProcessCommand(h)
    PROVE  OrphanIInv'
<1>. h \in Procs /\ h # Cleaner /\ Cleaner \in Procs
  BY ProcsAssumption DEF Procs
<1>1. CASE RequestCallback(h) \/ HandlerFinish(h)
  <2>1. pc[h] \in Holding BY <1>1 DEF RequestCallback, HandlerFinish, Holding
  <2>2. heap[ptr[h]] \in Session BY <2>1, HeldSession
  <2>3. /\ UpdateActivity(heap[ptr[h]]) \in Session
        /\ UpdateActivity(heap[ptr[h]]).orphan = heap[ptr[h]].orphan
    BY <2>2, SetterType
  <2>4. PICK s \in Session : s.orphan = heap[ptr[h]].orphan /\ Leave(h, s)
    BY <1>1, <2>2, <2>3 DEF RequestCallback, HandlerFinish
  <2>5. \A x \in Objs : heap'[x].orphan => heap[x].orphan
    BY <2>1, <2>4, LeaveOrphan
  <2>6. UNCHANGED <<sessions, victim>> /\ pc'[Cleaner] = pc[Cleaner]
    BY <1>1
    DEF RequestCallback, HandlerFinish, Leave, Goto, CallRemove, TypeOK,
        ControlTypes
  <2>. QED BY <2>5, <2>6, OrphanFrame
<1>2. CASE HandlerAttach(h) \/ HandlerSetShell(h) \/ ProcessCommand(h)
  <2>1. pc[h] \in Holding
    BY <1>2 DEF HandlerAttach, HandlerSetShell, ProcessCommand, Holding
  <2>2. ptr[h] \in Objs /\ heap[ptr[h]] \in Session BY <2>1, HeldSession
  <2>3. PICK s \in Session : s.orphan = heap[ptr[h]].orphan /\ Touch(h, s)
    BY <1>2, <2>2, SetterType, SetSSHSessionType
    DEF HandlerAttach, HandlerSetShell, ProcessCommand
  <2>4. \A x \in Objs : heap'[x].orphan => heap[x].orphan
    BY <2>2, <2>3 DEF Touch, TypeOK, HeapTypes
  <2>5. UNCHANGED <<sessions, victim>> /\ pc'[Cleaner] = pc[Cleaner]
    BY <1>2
    DEF HandlerAttach, HandlerSetShell, ProcessCommand, Goto, TypeOK,
        ControlTypes
  <2>. QED BY <2>4, <2>5, OrphanFrame
<1>3. CASE OpenChannel(h) \/ HandlerReadShell(h) \/ LibraryExit(h)
  <2>1. UNCHANGED <<sessions, heap, victim>> /\ pc'[Cleaner] = pc[Cleaner]
    BY <1>3
    DEF OpenChannel, HandlerReadShell, LibraryExit, Goto, TypeOK, ControlTypes
  <2>. QED BY <2>1, OrphanFrame
<1>. QED BY <1>1, <1>2, <1>3, EnterOrphan, RemoveOrphan DEF ChanStep

\* The clean-up: while it sweeps there is no orphan in the map, and the one it
\* marks is the one it goes on to remove.
LEMMA CleanerOrphan ==
    ASSUME TypeOK, OrphanIInv, CleanerStep
    PROVE  OrphanIInv'
<1>. Cleaner \in Procs BY DEF Procs
<1>1. CASE CleanUpExpire
  <2>1. PICK c \in todo :
          /\ Has(c)
          /\ heap' = [heap EXCEPT ![sessions[c]].orphan =
                         @ \/ IsOrphan(heap[sessions[c]])]
          /\ victim' = c
    BY <1>1 DEF CleanUpExpire
  <2>2. c \in Live /\ sessions[c] \in Objs
    BY <2>1 DEF Live, Has, TypeOK, HeapTypes, OtherTypes
  <2>3. pc[Cleaner] = "sweep" /\ pc'[Cleaner] = "rm" /\ sessions' = sessions
    BY <1>1 DEF CleanUpExpire, CallRemove, TypeOK, ControlTypes
  <2>4. \A d \in Live : ~heap[sessions[d]].orphan
    BY <2>3 DEF OrphanIInv, OrphanIsLeaving
  <2>5. \A x \in Objs \ {sessions[c]} : heap'[x] = heap[x]
    BY <2>1, <2>2 DEF TypeOK, HeapTypes
  <2>6. \A d \in Live \ {c} : sessions[d] \in Objs \ {sessions[c]}
    BY <2>2 DEF OrphanIInv, Unshared, Live, Has, TypeOK, HeapTypes
  <2>. QED
    BY <2>1, <2>2, <2>3, <2>4, <2>5, <2>6
    DEF OrphanIInv, Unshared, OrphanIsLeaving, Live, Has
<1>2. CASE CleanUpLock \/ CleanUpSkip \/ CleanUpRelock \/ CleanUpDone
  <2>1. UNCHANGED <<sessions, heap>> /\ pc[Cleaner] # "rm"
    BY <1>2 DEF CleanUpLock, CleanUpSkip, CleanUpRelock, CleanUpDone
  <2>. QED BY <2>1 DEF OrphanIInv, Unshared, OrphanIsLeaving, Live, Has
<1>. QED BY <1>1, <1>2, RemoveOrphan DEF CleanerStep

\* Orphans: a session that expire has marked is in the map only while the
\* clean-up's own Remove of it is under way, for any number of connections,
\* channels and removals at the same time.
THEOREM OrphansLeave == Spec => []OrphanIsLeaving
<1>1. Init => OrphanIInv
  BY DEF Init, OrphanIInv, Unshared, OrphanIsLeaving, Live, Has
<1>2. TypeOK /\ OrphanIInv /\ [Next]_vars => OrphanIInv'
  <2>. SUFFICES ASSUME TypeOK, OrphanIInv, [Next]_vars PROVE OrphanIInv'
    OBVIOUS
  <2>1. CASE UNCHANGED vars
    BY <2>1 DEF vars, OrphanIInv, Unshared, OrphanIsLeaving, Live, Has
  <2>2. CASE Tick
    <3>1. \A o \in Objs : heap'[o].orphan => heap[o].orphan
      BY <2>2 DEF Tick, TypeOK, HeapTypes, Session
    <3>2. UNCHANGED <<sessions, victim, pc>> BY <2>2 DEF Tick
    <3>. QED BY <3>1, <3>2, OrphanFrame
  <2>. QED BY <2>1, <2>2, ConnOrphan, ChanOrphan, CleanerOrphan DEF Next
<1>3. OrphanIInv => OrphanIsLeaving BY DEF OrphanIInv
<1>. QED BY <1>1, <1>2, <1>3, TypeCorrect, PTL DEF Spec
====
