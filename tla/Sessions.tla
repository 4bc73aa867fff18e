------------------------------ MODULE Sessions ------------------------------
(***************************************************************************)
(* The session registry of the fake SSH server: ossh_sessions.go together  *)
(* with the callbacks of ossh_server.go that create, fill and remove the   *)
(* sessions.  One process per connection runs the callbacks of the         *)
(* handshake and of port forwarding, one process per session channel runs  *)
(* ptyCallback, sessionRequestCallback and sessionHandler, and one process *)
(* is the clean-up worker.                                                 *)
(*                                                                         *)
(* A critical section of ss.lock that contains no Unlock is one action,    *)
(* enabled only while the clean-up worker, the only goroutine that keeps   *)
(* the lock over several steps, does not hold it.  A Session is a heap     *)
(* cell, so that a goroutine can go on using one that has left the map.    *)
(***************************************************************************)
EXTENDS Integers, FiniteSets

CONSTANTS Conns,        \* remote addresses "host:port", the session IDs
          Chans,        \* SSH session channels
          ConnOf,       \* the connection a channel belongs to
          Whitelisted,  \* connections whose host is whitelisted
          Objs,         \* heap cells for Session objects
          NoObj,        \* the nil pointer
          NoChan,       \* the nil *ssh.Session
          Cleaner,      \* the clean-up worker
          OrphanAfter,  \* the 600 seconds of expire
          MaxAge,       \* Conf.MaxSessionAge
          MaxCalls      \* bound: connects, logins and forwards per address

Procs == Conns \cup Chans \cup {Cleaner}

ASSUME ProcsAssumption ==
    /\ IsFiniteSet(Conns) /\ Conns # {}
    /\ Conns \cap Chans = {}
    /\ Cleaner \notin Conns \cup Chans
    /\ ConnOf \in [Chans -> Conns]
    /\ Whitelisted \subseteq Conns

ASSUME HeapAssumption == NoObj \notin Objs /\ NoChan \notin Chans

ASSUME BoundsAssumption ==
    OrphanAfter \in Nat /\ MaxAge \in Nat /\ MaxCalls \in Nat

VARIABLES
    sessions,        \* ss.sessions: session ID -> Session
    heap,            \* the Session objects
    activeSessions,  \* the gauge SrvMetrics.activeSessions
    locked,          \* the clean-up worker holds ss.lock
    pc,              \* where each goroutine is
    ptr,             \* the Session a goroutine works on
    frames,          \* Remove frames that have deleted but not decremented
    ret,             \* where a goroutine goes when its Remove returns
    serving,         \* the channel whose FakeShell a sessionHandler processes
    chanOpen,        \* channels the SSH library has not closed
    calls,           \* callbacks used so far, up to MaxCalls
    todo, victim,    \* clean-up: IDs left to visit, ID being removed
    crashed          \* the process died of an unrecovered panic

vars == <<sessions, heap, activeSessions, locked, pc, ptr, frames, ret,
          serving, chanOpen, calls, todo, victim, crashed>>

-----------------------------------------------------------------------------
(* The Session object                                                      *)

\* Time is counted from the last activity only, and stops mattering past
\* both limits of expire.
IdleCap == 1 + IF OrphanAfter > MaxAge THEN OrphanAfter ELSE MaxAge

Session == [ssh    : Chans \cup {NoChan},   \* SSHSession
            shell  : Chans \cup {NoChan},   \* the channel under Shell
            orphan : BOOLEAN,
            idle   : 0..IdleCap]            \* StaleSince

NewSession == [ssh |-> NoChan, shell |-> NoChan, orphan |-> FALSE,
               idle |-> 0]

\* An orphan keeps its last activity.
UpdateActivity(s) == IF s.orphan THEN s ELSE [s EXCEPT !.idle = 0]

\* The setters.  User, password and terminal are not kept apart.
SetUser(s)          == UpdateActivity(s)
SetSSHSession(s, h) == UpdateActivity([s EXCEPT !.ssh = h])
SetShell(s)         == UpdateActivity([s EXCEPT !.shell = s.ssh])

\* Mutants of IsOrphan and Expired: expire without its orphan branch, and an
\* expire that only looks at sessions with a channel.
NoOrphanBranch(s) == FALSE
ExpiredAttached(s) == s.ssh # NoChan /\ s.idle > MaxAge

\* What expire reports as expired.
IsOrphan(s) == s.ssh = NoChan /\ s.idle > OrphanAfter
Expired(s)  == IsOrphan(s) \/ s.idle > MaxAge

-----------------------------------------------------------------------------
(* The registry                                                            *)

\* The session ID a goroutine's calls are about.
ID(p) == IF p \in Conns THEN p ELSE IF p \in Chans THEN ConnOf[p] ELSE victim

Has(c) == sessions[c] # NoObj
Live   == {c \in Conns : Has(c)}

\* Cells nothing refers to any more, for the allocator to hand out again.
Free == {o \in Objs : /\ \A c \in Conns : sessions[c] # o
                      /\ \A p \in Procs : ptr[p] # o}

\* The garbage collector: such a cell forgets what was in it.
Collected(h) == [o \in Objs |-> IF o \in Free' THEN NewSession ELSE h[o]]

Goto(p, l) == pc' = [pc EXCEPT ![p] = l]

\* Mutant of Create: IncrementSessions outside the test of has.
CreateCountsAlways(p, next) ==
    /\ ~locked
    /\ \/ /\ Has(ID(p))
          /\ ptr' = [ptr EXCEPT ![p] = sessions[ID(p)]]
          /\ UNCHANGED <<sessions, heap>>
       \/ /\ ~Has(ID(p))
          /\ Free # {}
          /\ LET o == CHOOSE o \in Free : TRUE
             IN /\ sessions' = [sessions EXCEPT ![ID(p)] = o]
                /\ heap' = [heap EXCEPT ![o] = NewSession]
                /\ ptr' = [ptr EXCEPT ![p] = o]
    /\ activeSessions' = activeSessions + 1
    /\ Goto(p, next)

\* Sessions.Create: look the ID up, insert and count a new session if absent.
Create(p, next) ==
    /\ ~locked
    /\ \/ /\ Has(ID(p))
          /\ ptr' = [ptr EXCEPT ![p] = sessions[ID(p)]]
          /\ UNCHANGED <<sessions, heap, activeSessions>>
       \/ /\ ~Has(ID(p))
          /\ Free # {}
          /\ LET o == CHOOSE o \in Free : TRUE
             IN /\ sessions' = [sessions EXCEPT ![ID(p)] = o]
                /\ heap' = [heap EXCEPT ![o] = NewSession]
                /\ ptr' = [ptr EXCEPT ![p] = o]
          /\ activeSessions' = activeSessions + 1
    /\ Goto(p, next)

\* Call Remove(ID(p), ...) and continue at next afterwards.
CallRemove(p, next) ==
    /\ pc' = [pc EXCEPT ![p] = "rm"]
    /\ ret' = [ret EXCEPT ![p] = next]

\* Sessions.Remove up to the recursive call inside delete: the entry goes,
\* the lock is released and Remove starts again on the same ID.  A frame that
\* finds nothing returns to the frame below, or to the caller.
RemoveEntry(p) ==
    /\ pc[p] = "rm"
    /\ ~locked
    /\ UNCHANGED ptr
    /\ \/ /\ Has(ID(p))
          /\ sessions' = [sessions EXCEPT ![ID(p)] = NoObj]
          /\ heap' = Collected([heap EXCEPT ![sessions[ID(p)]] =
                                             UpdateActivity(@)])
          /\ frames' = [frames EXCEPT ![p] = @ + 1]
          /\ UNCHANGED pc
       \/ /\ ~Has(ID(p))
          /\ Goto(p, IF frames[p] = 0 THEN ret[p] ELSE "unwind")
          /\ UNCHANGED <<sessions, heap, frames>>
    /\ UNCHANGED <<activeSessions, locked, ret, serving, chanOpen, calls, todo,
                   victim, crashed>>

\* The rest of a frame that deleted: lock and unlock once more, then
\* DecrementSessions outside the lock.
RemoveDecrement(p) ==
    /\ pc[p] = "unwind"
    /\ ~locked
    /\ activeSessions' = activeSessions - 1
    /\ frames' = [frames EXCEPT ![p] = @ - 1]
    /\ Goto(p, "log")
    /\ UNCHANGED <<sessions, heap, locked, ptr, ret, serving, chanOpen, calls,
                   todo, victim, crashed>>

\* Mutant of RemoveLog: the recursion of delete unwinds one frame too many.
RemoveLogUnwinds(p) ==
    /\ pc[p] = "log"
    /\ ~locked
    /\ Goto(p, "unwind")
    /\ UNCHANGED <<sessions, heap, activeSessions, locked, ptr, frames, ret,
                   serving, chanOpen, calls, todo, victim, crashed>>

\* Count, countActiveSessions and the log line take the lock once more.
RemoveLog(p) ==
    /\ pc[p] = "log"
    /\ ~locked
    /\ Goto(p, IF frames[p] = 0 THEN ret[p] ELSE "unwind")
    /\ UNCHANGED <<sessions, heap, activeSessions, locked, ptr, frames, ret,
                   serving, chanOpen, calls, todo, victim, crashed>>

-----------------------------------------------------------------------------
(* Connections: the callbacks the SSH library runs for a connection        *)

\* A callback's setters: the Session it works on becomes s.
Touch(p, s) == heap' = [heap EXCEPT ![ptr[p]] = s]

\* A callback returns: its pointer goes, with s in the cell it pointed to.
Leave(p, s) ==
    /\ ptr' = [ptr EXCEPT ![p] = NoObj]
    /\ UNCHANGED sessions
    /\ heap' = Collected([heap EXCEPT ![ptr[p]] = s])

Used(c)     == calls[c] < MaxCalls /\ calls' = [calls EXCEPT ![c] = @ + 1]

\* External: a client connects from address c.  The port may be one that was
\* used before, while goroutines of the old connection still run.
Connect(c) ==
    /\ pc[c] = "off"
    /\ Used(c)
    /\ Goto(c, "accept")
    /\ UNCHANGED <<sessions, heap, activeSessions, locked, ptr, frames, ret,
                   serving, chanOpen, todo, victim, crashed>>

\* The first statement of a callback: Sessions.Create.
Enter(p, from, to) ==
    /\ pc[p] = from
    /\ Create(p, to)
    /\ UNCHANGED <<locked, frames, ret, serving, chanOpen, calls, todo, victim,
                   crashed>>

\* connectionCallback: RandomSleep only delays, and touches, strangers.
ConnectionCallback(c) ==
    /\ pc[c] = "accepted"
    /\ Leave(c, IF c \in Whitelisted THEN heap[ptr[c]]
                                     ELSE UpdateActivity(heap[ptr[c]]))
    /\ Goto(c, "handshake")
    /\ UNCHANGED <<activeSessions, locked, frames, ret, serving,
                   chanOpen, calls, todo, victim, crashed>>

\* External: the handshake asks for a password or a key, or fails.
Handshake(c) ==
    /\ pc[c] = "handshake"
    /\ \/ Used(c) /\ Goto(c, "auth")
       \/ Goto(c, "fail") /\ UNCHANGED calls
    /\ UNCHANGED <<sessions, heap, activeSessions, locked, ptr, frames, ret,
                   serving, chanOpen, todo, victim, crashed>>

\* authHandler and publicKeyHandler after Create: the setters, then
\* addLoginSuccess or addLoginFailure.  A whitelisted host is always let in.
AuthHandler(c) ==
    /\ pc[c] = "authed"
    /\ Leave(c, SetUser(heap[ptr[c]]))
    /\ \/ Goto(c, "open")
       \/ c \notin Whitelisted /\ Goto(c, "handshake")
    /\ UNCHANGED <<activeSessions, locked, frames, ret, serving,
                   chanOpen, calls, todo, victim, crashed>>

\* connectionFailedCallback after Create: on EOF it returns and leaves the
\* session behind, on every other error it removes it.
ConnectionFailedCallback(c) ==
    /\ pc[c] = "failed"
    /\ Leave(c, heap[ptr[c]])
    /\ \/ Goto(c, "off") /\ UNCHANGED ret
       \/ CallRemove(c, "off")
    /\ UNCHANGED <<activeSessions, locked, frames, serving,
                   chanOpen, calls, todo, victim, crashed>>

\* External: the client asks for a port to be forwarded.
Forward(c) ==
    /\ pc[c] = "open"
    /\ Used(c)
    /\ Goto(c, "forward")
    /\ UNCHANGED <<sessions, heap, activeSessions, locked, ptr, frames, ret,
                   serving, chanOpen, todo, victim, crashed>>

\* localPortForwardingCallback and reversePortForwardingCallback after
\* Create: the request is denied and the session removed.
PortForwardingCallback(c) ==
    /\ pc[c] = "forwarded"
    /\ Leave(c, heap[ptr[c]])
    /\ CallRemove(c, "open")
    /\ UNCHANGED <<activeSessions, locked, frames, serving,
                   chanOpen, calls, todo, victim, crashed>>

\* External: the connection ends (client, IdleTimeout or MaxTimeout) and the
\* library closes its channels.
Disconnect(c) ==
    /\ pc[c] = "open"
    /\ Goto(c, "off")
    /\ chanOpen' = [h \in Chans |-> chanOpen[h] /\ ConnOf[h] # c]
    /\ UNCHANGED <<sessions, heap, activeSessions, locked, ptr, frames, ret,
                   serving, calls, todo, victim, crashed>>

-----------------------------------------------------------------------------
(* Session channels                                                        *)

\* External: the client opens a session channel and asks for a shell or a
\* command, after a pty or without one.
OpenChannel(h) ==
    /\ pc[h] = "idle"
    /\ pc[ConnOf[h]] = "open"
    /\ Goto(h, "pty") \/ Goto(h, "request")
    /\ chanOpen' = [chanOpen EXCEPT ![h] = TRUE]
    /\ UNCHANGED <<sessions, heap, activeSessions, locked, ptr, frames, ret,
                   serving, calls, todo, victim, crashed>>

\* ptyCallback and sessionRequestCallback after Create: SetTerm or SetType,
\* which touch the session, and RandomSleep.
RequestCallback(h) ==
    /\ pc[h] \in {"ptySet", "requestSet"}
    /\ Leave(h, UpdateActivity(heap[ptr[h]]))
    /\ Goto(h, IF pc[h] = "ptySet" THEN "request" ELSE "handler")
    /\ UNCHANGED <<activeSessions, locked, frames, ret, serving,
                   chanOpen, calls, todo, victim, crashed>>

\* sessionHandler, step by step: SetSSHSession, RandomSleep, SetShell, which
\* wraps whatever channel the Session then holds, and the read of s.Shell.
HandlerAttach(h) ==
    /\ pc[h] = "created"
    /\ Touch(h, SetSSHSession(heap[ptr[h]], h))
    /\ Goto(h, "attached")
    /\ UNCHANGED <<sessions, activeSessions, locked, ptr, frames, ret, serving,
                   chanOpen, calls, todo, victim, crashed>>

HandlerSetShell(h) ==
    /\ pc[h] = "attached"
    /\ Touch(h, SetShell(heap[ptr[h]]))
    /\ Goto(h, "shell")
    /\ UNCHANGED <<sessions, activeSessions, locked, ptr, frames, ret, serving,
                   chanOpen, calls, todo, victim, crashed>>

HandlerReadShell(h) ==
    /\ pc[h] = "shell"
    /\ serving' = [serving EXCEPT ![h] = heap[ptr[h]].shell]
    /\ Goto(h, "process")
    /\ UNCHANGED <<sessions, heap, activeSessions, locked, ptr, frames, ret,
                   chanOpen, calls, todo, victim, crashed>>

\* Process reads commands, each of which touches the session.
ProcessCommand(h) ==
    /\ pc[h] = "process"
    /\ Touch(h, UpdateActivity(heap[ptr[h]]))
    /\ UNCHANGED <<sessions, activeSessions, locked, pc, ptr, frames, ret,
                   serving, chanOpen, calls, todo, victim, crashed>>

\* Process returns after closing the channel it serves and the session is
\* removed, or a panic in it is recovered and the session is left behind.
HandlerFinish(h) ==
    /\ pc[h] = "process"
    /\ Leave(h, heap[ptr[h]])
    /\ \/ /\ CallRemove(h, "exit")
          /\ chanOpen' = [chanOpen EXCEPT ![serving[h]] = FALSE]
       \/ /\ Goto(h, "exit")
          /\ UNCHANGED <<ret, chanOpen>>
    /\ serving' = [serving EXCEPT ![h] = NoChan]
    /\ UNCHANGED <<activeSessions, locked, frames, calls, todo,
                   victim, crashed>>

\* External: when the handler returns the library calls Exit(0), which closes
\* the handler's own channel.
LibraryExit(h) ==
    /\ pc[h] = "exit"
    /\ Goto(h, "done")
    /\ chanOpen' = [chanOpen EXCEPT ![h] = FALSE]
    /\ UNCHANGED <<sessions, heap, activeSessions, locked, ptr, frames, ret,
                   serving, calls, todo, victim, crashed>>

-----------------------------------------------------------------------------
(* The clean-up worker: Sessions.cleanUp over and over                     *)

CleanUpLock ==
    /\ pc[Cleaner] = "sleep"
    /\ locked' = TRUE
    /\ todo' = Live
    /\ Goto(Cleaner, "sweep")
    /\ UNCHANGED <<sessions, heap, activeSessions, ptr, frames, ret, serving,
                   chanOpen, calls, victim, crashed>>

\* An entry that is gone is not produced by range; expire may say no.
CleanUpSkip ==
    /\ pc[Cleaner] = "sweep"
    /\ \E c \in todo : /\ Has(c) => ~Expired(heap[sessions[c]])
                       /\ todo' = todo \ {c}
    /\ UNCHANGED <<sessions, heap, activeSessions, locked, pc, ptr, frames, ret,
                   serving, chanOpen, calls, victim, crashed>>

\* Mutant of CleanUpExpire: expire marks an orphan and falls through to false.
CleanUpMarksOnly ==
    /\ pc[Cleaner] = "sweep"
    /\ \E c \in todo : /\ Has(c) /\ IsOrphan(heap[sessions[c]])
                       /\ heap' = [heap EXCEPT ![sessions[c]].orphan = TRUE]
                       /\ todo' = todo \ {c}
    /\ UNCHANGED <<sessions, activeSessions, locked, pc, ptr, frames, ret,
                   serving, chanOpen, calls, victim, crashed>>

\* expire says yes: an orphan is marked, any other session is exited through
\* its SSHSession, which is dereferenced whether it is nil or not.  cleanUp
\* then unlocks and calls Remove with the ID.
CleanUpExpire ==
    /\ pc[Cleaner] = "sweep"
    /\ \E c \in todo :
          /\ Has(c) /\ Expired(heap[sessions[c]])
          /\ LET o == sessions[c]
                 s == heap[o]
             IN /\ heap' = [heap EXCEPT ![o].orphan = @ \/ IsOrphan(s)]
                /\ chanOpen' = [h \in Chans |->
                                   chanOpen[h] /\ (h # s.ssh \/ IsOrphan(s))]
                /\ crashed' = (s.ssh = NoChan /\ ~IsOrphan(s))
          /\ victim' = c
          /\ todo' = todo \ {c}
    /\ locked' = FALSE
    /\ CallRemove(Cleaner, "relock")
    /\ UNCHANGED <<sessions, activeSessions, ptr, frames, serving, calls>>

\* Back under the lock.  Entries added meanwhile may or may not be produced.
CleanUpRelock ==
    /\ pc[Cleaner] = "relock"
    /\ locked' = TRUE
    /\ \E new \in SUBSET Live : todo' = todo \cup new
    /\ Goto(Cleaner, "sweep")
    /\ UNCHANGED <<sessions, heap, activeSessions, ptr, frames, ret, serving,
                   chanOpen, calls, victim, crashed>>

\* Mutant of CleanUpDone: cleanUp returns without its deferred Unlock.
CleanUpKeepsLock ==
    /\ pc[Cleaner] = "sweep"
    /\ todo = {}
    /\ Goto(Cleaner, "sleep")
    /\ UNCHANGED <<sessions, heap, activeSessions, locked, ptr, frames, ret,
                   serving, chanOpen, calls, todo, victim, crashed>>

CleanUpDone ==
    /\ pc[Cleaner] = "sweep"
    /\ todo = {}
    /\ locked' = FALSE
    /\ Goto(Cleaner, "sleep")
    /\ UNCHANGED <<sessions, heap, activeSessions, ptr, frames, ret, serving,
                   chanOpen, calls, todo, victim, crashed>>

\* Time passes: every session has been idle for longer.
Tick ==
    /\ heap' = [o \in Objs |->
                  IF o \in Free THEN heap[o]
                  ELSE [heap[o] EXCEPT !.idle = IF @ < IdleCap THEN @ + 1 ELSE @]]
    /\ UNCHANGED <<sessions, activeSessions, locked, pc, ptr, frames, ret,
                   serving, chanOpen, calls, todo, victim, crashed>>

-----------------------------------------------------------------------------
Init ==
    /\ sessions = [c \in Conns |-> NoObj]
    /\ heap = [o \in Objs |-> NewSession]
    /\ activeSessions = 0
    /\ locked = FALSE
    /\ pc = [p \in Procs |-> IF p \in Conns THEN "off"
                             ELSE IF p \in Chans THEN "idle" ELSE "sleep"]
    /\ ptr = [p \in Procs |-> NoObj]
    /\ frames = [p \in Procs |-> 0]
    /\ ret = [p \in Procs |-> "off"]
    /\ serving = [h \in Chans |-> NoChan]
    /\ chanOpen = [h \in Chans |-> FALSE]
    /\ calls = [c \in Conns |-> 0]
    /\ todo = {}
    /\ victim = CHOOSE c \in Conns : TRUE
    /\ crashed = FALSE

Remove(p) == RemoveEntry(p) \/ RemoveDecrement(p) \/ RemoveLog(p)

\* What the server does for a connection, and what the client does to it.
ConnStep(c) ==
    \/ Enter(c, "accept", "accepted")
    \/ Enter(c, "auth", "authed")
    \/ Enter(c, "fail", "failed")
    \/ Enter(c, "forward", "forwarded")
    \/ ConnectionCallback(c)
    \/ AuthHandler(c)
    \/ ConnectionFailedCallback(c)
    \/ PortForwardingCallback(c)
    \/ Remove(c)

ClientStep(c) ==
    Connect(c) \/ Handshake(c) \/ Forward(c) \/ Disconnect(c)

\* sessionHandler and the callbacks that precede it.
ChanStep(h) ==
    \/ Enter(h, "pty", "ptySet")
    \/ Enter(h, "request", "requestSet")
    \/ Enter(h, "handler", "created")
    \/ RequestCallback(h)
    \/ HandlerAttach(h)
    \/ HandlerSetShell(h)
    \/ HandlerReadShell(h)
    \/ HandlerFinish(h)
    \/ LibraryExit(h)
    \/ Remove(h)

CleanerStep ==
    \/ CleanUpLock
    \/ CleanUpSkip
    \/ CleanUpExpire
    \/ CleanUpRelock
    \/ CleanUpDone
    \/ Remove(Cleaner)

Next ==
    /\ ~crashed
    /\ \/ \E c \in Conns : ConnStep(c) \/ ClientStep(c)
       \/ \E h \in Chans : ChanStep(h) \/ OpenChannel(h) \/ ProcessCommand(h)
       \/ CleanerStep
       \/ Tick

Spec == Init /\ [][Next]_vars

(* Every goroutine keeps running.  Strong fairness where a step waits for   *)
(* ss.lock: a Go mutex hands itself to a waiter that has starved.  The      *)
(* library bounds every connection by MaxTimeout, so a handshake and an     *)
(* open connection end, and the shell's reads with them.                    *)
Fairness ==
    /\ \A c \in Conns :
          /\ SF_vars(~crashed /\ ConnStep(c))
          /\ WF_vars(~crashed /\ Handshake(c))
          /\ WF_vars(~crashed /\ Disconnect(c))
    /\ \A h \in Chans : SF_vars(~crashed /\ ChanStep(h))
    /\ WF_vars(~crashed /\ CleanerStep)
    /\ WF_vars(~crashed /\ Tick)

FairSpec == Spec /\ Fairness

-----------------------------------------------------------------------------
(* Properties                                                              *)

Locations == {"off", "accept", "accepted", "handshake", "auth", "authed",
              "fail", "failed", "open", "forward", "forwarded",
              "idle", "pty", "ptySet", "request", "requestSet", "handler",
              "created", "attached", "shell", "process", "exit", "done",
              "sleep", "sweep", "relock", "rm", "unwind", "log"}

\* Where a goroutine works on a Session it has looked up.
Holding == {"accepted", "authed", "failed", "forwarded", "ptySet",
            "requestSet", "created", "attached", "shell", "process"}

\* The registry, the objects and the pointers to them.
HeapTypes ==
    /\ sessions \in [Conns -> Objs \cup {NoObj}]
    /\ heap \in [Objs -> Session]
    /\ ptr \in [Procs -> Objs \cup {NoObj}]

\* Control: a goroutine inside a callback has a Session, a Remove that is
\* unwinding has a frame to unwind, and the lock is held exactly while the
\* clean-up worker sweeps.
ControlTypes ==
    /\ pc \in [Procs -> Locations]
    /\ ret \in [Procs -> Locations \ (Holding \cup {"sweep", "unwind"})]
    /\ frames \in [Procs -> Nat]
    /\ \A p \in Procs : pc[p] \in Holding => ptr[p] # NoObj
    /\ \A p \in Procs : pc[p] = "unwind" => frames[p] > 0
    /\ locked \in BOOLEAN
    /\ locked <=> pc[Cleaner] = "sweep"

OtherTypes ==
    /\ activeSessions \in Int
    /\ serving \in [Chans -> Chans \cup {NoChan}]
    /\ chanOpen \in [Chans -> BOOLEAN]
    /\ calls \in [Conns -> 0..MaxCalls]
    /\ todo \subseteq Conns
    /\ victim \in Conns
    /\ crashed \in BOOLEAN

\* Types of all variables, with the coupling of control state, pointers,
\* Remove frames and the lock that every callback relies on.
TypeOK == HeapTypes /\ ControlTypes /\ OtherTypes

\* The Remove frames that have deleted an entry and not yet counted it.
Pending == UNION {{p} \X (1..frames[p]) : p \in Procs}

\* The gauge of IncrementSessions and DecrementSessions, which are called
\* outside any common critical section, counts the registered sessions and
\* the removals still under way, however often Remove recurses, callbacks
\* re-create the session in between, and the clean-up removes it as well.
GaugeInv == activeSessions = Cardinality(Live) + Cardinality(Pending)

\* A session that expire has marked as an orphan stays in the map only until
\* the clean-up's own Remove has reached it: no callback can look it up
\* later and work on a session whose clock is frozen.
OrphanIsLeaving ==
    \A c \in Live : heap[sessions[c]].orphan =>
                     victim = c /\ pc[Cleaner] = "rm"

\* The service outlives its sessions: expire, which runs outside the recover
\* of sessionHandler, never dereferences a nil SSHSession.
ServiceSurvives == ~crashed

\* sessionHandler serves the channel it was called for.
ShellServesOwnChannel ==
    \A h \in Chans : pc[h] = "process" => serving[h] = h

\* A session whose connection has gone leaves the registry, also when
\* connectionFailedCallback, a recovered panic or a disconnect before the
\* first channel left it there, unless the address connects again.
DeadSessionsGo ==
    \A c \in Conns : (Has(c) /\ pc[c] = "off") ~> (~Has(c) \/ pc[c] # "off")

\* Every Remove returns, although delete calls Remove again as long as others
\* keep re-creating the session, and every frame needs the lock three times.
RemoveReturns ==
    \A p \in Procs : pc[p] = "rm" ~> pc[p] \notin {"rm", "unwind", "log"}
====
