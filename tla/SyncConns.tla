----------------------------- MODULE SyncConns -----------------------------
(***************************************************************************)
(* The connections of the sync server: ConnectionHandler, handleConnection *)
(* and CleanUpWorker of sync_server.go and the map they share.             *)
(*                                                                         *)
(* Two levels of locks: sscs.lock guards the map, ssc.lock the connection  *)
(* of one entry.  handleConnection keeps ssc.lock while it waits for the   *)
(* peer's command; Create, Remove and CleanUp keep sscs.lock while they    *)
(* wait for the ssc.lock of the entry they close.                          *)
(***************************************************************************)
EXTENDS Integers, FiniteSets

CONSTANTS Conns,     \* TCP connections, and the entry and goroutine of each
          Addrs,     \* remote addresses "host:port"
          AddrOf,    \* the address a connection comes from
          Allowed,   \* addresses of the sync nodes of the first configuration
          Nobody,    \* no connection
          Acceptor,  \* the goroutine of ConnectionHandler
          Cleaner,   \* the goroutine of CleanUpWorker
          MaxReloads \* bound: reloads of the configuration

ASSUME ConnsAssumption ==
    /\ AddrOf \in [Conns -> Addrs]
    /\ Allowed \subseteq Addrs
    /\ Nobody \notin Conns /\ Acceptor \notin Conns /\ Cleaner \notin Conns
    /\ MaxReloads \in Nat
    /\ Acceptor # Cleaner /\ Nobody \notin {Acceptor, Cleaner}

VARIABLES
    peer,       \* what the remote end of a connection has done
    entry,      \* sscs.conns: address -> entry, named by its connection
    isOpen,     \* entries whose conn is not nil
    isOld,      \* entries in the map older than CLEANUP_SYNC_MIN_AGE
    target,     \* the entry Create returned for a connection
    connsLock,  \* the goroutine that holds sscs.lock
    sscLock,    \* entry -> the goroutine that holds its ssc.lock
    pc,         \* where each goroutine is
    current,    \* the connection the acceptor is working on
    todo,       \* entries CleanUp has still to close
    clients,    \* nodes.clients: whom IsAllowedHost lets in
    reload,     \* UpdateClients is removing the old clients
    reloads     \* reloads so far, up to MaxReloads

config == <<clients, reload, reloads>>
vars == <<peer, entry, isOpen, isOld, target, connsLock, sscLock, pc, current,
          todo, config>>

Procs == Conns \cup {Acceptor, Cleaner}
Goto(p, l) == pc' = [pc EXCEPT ![p] = l]

-----------------------------------------------------------------------------
(* External: the remote ends                                               *)

\* A port is used again only after its last connection is gone at that end.
PeerConnect(c) ==
    /\ peer[c] = "none"
    /\ pc[Acceptor] # "down"
    /\ \A d \in Conns \ {c} :
          AddrOf[d] = AddrOf[c] => peer[d] \in {"none", "gone"}
    /\ peer' = [peer EXCEPT ![c] = "silent"]
    /\ Goto(c, "backlog")
    /\ UNCHANGED <<entry, isOpen, isOld, target, connsLock, sscLock, current,
                   todo, config>>

\* It sends a line, a command or an empty one, until the server has closed.
PeerSend(c) ==
    /\ peer[c] = "silent" /\ pc[c] # "done"
    /\ peer' = [peer EXCEPT ![c] = "sent"]
    /\ UNCHANGED <<entry, isOpen, isOld, target, connsLock, sscLock, pc,
                   current,
                   todo, config>>

PeerSendEmpty(c) ==
    /\ peer[c] = "silent" /\ pc[c] # "done"
    /\ peer' = [peer EXCEPT ![c] = "empty"]
    /\ UNCHANGED <<entry, isOpen, isOld, target, connsLock, sscLock, pc,
                   current,
                   todo, config>>

PeerClose(c) ==
    /\ peer[c] \in {"silent", "empty", "sent"}
    /\ peer' = [peer EXCEPT ![c] = "gone"]
    /\ UNCHANGED <<entry, isOpen, isOld, target, connsLock, sscLock, pc,
                   current,
                   todo, config>>

\* CLEANUP_SYNC_MIN_AGE passes for an entry.
Age(c) ==
    /\ \E a \in Addrs : entry[a] = c
    /\ ~isOld[c]
    /\ isOld' = [isOld EXCEPT ![c] = TRUE]
    /\ UNCHANGED <<peer, entry, isOpen, target, connsLock, sscLock, pc,
                   current,
                   todo, config>>

-----------------------------------------------------------------------------
(* ConnectionHandler                                                       *)

Accept(c) ==
    /\ pc[Acceptor] = "accept"
    /\ pc[c] = "backlog"
    /\ current' = c
    /\ pc' = [pc EXCEPT ![Acceptor] = "create", ![c] = "accepted"]
    /\ UNCHANGED <<peer, entry, isOpen, isOld, target, connsLock, sscLock,
                   todo, config>>

\* Accept returns an error, such as too many open files, and with it a nil
\* conn, whose Close panics.  Nothing recovers in this goroutine, so that the
\* process ends, and all of its connections with it.
AcceptFails ==
    /\ pc[Acceptor] = "accept"
    /\ pc' = [p \in Procs |-> IF p \in {Acceptor, Cleaner} THEN "down"
                             ELSE IF pc[p] = "none" THEN "none" ELSE "done"]
    /\ entry' = [a \in Addrs |-> Nobody]
    /\ isOpen' = [c \in Conns |-> FALSE]
    /\ isOld' = [c \in Conns |-> FALSE]
    /\ target' = [c \in Conns |-> c]
    /\ sscLock' = [c \in Conns |-> Nobody]
    /\ connsLock' = Nobody
    /\ todo' = {}
    /\ clients' = {}
    /\ reload' = FALSE
    /\ UNCHANGED <<peer, current, reloads>>

\* The address has an entry and its conn is not nil.
HasOpen(a) == \E d \in Conns : entry[a] = d /\ isOpen[d]

\* Create, when nothing has to be closed: a new entry if there is none or its
\* conn is nil, else the entry that is there, young and open, is returned and
\* the new conn is dropped.
Create ==
    LET a == AddrOf[current]
        d == entry[a]
    IN /\ pc[Acceptor] = "create"
       /\ connsLock = Nobody
       /\ \/ /\ ~HasOpen(a)
             /\ entry' = [entry EXCEPT ![a] = current]
             /\ isOpen' = [isOpen EXCEPT ![current] = TRUE]
             /\ isOld' = [c \in Conns |-> isOld[c] /\ c # d]
             /\ target' = [target EXCEPT ![current] = current]
          \/ /\ HasOpen(a) /\ ~isOld[d]
             /\ target' = [target EXCEPT ![current] = d]
             /\ UNCHANGED <<entry, isOpen, isOld>>
       /\ Goto(Acceptor, "dispatch")
       /\ UNCHANGED <<peer, connsLock, sscLock, current, todo, config>>

\* Create, when an old entry has to be closed first: with sscs.lock held, wait
\* for its ssc.lock.
CreateLock ==
    LET a == AddrOf[current]
        d == entry[a]
    IN /\ pc[Acceptor] = "create"
       /\ connsLock = Nobody
       /\ HasOpen(a) /\ isOld[d]
       /\ connsLock' = Acceptor
       /\ Goto(Acceptor, "replace")
       /\ UNCHANGED <<peer, entry, isOpen, isOld, target, sscLock, current,
                      todo, config>>

CreateReplace ==
    LET a == AddrOf[current]
        d == entry[a]
    IN /\ pc[Acceptor] = "replace"
       /\ sscLock[d] = Nobody
       /\ entry' = [entry EXCEPT ![a] = current]
       /\ isOpen' = [isOpen EXCEPT ![d] = FALSE, ![current] = TRUE]
       /\ isOld' = [isOld EXCEPT ![d] = FALSE]
       /\ target' = [target EXCEPT ![current] = current]
       /\ connsLock' = Nobody
       /\ Goto(Acceptor, "dispatch")
       /\ UNCHANGED <<peer, sscLock, current, todo, config>>

IsAllowedHost(a) == a \in clients

\* A sync node gets a goroutine, anyone else some garbage and a Remove.
Dispatch ==
    /\ pc[Acceptor] = "dispatch"
    /\ \/ /\ IsAllowedHost(AddrOf[current])
          /\ pc' = [pc EXCEPT ![Acceptor] = "accept", ![current] = "start"]
          /\ current' = Nobody
       \/ /\ ~IsAllowedHost(AddrOf[current])
          /\ Goto(Acceptor, "remove")
          /\ UNCHANGED current
    /\ UNCHANGED <<peer, entry, isOpen, isOld, target, connsLock, sscLock,
                   todo, config>>

-----------------------------------------------------------------------------
(* handleConnection and the Remove that follows it                         *)

HandlerLock(c) ==
    /\ pc[c] = "start"
    /\ sscLock[target[c]] = Nobody
    /\ \/ /\ isOpen[target[c]]
          /\ sscLock' = [sscLock EXCEPT ![target[c]] = c]
          /\ Goto(c, "read")
       \/ /\ ~isOpen[target[c]]
          /\ Goto(c, "remove")
          /\ UNCHANGED sscLock
    /\ UNCHANGED <<peer, entry, isOpen, isOld, target, connsLock, current,
                   todo, config>>

\* Mutant of HandlerRead: the goroutine calls Remove with ssc.lock held.
HandlerReadKeepsLock(c) ==
    /\ pc[c] = "read"
    /\ peer[target[c]] \in {"sent", "gone"}
    /\ Goto(c, "remove")
    /\ UNCHANGED <<peer, entry, isOpen, isOld, target, connsLock, sscLock,
                   current,
                   todo, config>>

\* Mutant of HandlerRead: the goroutine ends without Remove on end of file.
HandlerReadEnds(c) ==
    /\ pc[c] = "read"
    /\ peer[target[c]] \in {"sent", "gone"}
    /\ sscLock' = [sscLock EXCEPT ![target[c]] = Nobody]
    /\ Goto(c, IF peer[target[c]] = "sent" THEN "remove" ELSE "done")
    /\ UNCHANGED <<peer, entry, isOpen, isOld, target, connsLock, current,
                   todo, config>>

\* Scan has no deadline: it waits, with ssc.lock held, until the peer sends a
\* command, which is processed, or closes.
HandlerRead(c) ==
    /\ pc[c] = "read"
    /\ peer[target[c]] \in {"sent", "gone"}
    /\ sscLock' = [sscLock EXCEPT ![target[c]] = Nobody]
    /\ Goto(c, "remove")
    /\ UNCHANGED <<peer, entry, isOpen, isOld, target, connsLock, current,
                   todo, config>>

\* An empty line is answered with nothing, and Scan waits for the next one.
HandlerSkip(c) ==
    /\ pc[c] = "read"
    /\ peer[target[c]] = "empty"
    /\ peer' = [peer EXCEPT ![target[c]] = "silent"]
    /\ UNCHANGED <<entry, isOpen, isOld, target, connsLock, sscLock, pc,
                   current,
                   todo, config>>

\* The connection a call of Remove is about, and the end of that call.
Subject(p) == IF p = Acceptor THEN current ELSE p

Removed(p) ==
    /\ pc' = [pc EXCEPT ![Subject(p)] = "done",
                        ![Acceptor] = IF p = Acceptor THEN "accept" ELSE @]
    /\ current' = IF p = Acceptor THEN Nobody ELSE current
    /\ target' = [target EXCEPT ![Subject(p)] = Subject(p)]

\* Remove goes by address: whatever entry is there is closed and deleted.
RemoveLock(p) ==
    /\ pc[p] = "remove"
    /\ connsLock = Nobody
    /\ \/ /\ entry[AddrOf[Subject(p)]] = Nobody
          /\ Removed(p)
          /\ UNCHANGED connsLock
       \/ /\ entry[AddrOf[Subject(p)]] # Nobody
          /\ connsLock' = p
          /\ Goto(p, "close")
          /\ UNCHANGED <<target, current>>
    /\ UNCHANGED <<peer, entry, isOpen, isOld, sscLock, todo, config>>

RemoveClose(p) ==
    LET a == AddrOf[Subject(p)]
        d == entry[a]
    IN /\ pc[p] = "close"
       /\ sscLock[d] = Nobody
       /\ isOpen' = [isOpen EXCEPT ![d] = FALSE]
       /\ entry' = [entry EXCEPT ![a] = Nobody]
       /\ connsLock' = Nobody
       /\ isOld' = [isOld EXCEPT ![d] = FALSE]
       /\ Removed(p)
       /\ UNCHANGED <<peer, sscLock, todo, config>>

Remove(p) == RemoveLock(p) \/ RemoveClose(p)

-----------------------------------------------------------------------------
(* CleanUpWorker: closes old connections and leaves their entries          *)

CleanUpLock ==
    /\ pc[Cleaner] = "sleep"
    /\ connsLock = Nobody
    /\ connsLock' = Cleaner
    /\ todo' = {d \in Conns : isOld[d] /\ \E a \in Addrs : entry[a] = d}
    /\ Goto(Cleaner, "sweep")
    /\ UNCHANGED <<peer, entry, isOpen, isOld, target, sscLock, current,
                   config>>

\* Mutant of CleanUpClose: the connection is closed without its ssc.lock.
CleanUpCloseNoWait ==
    /\ pc[Cleaner] = "sweep"
    /\ \E d \in todo : /\ isOpen' = [isOpen EXCEPT ![d] = FALSE]
                       /\ todo' = todo \ {d}
    /\ UNCHANGED <<peer, entry, isOld, target, connsLock, sscLock, pc, current,
                   config>>

CleanUpClose ==
    /\ pc[Cleaner] = "sweep"
    /\ \E d \in todo : /\ sscLock[d] = Nobody
                       /\ isOpen' = [isOpen EXCEPT ![d] = FALSE]
                       /\ todo' = todo \ {d}
    /\ UNCHANGED <<peer, entry, isOld, target, connsLock, sscLock, pc, current,
                   config>>

\* Mutant of CleanUpDone: CleanUp returns with sscs.lock held.
CleanUpKeepsLock ==
    /\ pc[Cleaner] = "sweep"
    /\ todo = {}
    /\ Goto(Cleaner, "sleep")
    /\ UNCHANGED <<peer, entry, isOpen, isOld, target, connsLock, sscLock,
                   current,
                   todo, config>>

CleanUpDone ==
    /\ pc[Cleaner] = "sweep"
    /\ todo = {}
    /\ connsLock' = Nobody
    /\ Goto(Cleaner, "sleep")
    /\ UNCHANGED <<peer, entry, isOpen, isOld, target, sscLock, current, todo,
                   config>>

-----------------------------------------------------------------------------
(* UpdateClients, when the configuration is saved in the dashboard         *)

conns == <<peer, entry, isOpen, isOld, target, connsLock, sscLock, pc, current,
           todo>>

ReloadStart ==
    /\ ~reload
    /\ pc[Acceptor] # "down"
    /\ reloads < MaxReloads
    /\ reload' = TRUE
    /\ reloads' = reloads + 1
    /\ UNCHANGED <<conns, clients>>

\* A client goes, or, since it was never connected, closing its nil conn
\* panics and the web server ends the reload there.
ReloadRemove ==
    /\ reload
    /\ \/ /\ \E a \in clients : clients' = clients \ {a}
          /\ UNCHANGED reload
       \/ /\ clients # {}
          /\ reload' = FALSE
          /\ UNCHANGED clients
    /\ UNCHANGED <<conns, reloads>>

\* The nodes of the new configuration.
ReloadAdd ==
    /\ reload
    /\ clients = {}
    /\ clients' \in SUBSET Addrs
    /\ reload' = FALSE
    /\ UNCHANGED <<conns, reloads>>

-----------------------------------------------------------------------------
Init ==
    /\ peer = [c \in Conns |-> "none"]
    /\ entry = [a \in Addrs |-> Nobody]
    /\ isOpen = [c \in Conns |-> FALSE]
    /\ isOld = [c \in Conns |-> FALSE]
    /\ target = [c \in Conns |-> c]
    /\ connsLock = Nobody
    /\ sscLock = [c \in Conns |-> Nobody]
    /\ pc = [p \in Procs |-> IF p = Acceptor THEN "accept"
                             ELSE IF p = Cleaner THEN "sleep" ELSE "none"]
    /\ current = Nobody
    /\ todo = {}
    /\ clients = Allowed
    /\ reload = FALSE
    /\ reloads = 0

AcceptorStep == \/ \E c \in Conns : Accept(c)
                \/ Create \/ CreateLock \/ CreateReplace \/ Dispatch
                \/ Remove(Acceptor)
HandlerStep(c) == \/ HandlerLock(c) \/ HandlerRead(c) \/ HandlerSkip(c)
                  \/ Remove(c)
CleanerStep == CleanUpLock \/ CleanUpClose \/ CleanUpDone
PeerAnswers(c) == PeerSend(c) \/ PeerClose(c)

Next == \/ AcceptorStep
        \/ AcceptFails
        \/ CleanerStep
        \/ ReloadStart \/ ReloadRemove \/ ReloadAdd
        \/ \E c \in Conns : \/ HandlerStep(c)
                            \/ PeerConnect(c) \/ PeerAnswers(c)
                            \/ PeerSendEmpty(c) \/ Age(c)

Spec == Init /\ [][Next]_vars

\* The goroutines keep running; strong fairness where they contend for
\* sscs.lock, which a Go mutex does not let a waiter starve on.
ServerFairness ==
    /\ SF_vars(AcceptorStep)
    /\ \A c \in Conns : SF_vars(HandlerStep(c))
    /\ WF_vars(CleanerStep)

\* A peer, once connected, sends its command or goes away, if need be after
\* some empty lines.
PeerFairness == \A c \in Conns : SF_vars(peer[c] = "silent" /\ PeerAnswers(c))

ServerSpec == Spec /\ ServerFairness
FairSpec == ServerSpec /\ PeerFairness

-----------------------------------------------------------------------------
(* Properties                                                              *)

\* Types of the variables; the map's lock is held exactly by the goroutine
\* that is closing entries under it.
TypeOK ==
    /\ peer \in [Conns -> {"none", "silent", "empty", "sent", "gone"}]
    /\ entry \in [Addrs -> Conns \cup {Nobody}]
    /\ isOpen \in [Conns -> BOOLEAN] /\ isOld \in [Conns -> BOOLEAN]
    /\ target \in [Conns -> Conns]
    /\ connsLock \in Procs \cup {Nobody}
    /\ \A p \in Procs :
          connsLock = p <=> pc[p] \in {"replace", "close", "sweep"}
    /\ sscLock \in [Conns -> Conns \cup {Nobody}]
    /\ current \in Conns \cup {Nobody}
    /\ todo \subseteq Conns
    /\ clients \subseteq Addrs
    /\ reload \in BOOLEAN
    /\ reloads \in 0..MaxReloads

\* Every entry of the map belongs to a connection from its address whose own
\* Remove is still to come, so that the map does not fill up: also when an
\* address connects again, an entry is replaced, shared or closed by CleanUp,
\* or removed by the goroutine of another connection.
EntryHasOwner ==
    \A a \in Addrs : entry[a] # Nobody =>
        AddrOf[entry[a]] = a /\ pc[entry[a]] # "done"

\* An ssc.lock is held only by a goroutine that reads from that entry, and the
\* entry stays open until it is done: nobody closes a connection in use.
InUseStaysOpen ==
    \A d \in Conns : sscLock[d] # Nobody =>
        isOpen[d] /\ pc[sscLock[d]] = "read" /\ target[sscLock[d]] = d

\* ConnectionHandler always gets back to Accept: neither a lock of the map
\* nor that of an entry it has to close is kept from it for ever.  (It is down
\* only after an Accept that has failed.)
AcceptorReturns ==
    pc[Acceptor] \notin {"accept", "down"} ~> pc[Acceptor] = "accept"

\* Every connection that was accepted is done with in the end, at the latest
\* when the process ends.
ConnectionsEnd == \A c \in Conns : pc[c] = "accepted" ~> pc[c] = "done"
====
