-------------------------------- MODULE Hub --------------------------------
(***************************************************************************)
(* The dashboard's websocket streams: Hub.Run, Broadcast, WritePump and    *)
(* AddSubscriptionHandler of ui_server.go, and the hub a Reload replaces.  *)
(*                                                                         *)
(* Every log line and every statistics update goes through Broadcast on an *)
(* unbuffered channel, so a hub that stopped would stop its callers too.   *)
(* A message is known by its place among the messages its hub has taken.   *)
(* h.unregister is left out: nothing in the program sends on it.           *)
(***************************************************************************)
EXTENDS Integers, Sequences

CONSTANTS Subs,      \* subscriptions: a browser's websocket and its Client
          Callers,   \* goroutines that call PushStats or PushLog
          BufSize,   \* capacity of Client.Send, 256 in the code
          MaxHubs,   \* bound: hubs, one for each Start of the UI server
          MaxPushes  \* bound: calls that reach a hub

ASSUME HubAssumption ==
    /\ BufSize \in Nat \ {0}
    /\ MaxHubs \in Nat \ {0}
    /\ MaxPushes \in Nat

Hubs == 1..MaxHubs

VARIABLES
    stream,   \* the hub of uis.Stats or uis.Console, 0 for nil
    served,   \* the hub of the server that has the port, 0 if none has it
    starting, \* Start goroutines that have not called init yet
    clients,  \* hub -> h.clients
    taken,    \* hub -> messages received from h.broadcast
    pending,  \* hub -> clients the loop over h.clients has still to serve
    call,     \* caller -> the hub it waits for in Broadcast, 0 if none
    pushes,   \* calls so far, up to MaxPushes
    hubOf,    \* subscription -> its hub, 0 before the upgrade
    send,     \* subscription -> the messages in Client.Send
    closed,   \* subscriptions whose Client.Send is closed
    since,    \* subscription -> messages its hub had taken when it registered
    pump,     \* subscription -> where its handler, then its WritePump, is
    stalled,  \* subscription -> whether its browser stalls or is gone
    batch,    \* subscription -> messages written to the writer, not flushed
    left,     \* subscription -> n - i of WritePump's inner loop
    written   \* subscription -> messages written to the connection

server == <<stream, served, starting, call, pushes>>
hub == <<clients, taken, pending>>
sub == <<hubOf, send, closed, since, pump, stalled, batch, left, written>>
vars == <<server, hub, sub>>

\* The messages a+1, ..., b in this order.
Messages(a, b) == [i \in 1..(b - a) |-> a + i]

-----------------------------------------------------------------------------
(* UIServer: Start, Reload, PushStats and PushLog                          *)

\* init makes a new hub, and the hub of an earlier Start keeps running.  The
\* new server gets the port unless another one still has it.
Start ==
    /\ starting > 0
    /\ starting' = starting - 1
    /\ stream' = stream + 1
    /\ served' = IF served = 0 THEN stream + 1 ELSE served
    /\ UNCHANGED <<call, pushes, hub, sub>>

\* A saved configuration: Shutdown stops uis.server, the one of the last
\* Start, and leaves websockets, which are hijacked, and uis.Stats as they are;
\* a new Start sleeps ten seconds, during which another save can come.
Reload ==
    /\ stream # 0
    /\ stream + starting < MaxHubs
    /\ starting' = starting + 1
    /\ served' = IF served = stream THEN 0 ELSE served
    /\ UNCHANGED <<stream, call, pushes, hub, sub>>

\* Before the first Start the message is dropped.
Push(p) ==
    /\ call[p] = 0
    /\ stream # 0
    /\ pushes < MaxPushes
    /\ pushes' = pushes + 1
    /\ call' = [call EXCEPT ![p] = stream]
    /\ UNCHANGED <<stream, served, starting, hub, sub>>

\* The upgrade of a request: a Client with an empty Send, then h.Register.
Subscribe(s) ==
    /\ served # 0
    /\ hubOf[s] = 0
    /\ hubOf' = [hubOf EXCEPT ![s] = served]
    /\ pump' = [pump EXCEPT ![s] = "register"]
    /\ UNCHANGED <<server, hub, send, closed, since, stalled, batch, left,
                   written>>

-----------------------------------------------------------------------------
(* Hub.Run                                                                 *)

\* The hub is at its select.
Selecting(h) == h <= stream /\ pending[h] = {}

HubRegister(s) ==
    LET h == hubOf[s] IN
    /\ pump[s] = "register"
    /\ Selecting(h)
    /\ clients' = [clients EXCEPT ![h] = @ \cup {s}]
    /\ since' = [since EXCEPT ![s] = taken[h]]
    /\ pump' = [pump EXCEPT ![s] = "idle"]
    /\ UNCHANGED <<server, taken, pending, hubOf, send, closed, batch, left,
                   stalled, written>>

\* The hub receives what p sends on h.broadcast, and p goes on.
HubBroadcast(p) ==
    LET h == call[p] IN
    /\ h # 0
    /\ Selecting(h)
    /\ taken' = [taken EXCEPT ![h] = @ + 1]
    /\ pending' = [pending EXCEPT ![h] = clients[h]]
    /\ call' = [call EXCEPT ![p] = 0]
    /\ UNCHANGED <<stream, served, starting, pushes, clients, sub>>

\* Mutant of HubServe: the select has no default.
HubServeWaits(h) ==
    \E s \in pending[h] :
        /\ pending' = [pending EXCEPT ![h] = @ \ {s}]
        /\ ~closed[s] /\ Len(send[s]) < BufSize
        /\ send' = [send EXCEPT ![s] = Append(@, taken[h])]
        /\ UNCHANGED <<server, clients, taken, hubOf, closed, since, pump,
                       batch, left, stalled, written>>

\* Mutant of HubServe: a client that is behind is closed and kept.
HubServeKeeps(h) ==
    \E s \in pending[h] :
        /\ pending' = [pending EXCEPT ![h] = @ \ {s}]
        /\ \/ /\ Len(send[s]) < BufSize
              /\ send' = [send EXCEPT ![s] = Append(@, taken[h])]
              /\ UNCHANGED closed
           \/ /\ Len(send[s]) >= BufSize
              /\ closed' = [closed EXCEPT ![s] = TRUE]
              /\ UNCHANGED send
        /\ UNCHANGED <<server, clients, taken, hubOf, since, pump, batch, left,
                       stalled, written>>

\* Mutant of HubServe: a client may be one message further behind.
HubServeOverfills(h) ==
    \E s \in pending[h] :
        /\ pending' = [pending EXCEPT ![h] = @ \ {s}]
        /\ ~closed[s] /\ Len(send[s]) <= BufSize
        /\ send' = [send EXCEPT ![s] = Append(@, taken[h])]
        /\ UNCHANGED <<server, clients, taken, hubOf, closed, since, pump,
                       batch, left, stalled, written>>

\* Mutant of HubServe: a client that is behind misses the message and stays.
HubServeSkips(h) ==
    \E s \in pending[h] :
        /\ pending' = [pending EXCEPT ![h] = @ \ {s}]
        /\ send' = [send EXCEPT ![s] = IF Len(@) < BufSize
                                       THEN Append(@, taken[h]) ELSE @]
        /\ UNCHANGED <<server, clients, taken, hubOf, closed, since, pump,
                       batch, left, stalled, written>>

\* One round of the loop over h.clients: the message is queued, or the client
\* is behind and is closed and deleted.
HubServe(h) ==
    \E s \in pending[h] :
        /\ pending' = [pending EXCEPT ![h] = @ \ {s}]
        /\ \/ /\ ~closed[s] /\ Len(send[s]) < BufSize
              /\ send' = [send EXCEPT ![s] = Append(@, taken[h])]
              /\ UNCHANGED <<clients, closed>>
           \/ /\ Len(send[s]) >= BufSize
              /\ closed' = [closed EXCEPT ![s] = TRUE]
              /\ clients' = [clients EXCEPT ![h] = @ \ {s}]
              /\ UNCHANGED send
        /\ UNCHANGED <<server, taken, hubOf, since, pump, batch, left,
                       stalled, written>>

-----------------------------------------------------------------------------
(* WritePump                                                               *)

PumpTake(s) ==
    /\ pump[s] = "idle"
    /\ send[s] # <<>>
    /\ batch' = [batch EXCEPT ![s] = <<Head(send[s])>>]
    /\ send' = [send EXCEPT ![s] = Tail(@)]
    /\ pump' = [pump EXCEPT ![s] = "count"]
    /\ UNCHANGED <<server, hub, hubOf, closed, since, left, stalled, written>>

\* Mutant of PumpCount: the message in hand is counted too.
PumpCountOneMore(s) ==
    /\ pump[s] = "count"
    /\ left' = [left EXCEPT ![s] = Len(send[s]) + 1]
    /\ pump' = [pump EXCEPT ![s] = "drain"]
    /\ UNCHANGED <<server, hub, hubOf, send, closed, since, batch, stalled,
                   written>>

\* n := len(c.Send), while the hub may be adding to it.
PumpCount(s) ==
    /\ pump[s] = "count"
    /\ left' = [left EXCEPT ![s] = Len(send[s])]
    /\ pump' = [pump EXCEPT ![s] = "drain"]
    /\ UNCHANGED <<server, hub, hubOf, send, closed, since, batch, stalled,
                   written>>

PumpDrain(s) ==
    /\ pump[s] = "drain"
    /\ left[s] > 0
    /\ send[s] # <<>>
    /\ batch' = [batch EXCEPT ![s] = Append(@, Head(send[s]))]
    /\ send' = [send EXCEPT ![s] = Tail(@)]
    /\ left' = [left EXCEPT ![s] = @ - 1]
    /\ UNCHANGED <<server, hub, hubOf, closed, since, pump, stalled, written>>

\* w.Close sends the frame; the kernel may take one for a browser that is gone.
PumpFlush(s) ==
    /\ pump[s] = "drain"
    /\ left[s] = 0
    /\ written' = [written EXCEPT ![s] = @ \o batch[s]]
    /\ batch' = [batch EXCEPT ![s] = <<>>]
    /\ pump' = [pump EXCEPT ![s] = "idle"]
    /\ UNCHANGED <<server, hub, hubOf, send, closed, since, stalled, left>>

\* NextWriter, w.Close or the ping fails, at the latest after writeWait: the
\* pump returns, closes the connection and does not tell the hub.
PumpFail(s) ==
    /\ stalled[s]
    /\ pump[s] \in {"idle", "count"} \/ (pump[s] = "drain" /\ left[s] = 0)
    /\ pump' = [pump EXCEPT ![s] = "done"]
    /\ batch' = [batch EXCEPT ![s] = <<>>]
    /\ UNCHANGED <<server, hub, hubOf, send, closed, since, stalled, left,
                   written>>

\* Mutant of PumpClosed: ok is not looked at and the loop goes on.
PumpClosedLoops(s) ==
    /\ pump[s] = "idle"
    /\ send[s] = <<>> /\ closed[s]
    /\ batch' = [batch EXCEPT ![s] = <<>>]
    /\ pump' = [pump EXCEPT ![s] = "count"]
    /\ UNCHANGED <<server, hub, hubOf, send, closed, since, left, stalled,
                   written>>

\* Send is closed and empty: a close message, and the pump returns.
PumpClosed(s) ==
    /\ pump[s] = "idle"
    /\ send[s] = <<>> /\ closed[s]
    /\ pump' = [pump EXCEPT ![s] = "done"]
    /\ UNCHANGED <<server, hub, hubOf, send, closed, since, stalled, batch,
                   left,
                   written>>

-----------------------------------------------------------------------------
(* External: the browser's end                                             *)

\* It stalls or goes, or is back; this matters only while the pump runs.
Stall(s) ==
    /\ pump[s] \in {"idle", "count", "drain"}
    /\ stalled' = [stalled EXCEPT ![s] = ~@]
    /\ UNCHANGED <<server, hub, hubOf, send, closed, since, pump, batch, left,
                   written>>

-----------------------------------------------------------------------------
Init ==
    /\ stream = 0
    /\ served = 0
    /\ starting = 1
    /\ clients = [h \in Hubs |-> {}]
    /\ taken = [h \in Hubs |-> 0]
    /\ pending = [h \in Hubs |-> {}]
    /\ call = [p \in Callers |-> 0]
    /\ pushes = 0
    /\ hubOf = [s \in Subs |-> 0]
    /\ send = [s \in Subs |-> <<>>]
    /\ closed = [s \in Subs |-> FALSE]
    /\ since = [s \in Subs |-> 0]
    /\ pump = [s \in Subs |-> "none"]
    /\ batch = [s \in Subs |-> <<>>]
    /\ left = [s \in Subs |-> 0]
    /\ stalled = [s \in Subs |-> FALSE]
    /\ written = [s \in Subs |-> <<>>]

PumpStep(s) == \/ PumpTake(s) \/ PumpCount(s) \/ PumpDrain(s)
               \/ PumpFlush(s) \/ PumpFail(s) \/ PumpClosed(s)

Next == \/ Start \/ Reload
        \/ \E p \in Callers : Push(p) \/ HubBroadcast(p)
        \/ \E h \in Hubs : HubServe(h)
        \/ \E s \in Subs : \/ Subscribe(s) \/ HubRegister(s) \/ PumpStep(s)
                           \/ Stall(s)

Spec == Init /\ [][Next]_vars

\* Hub.Run and the pumps keep running; its select does not neglect a channel
\* that is ready again and again.  A stalled write fails after writeWait or
\* goes through.  Nothing is assumed of callers and browsers.
Fairness ==
    /\ \A h \in Hubs : WF_vars(HubServe(h))
    /\ \A p \in Callers : SF_vars(HubBroadcast(p))
    /\ \A s \in Subs : SF_vars(HubRegister(s)) /\ WF_vars(PumpStep(s))

FairSpec == Spec /\ Fairness

-----------------------------------------------------------------------------
(* Properties                                                              *)

\* Types of the variables; no Send holds more than its capacity.
TypeOK ==
    /\ stream \in 0..MaxHubs /\ served \in 0..stream
    /\ starting \in 0..MaxHubs
    /\ clients \in [Hubs -> SUBSET Subs] /\ pending \in [Hubs -> SUBSET Subs]
    /\ taken \in [Hubs -> 0..MaxPushes]
    /\ call \in [Callers -> 0..stream]
    /\ pushes \in 0..MaxPushes
    /\ hubOf \in [Subs -> 0..stream]
    /\ \A s \in Subs : /\ send[s] \in Seq(1..MaxPushes)
                       /\ Len(send[s]) <= BufSize
                       /\ batch[s] \in Seq(1..MaxPushes)
                       /\ written[s] \in Seq(1..MaxPushes)
    /\ closed \in [Subs -> BOOLEAN]
    /\ since \in [Subs -> 0..MaxPushes]
    /\ pump \in [Subs -> {"none", "register", "idle", "count", "drain", "done"}]
    /\ left \in [Subs -> 0..BufSize]
    /\ stalled \in [Subs -> BOOLEAN]

\* The hub never sends on a closed Send and never closes one twice, either of
\* which is a panic of the whole program: whom it has closed is in no map and
\* in no loop over one, also while that client's pump still drains its Send.
ServedIsOpen ==
    \A h \in Hubs : \A s \in clients[h] \cup pending[h] :
        ~closed[s] /\ hubOf[s] = h

\* As long as the hub has a client and its pump runs, nothing is lost, doubled
\* or reordered on the way: what was written to the connection, the frame in
\* the making and Send together are the messages taken since it registered, in
\* order, up to the one the hub is about to queue.
NothingMissed ==
    \A h \in Hubs : \A s \in clients[h] : pump[s] # "done" =>
        written[s] \o batch[s] \o send[s]
            = Messages(since[s],
                       IF s \in pending[h] THEN taken[h] - 1 ELSE taken[h])

\* The inner loop of WritePump never waits: the n messages it counted are
\* there, whatever the hub does to Send meanwhile, closing it included.
DrainNeverWaits == \A s \in Subs : pump[s] = "drain" => left[s] <= Len(send[s])

\* Broadcast returns, and so do all the logging calls behind it: neither a
\* browser that stalls or goes, nor a pump that ended, nor a reload stops a hub.
BroadcastReturns == \A p \in Callers : call[p] # 0 ~> call[p] = 0

\* A client the hub gave up has its connection closed in the end, so that the
\* page can tell.
DroppedIsClosed == \A s \in Subs : closed[s] ~> pump[s] = "done"
====
