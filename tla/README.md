# oSSH in TLA+

A verification project for oSSH, an SSH honeypot and tar pit written in Go. The
modules model the parts of the program that keep state under concurrency,
failure and time; TLC checks them on small instances, TLAPS proves the results
named below for every instance. File names refer to the repository (`src/`).

## 1. The system

| Component | State | Operations | Talks to |
| --- | --- | --- | --- |
| Session registry (`ossh_sessions.go`) | map session ID (`host:port`) -> `Session`, one lock | `Create`, `Remove`, `cleanUp` every minute | SSH callbacks, metrics |
| Fake SSH server (`ossh_server.go`) | none of its own | the callbacks the SSH library runs: connection, password, key, pty, request, session handler, port forwarding, failed connection | registry, loot, logins, shell |
| Loot and payloads (`ossh_loot.go`, `ossh_payloads.go`) | sets of hosts, users, passwords, payload hashes; recordings on disk | `Add...`, `Has...`, `Get...`, `Fingerprint` | metrics, data files, sync |
| Data files (`ossh_server.go`) | `hosts.txt`, `users.txt`, `passwords.txt`, `payloads.txt` | `loadData`, `SaveData` | loot |
| Metrics (`metrics_server.go`) | Prometheus counters and gauges | `Increment...`, `DecrementSessions` | everyone |
| Sync cluster (`sync_server.go`, `sync_client.go`, `sync_commands.go`, `sync_nodes.go`) | client map, one TCP connection per command | `SyncWorker`, `Exec`, `SYNC`, lists, `ADD-...`, `ADD-STATS` | loot, data files, peers |
| Sync server connections (`sync_server.go`) | map address -> entry, map lock, lock per entry | `ConnectionHandler`, `handleConnection`, `CleanUpWorker` | peers, sync commands |
| Login statistics (`ossh_logins.go`) | map host -> `Login` with its own lock, map lock | `Get`, `AddFailure`, `AddSuccess`, the sums | callbacks, metrics, stats |
| Fake shell (`fake_shell*.go`) | working directory, history, recording | `Process`, `HandleInput`, `Exec`, built-in commands, the SCP receiver | session, templates, fake file system, captures, metrics |
| Fake file system (`fake_file_system.go`) | one overlay tree for all sessions | `OpenFile`, `RemoveFile`, `MkdirAll`, `ReadDir`, mount | shells, kernel |
| Web interface (`ui_server.go`) | hubs of websocket clients | `Hub.Run`, `WritePump`, `Broadcast`, `Reload` | every log line, statistics, browsers |
| Node statistics (`sync_nodes.go`, `ossh_server.go`) | last report per peer host | `stats`, `ADD-STATS`, `GetStats`, the two stats workers | logins, sync cluster, web interface |
| Configuration reload (`config.go`) | the global `Conf` | `updateConfig`, `UpdateClients` | sync server, web interface |
| Templates, recordings, assets | files, text | | |

What is hard in it:

* every SSH callback runs in a goroutine of the library, and all callbacks of
  one connection share one `Session` that any of them may remove;
* `Remove`, `delete` and `cleanUp` release the registry's lock in the middle,
  and `delete` calls `Remove` again;
* `Add...` of the loot checks and inserts in two critical sections, against a
  whitelist that a reload may change in between;
* `SaveData` runs in any number of goroutines at once; it and `pl.Save` truncate
  a file before they write it, a write may arrive in part or meet another one,
  and a crash may come anywhere;
* a sync round consists of separate exchanges, each of which may fail, against
  lists that change meanwhile on both sides;
* the sync server waits for one lock with another held, and for the network
  with both in reach;
* every log line of every goroutine goes through an unbuffered channel to a
  hub that feeds browsers which may stall, leave or lose their hub to a reload;
* a login looks items up one by one while others add them, finds its `Login` in
  three critical sections and counts itself in four places;
* statistics are read field by field, each of them with the lock of all logins
  held while it waits for one after the other, and are sent without a number, lost, overtaken,
  and start from zero when a node restarts;
* all shells share one file system and one directory of captures, and the SCP
  receiver must stay in step with a sender that may be cut off at any byte, while
  the errors of what it captures are ignored.

What makes the components correct:

* registry: its gauge agrees with its contents; nothing is left behind for ever;
  a session that is being thrown away cannot be picked up again; the clean-up
  does not kill the process, nor a session that is in use;
* loot and files: the gauges agree with the sets; what was saved stays saved;
  the payload list names recordings that exist; a host that is whitelisted all
  along is not kept;
* cluster: nodes end up knowing the same, and only what was really collected;
* sync connections: the accept loop comes back, connections end, entries do
  not pile up, and nothing is closed under a reader;
* web interface: nobody who logs ever waits for a browser, no channel is used
  after it was closed, and a browser that keeps up misses nothing;
* logins: a password that is nothing new lets nobody in (but who is whitelisted
  or back for more), every attempt is counted once;
* statistics: nothing is claimed that did not happen, and once things calm down
  the total is right;
* shells: the history is what was run, an upload is captured under the name and
  with the contents that were sent, and every session ends.

`PROJECT.json` lists the hazards line by line with the properties that are
aimed at them.

## 2. Modules

Mutant operators ("Mutant of X" in the comments) are variants of the
definition that follows them with a plausible bug; they are not part of any
specification and show that a property can fail.

### Sessions

`sessions` is the map, `heap` the `Session` objects it points to (a goroutine
may go on using an object that has left the map), `activeSessions` the gauge.
`pc`, `ptr`, `ret` and `frames` are the goroutines: their position, the session
they hold, where their `Remove` returns to, and the frames of the recursion
`Remove` -> `delete` -> `Remove` that have deleted an entry and not yet
decremented the gauge. `locked` says that `cleanUp` holds `ss.lock`; every other
critical section is short enough to be one action and only waits for it.

| Actions | Code |
| --- | --- |
| `Enter`/`Create`, then `ConnectionCallback`, `AuthHandler`, `ConnectionFailedCallback`, `PortForwardingCallback`, `RequestCallback` | the callbacks: first statement, then the setters and what follows |
| `HandlerAttach`, `HandlerSetShell`, `HandlerReadShell`, `ProcessCommand`, `HandlerFinish` | `sessionHandler` split where other goroutines can come between |
| `RemoveEntry`, `RemoveDecrement`, `RemoveLog` | `Remove` and `delete`, split at every `Unlock` |
| `CleanUpLock`, `CleanUpSkip`, `CleanUpExpire`, `CleanUpRelock`, `CleanUpDone` | `cleanUp` with `expire` |
| `Connect`, `Handshake`, `Forward`, `Disconnect`, `OpenChannel`, `LibraryExit` | external: the client and the SSH library, as far as the callbacks can tell |
| `Tick` | time, counted as idleness per session and capped beyond both limits |

`SetUser` also stands for `SetPassword`. Whether a login succeeds is left open
here; `Logins` has the decision. Objects that nothing refers to are recycled, so that the
number of cells bounds live objects, not allocations.

### Loot

`known` and `gauge` per section; `files` (the data files) and `casts` (the
recordings of payloads) on disk; `written`, the history of what has been saved. `plan` is what a
behaviour starts with: the files and the whitelist found, the items that come (`Coming`), and how many
crashes and changes of the whitelist there may be.
Goroutines run a job: a login, the end of a session, `ADD-HOST/USER/PASSWORD`, or
`ADD-PAYLOAD`. `AddCheck`, `AddInsert` and (payloads only) `AddCount` are the
critical sections of `Add...`; `AddDone` and `SaveDone` continue the job
(`sessionHandler` saves before it adds and records its payload, sync commands save
after). `Restart` kills the process at any point and runs `loadData`.

`os.WriteFile` is two system calls that matter, an open that creates or empties the
file and a write to its front. For data files these are `SaveTruncate` and
`SaveWrite`, after `SaveSnapshot`: a file holds a set of lines, and what a write
leaves of lines that others have put there since (`Overwritten`) is any part of them
and a cut one (`Cut`); if it fails, any part of both (`OverwrittenPartly`). A crash
falls between any two. For recordings `CastCheck`, `CastCreate`, `CastFill` are
`pl.Save`: a recording is `"none"`, `"open"` (created or emptied, and somebody is
about to fill it), `"damaged"` or `"whole"`; what another node donates may be damaged
before it comes. `CastKept` is what `ADD-PAYLOAD` does after that.

`whitelist` is what `isIPWhitelisted` reads, and `SetWhitelist` whatever a reload or
`UpdateClients` makes of it. Both rewrite the list in place and without a lock, so each list
that a reader can meet is a step of its own; nothing that was collected is purged.
`listable` remembers which hosts have been off the list since the start, `skipped` the
lines of `hosts.txt` that the start left out.

### ClusterSync

Per node: its loot, and where its `SyncWorker` is with which fingerprint, peers
to ask, answers, peer and batch. An answer is the set of sections that it still
has to sync; `FirstPlace` is the next one in the order in which the `SYNC` command
lists them. `Fingerprint`, `AskSync`, `NextPeer`,
`FetchList`, `Push`, `SectionDone` are the steps of a round, `AskFails`,
`PushFails` and the second case of `SectionDone` the failing exchanges. An answer
that is cut off decodes as an empty list. Items consist of words (`Pieces`): the
receiving side splits a command at blanks. `Collect` stands for logins and
session ends; fingerprints are compared as the sets they are computed from
(external: SHA-256 of the list).

### Gossip

The abstract specification of the cluster: per node and section a set that only
grows, by what an attacker brings (`Bring`) or by what a neighbour knows
(`Learn`), and whatever can be learned for ever is learned. `ClusterSync` instantiates it
with `known <- loot` (`G`); `ImplementsGossip` says that fingerprints, lists,
chunks and failing exchanges implement it: a step that changes some node's loot
is a `Bring` or a `Learn` of items that node does not refuse, everything else
stutters, and the fairness of `Learn` follows from that of the workers. It implies
`Convergence` (what one node collects reaches all that admit it), which
`cluster_words` refutes for items that contain a blank.

### SyncConns

`entry` is the map of connections, `connsLock` its lock, `sscLock` the lock of
each entry, `isOpen` whether an entry's `conn` is not nil. `Create`, `Remove` and
`CleanUp` are one action where they need not wait under the map's lock and two
where they must. `AcceptFails` is the error path of `Accept`, which calls `Close` on a nil connection in a
goroutine without `recover`: the process ends (`"down"`) and everything with it.
A connection may come from an address that is already in the
map (a port used again); `Create` then returns the old entry, as the code does,
and the goroutine reads from that. Peers are external: they connect, send a
command or an empty line, close, or stay silent. `ReloadStart`, `ReloadRemove`
and `ReloadAdd` are `UpdateClients` as far as the connections can tell: the
clients, whom `IsAllowedHost` asks for, go one by one, which may end half-way
with a panic that the web server recovers from, and those of the new
configuration come.

### Hub

`stream` is the hub `PushStats` and `PushLog` use, `served` the one whose server
has the port, `starting` the `Start` goroutines that still sleep; a `Reload` makes
a new hub and the old one keeps running with its clients. Per hub: `clients`,
the messages `taken`, and the clients the loop of a broadcast has still to serve
(`pending`), since pumps run while it loops. Per subscription: its channel
(`send`, `closed`), and its `WritePump` split where the hub can come between:
`PumpTake`, `PumpCount` (`n := len(c.Send)`), `PumpDrain`, `PumpFlush`. `PumpFail` is
any failing write, possible only while the browser stalls or is gone (`Stall`).
A message is its number among those its hub has taken; `since` remembers how many
there were when a client registered.

### Logins

One attempt is one call of `authHandler` or `publicKeyHandler`, with its host,
user, password and key as constants. `Begin` to `CheckKey`/`SaveKey` are the
lookups in the code's order, one step each, since each takes and releases a lock;
`Decide` is the call of `addLoginSuccess` or `addLoginFailure` with its early
return for whitelisted hosts. `Collect` adds user, password and host (`Stored`:
an empty password is kept as `(empty)`, blanks around an item go, what is then
empty is not kept). `GetHas`, `GetCreate`, `GetReturn` are the critical sections of
`Logins.Get`; `CountLogin`, `CountOutcome`, `AddToLogin` those of `AddFailure` and
`AddSuccess`, with the `Login`'s lock (`Locked`) held from the first to the last. A
`Login` object is named by the attempt that made it. `stale` and `raced` are history:
attempts that had nothing new when they were called, and hosts whose first
logins met inside `Get`.

### NodeStats

Extends `Logins`. `ReadField` fills the snapshot of `stats()` in the order of the
code's fields. `LockLogins` takes the lock of the map (`counting`), `ReadLogin` reads
the `Login`s one by one, in any order, each once its holder lets go, and `ReadDone` gives
the lock back; until then `GetHas`, `GetCreate` and `GetReturn` wait. This is the only place
where a lock is waited for with another one held, by `stats` for a `Login` whose holder
waits for the metrics. `UpdateStatsWorker` and `BroadcastStatsWorker` are what the two
workers do with a snapshot (they only read what they share, so one process plays both).
`stats[h]` is what `AddStats` stored, `Nil` for JSON that does not decode; `died` says
that `GetStats` dereferenced it. `SumOf` counts the units of the addends, a form
the proofs can reason about without recursion; `MCNodeStats` has TLC compare it with
the library's `SumFunction`. Peers are their login counter (`at`), with
`peak` as its history, and their reports on the way (`mail`), which may be lost
or overtake each other because each has a connection of its own.

### FakeFS and FakeShell

`FakeFS` has the operations of `FakeFS` on the merged directory as functions of a
tree (path -> `Dir` or contents). A path is the sequence of its names. The layers are
the kernel's: reads see the upper layer over the lower one, which is what a tree is;
`IsTree` is what the kernel keeps (every node is in a directory).

`FakeShell` has one shell per session. `sh` holds the goroutine's position, the
working directory, the inputs and lines to come, the history, and the receiver's `target`, `dirs`, open `file` and `data`.
`ReadLine`, `LinesDone`, `Exec`, `Close` are `HandleInput`, `Process` and `Exec`;
`RuleOrder` is the order in which `Exec` tries its rules. Built-in commands are an
action each, split where they call the file system more than once. The SCP
receiver takes one message (`ScpFile`, `ScpDir`, `ScpLeave`, `ScpOther`) at a
time; a file goes through `ScpMkdir`, `ScpOpen`, `ScpData`, `ScpWrite`, then
`ScpCheck`, `ScpCapture`, `ScpSave` for the copy in `captures/scp-uploads`, and
`ScpDone`. The other end is external: an SCP sender that sends the next part once
the last was acknowledged, hangs up at the end, or is cut off anywhere
(`Cut`), with any part of what was under way lost.

The errors of `MkdirAll` and `WriteFile` for the copy are ignored in the code. In the
plans of `DiskFails`, `ScpCapture` may stop after any of the parents and `ScpSave` after any part
of the contents, and the file is acknowledged all the same; `failed` remembers the
names this has happened to. It happens with a full disk, and wherever the server is not
root: `MkdirAll` makes directories with mode 0644, which only root enters.

Where an uploaded name starts (`Base`) follows from how the code joins the receiver's
directories: from the target's root or, for a relative target, from the working
directory; from the root when an `E` has left even the target; and from the working
directory when a `D` follows that (`from`), because the joined name has no slash in
front any more.

What a session is made of is typed (`Lines`, `Args`, `Header`, `FileData`), and `IsPlan`
says which sessions the module is about: a command that came along, with an upload, or
typed inputs without one. A file's header is followed by its contents, of the announced
length. At most one line of a session is a receiving `scp`, with a target that
`insideMerged` accepts and that is given from the root or, `~` included, relative to the
working directory, as `cmdScp` takes it; the sender speaks to one receiver. For
`NamedAsSent` the module has the sender's own view: `Walk` folds the headers up to a part
(`Turn`) into the directories he is in, `Name` is the name he means, `Offers` are the
files of which the header has been sent, `Sent` what may have been seen of one.

### MC modules

`MCSessions`, `MCLoot`, `MCClusterSync`, `MCSyncConns`, `MCHub`, `MCNodeStats` and
`MCFakeShell` declare model values and give values to function-valued
constants; the `.cfg` files do the rest.

## 3. Runs

Passing:

| Run | Instance | Shows |
| --- | --- | --- |
| `sessions_registry` | 1 connection, 1 channel, limits 0 and 1, 3 calls, fairness | `TypeOK`, `OrphanIsLeaving`, `ServiceSurvives`, `GaugeInv`, `DeadSessionsGo`, `RemoveReturns` |
| `loot_safe` | 2 goroutines, failing and partial writes, two plans: a host, a whitelisted host that an old `hosts.txt` lists, 2 new whitelists, 1 crash; 1 payload, damaged donations, 2 crashes | `TypeOK`, `WhitelistedNeverKept`, `ListedPayloadsRecorded`, `DiskWithinKnown`, `GaugeCovers` |
| `cluster_rounds` | 3 nodes in a line, 2 sections, 1 item in both, 1 failure, one end whitelists the item, fairness | `TypeOK`, `NothingInvented`, `WhitelistHolds`, `ImplementsGossip` |
| `conns_live` | 2 connections from one address, 1 reload, a failing `Accept`, fairness of server and peers | `TypeOK`, `EntryHasOwner`, `InUseStaysOpen`, `AcceptorReturns`, `ConnectionsEnd` |
| `hub_stream` | 2 subscriptions, 1 caller, 3 messages, buffers of 1, 2 hubs, fairness | `TypeOK`, `ServedIsOpen`, `NothingMissed`, `DrainNeverWaits`, `BroadcastReturns`, `DroppedIsClosed` |
| `stats_logins` | three plans: 2 password logins of one host; 2 uses of one key and a whitelisted host; 1 login, and a peer with 1 restart; `stats` next to all of them; fairness | `TypeOK`, `NothingNewStaysOut`, `CountersExact`, `LostOnlyInRace`, `SnapshotBehind`, `TotalBehind`, `HandlersReturn`, `TotalsCatchUp` |
| `shell_uploads` | ten pairs of sessions (below), the disk of the captures failing under three of them, either client cut off anywhere, fairness | `TypeOK`, `NamedAsSent`, `CapturedWhole`, `UploadCaptured`, `HistoryAsRun`, `SessionsEnd` |

Violations: each checks one sentence of the documentation, a comment or a help
text against the code, and TLC's counterexample is the finding listed in
`PROJECT.json`.

| Run | Says | What happens |
| --- | --- | --- |
| `sessions_crash` | "a bug triggered in a SSH session doesn't crash the whole service" | `max_session_age` below 600: `expire` dereferences a nil `SSHSession` outside any `recover` |
| `sessions_shell` | a bot that requests a shell interacts with the Fake Shell | two channels of a connection end up with shells on one channel |
| `loot_race` | all IPs are collected in `hosts.txt` | an older snapshot overwrites a newer one |
| `cluster_words` | data is shared with all nodes | items with a blank never arrive |
| `conns_silent` | the server shares data between nodes | one silent peer blocks the accept loop for ever |

Met while modelling, and visible in the modules, but without a run of their own.

Registry. `cleanUp` gives the lock back between `expire` and `Remove` and removes by
ID: if meanwhile the session was removed and the address has connected again, the
fresh session, which has neither expired nor been exited, is the one that goes.

Loot, sync and web interface. Two goroutines that pass the check of `AddHost` together count one host twice
(`GaugeCovers` is therefore an inequality); a crash between truncation and write
empties a data file, and two that write one file at once can leave the end of the longer
snapshot, cut anywhere, behind the shorter one; a host that is whitelisted while the
process runs stays in the loot, in `hosts.txt` and in what other nodes are sent until
the next start; a crash or a full disk while a payload is recorded leaves an empty or cut
recording that is listed ever after, as `pl.Save` writes only what does not exist; `sessionHandler` calls `SaveData` before it adds its payload,
so that `payloads.txt` lists it only after the next save; `AddHost` asks for the whitelist and
inserts later, so that a host is added that was put on the list in between, although a comment there
(`ossh_loot.go:121`) says "we never add whitelisted hosts"; a denied port forward
removes the session of the whole connection, so that an open shell is no longer
counted by `ossh_active_sessions` and a re-created session has no user name; the
README says that whitelisted IPs may talk to the sync server, `IsAllowedHost`
asks the clients only; `UpdateClients` closes the connection of every client
without asking whether it has one, so that a reload before the first sync round
stops there. `Reload` of the web interface does not wait for the `Start` of an
earlier one, which sleeps ten seconds: after two saves in that time (in `Hub`
with `MaxHubs` = 3: `Reload`, `Reload`, `Start`, `Start`) the first new server has the
port, while `uis.Stats`, `uis.Console` and `uis.server` are the second's, so that
dashboards subscribe to hubs nobody broadcasts on, and a further reload shuts
down the server that does not listen. A client whose `WritePump` has ended stays in
its hub until its buffer is full, for ever if a reload has replaced the hub.
`LogID` of a sync connection reads `ssc.conn` twice without a lock; with a port that is
used again while `Remove` closes the old entry, the accept loop can find nil there. An
error of `Accept` ends the process.

Logins and statistics. Two first logins of one host that meet inside `Get` both
make a `Login`, and what the first one counted is lost (`LostOnlyInRace` and
`SnapshotBehind` say that nothing else loses any). A password that is empty or has
blanks around it is looked up in one form and stored in another, so it stays new.
Two attempts with one new key may both be let in; when writing its file fails, for ever.
`README.md:151` has oSSH "roll dice" over a key, which is then rejected whenever the second is
divisible by 3; in `publicKeyHandler` there are no dice: every key that it has is refused, every other
one is let in, and so in `CheckKey`. `NothingNewStaysOut` is about passwords only.
Reports are kept by host, so two peers behind one address overwrite each
other, and those of a peer that left the configuration are summed up for ever. A
report that does not decode is stored as nil, which kills the process in
`GetStats` (with `Foreign` not empty TLC reaches `died` and stops there); all nodes that
run this code send what decodes.

Shells and uploads. A second upload of a name is acknowledged and thrown away, where
`README.md:140` says that all files uploaded will be collected (`UploadCaptured` says which one is
kept). Built-in commands run before a template of their name is looked for, where
`README.md:223` has the reverse order; and they return before `RecordExec`, so that what
was typed does not show in the recording, which `README.md:302` calls one of input and
output. Two shells that capture one name at once can leave one
upload over the other. An upload that was cut off, or for which the disk was full, is
captured as it is, acknowledged in the second case, and keeps a later complete one of
that name out. Started by anyone but root, a server creates the first directory of a
capture and nothing below it. An `E` that leaves the target moves the uploads to the
root, and a `D` after that to the working directory. If a file is where the capture
needs a directory, or the reverse, nothing is captured, and the sender is told all is well. A file that is uploaded over a
longer one keeps the tail of the old. The directory of a `D` message is created
from the root even when the target is relative. All sessions share one file system,
where the comment in `fake_file_system.go` has sandboxes per source. `cat` or `touch`
with flags only, `ls` of a path outside the root, `ls` where the working directory has
become a file, and an `E` too many panic, which costs the session its payload
(`Careless` in `SessionsEnd`).

### Bounds

`MaxCalls` bounds connects, logins and port forwards per address: 2 allow a
reconnect from the same address while goroutines of the old connection still
run, which is what the registry's races need, and 3 a port forward after a
login. Connections from different addresses share only the lock and the gauge;
one connection is enough for TLC, since the safety properties are proved for any
number. There are as many session objects as goroutines plus map entries can
refer to, so allocation never fails. `OrphanAfter` and `MaxAge` are 0 and 1 clock
ticks in place of 600 and 3600 seconds: only their order and being on either side
of them matter. `MaxFailures` = 1 lets a failure meet every step of the cluster; a second one starts
from a state the first can also leave behind. In `loot_safe` one plan is about hosts: a crash
meets every step, and two changes take a host off the whitelist and put it back, or the
reverse. The other is about payloads and has two crashes, the second of which meets the
recording that the first has left. Writes fail in both as often as they like. The sections
are not mixed, as all of them are saved alike and each file on its own; `loot_race` has
an item of each.
`MaxCollected` = 2 makes two nodes collect while a round is under way.
`MaxReloads` = 1 lets a reload meet every step of the connections. `BufSize` = 1
in place of 256 and `MaxPushes` = 3 give one message that is taken, one that waits
and one that finds the buffer full; `MaxHubs` = 2 is one reload.

In `NodeStats` the attempts come in plans so that each question gets the actors it
needs: two first logins that meet in `Get` and then share a `Login`, which `stats` waits for with
the map's lock held, next to an item (`w1`) that a peer may bring at any time; a key that is offered twice
with a blank user name and an empty password, next to a whitelisted host; and a login while a peer reports.
There `MaxLogins` = 1 is a counter before and after, and `MaxInFlight` = 2 lets an old and a new
report overtake each other; one restart makes the old one the larger. In `shell_uploads` the plans are: two uploads of one name, one
of them twice; a tree uploaded into the working directory while the other shell
creates and removes files in its place; an upload that makes a file where the
other has a directory; typed inputs of several lines with `exit` among them next
to commands that panic; more directories left than entered, next to a working
directory that becomes a file; the target left and another directory entered; flags without a file and `exit` in a passed command.
Contents of one or two bytes tell whole, cut off and mixed files apart; one file is
empty, which the receiver acknowledges before the sender has sent anything but its
header. In three more plans (`DiskPlans`) the disk fails at every call it can: for one
name twice in a row, for one name from both shells, and for a name below a directory that the other
shell uploads as a file. All other state is bounded by the code.

### Fairness

Goroutines keep running: weak fairness for steps that, once enabled, stay
enabled, strong fairness for steps that compete for a mutex (a Go mutex hands
itself over to a waiter that has starved). In `Sessions` the SSH library's
`MaxTimeout` and `IdleTimeout` end every handshake and connection, hence fairness
of `Handshake` and `Disconnect`; clients are not assumed to connect, log in or
open anything. In `ClusterSync` exchanges fail finitely often and the workers
wake up for ever. In `SyncConns` the peers' fairness is separate
(`PeerFairness`): `conns_live` assumes it, `conns_silent` does not and fails,
since nothing in the code sets a read deadline. In `Hub` the select of `Hub.Run`
chooses at random among the channels that are ready (strong fairness for
`HubRegister` and `HubBroadcast`); a write ends after `writeWait` at the latest (weak
fairness for `PumpStep`). Nobody is assumed to log, to reload or to subscribe, and
browsers may stall for ever. In `NodeStats` the attempts that can go on do, and need
strong fairness for it, as `stats` takes the map's lock again and again (a Go mutex hands
itself over to a waiter that has starved); both workers share one process in the model, so
that a turn of `broadcastStatsWorker` needs strong fairness too (in the code each has a
goroutine of its own); peers report for ever, and of infinitely many reports some arrive. Nobody is
assumed to log in. In `FakeShell` shells run, and a client goes on, hangs up or is cut
off; the code's `IdleTimeout` and `MaxTimeout` (`ossh_server.go:485-486`) see to that.
`ImplementsGossip` uses the fairness of `ClusterSync`.

Deadlock is checked in all runs but those of `Hub`, `SyncConns` and `FakeShell`: in
`Hub` nothing has to happen any more once the messages are used up and the dashboards are
gone, in `SyncConns` once a failing `Accept` has ended the process, in `FakeShell` once
both sessions have ended. `BroadcastReturns`, `AcceptorReturns`, `ConnectionsEnd` and
`SessionsEnd` are what rules out that they stop earlier.

## 4. Proofs

Each proof module states an inductive invariant (`IInv`, or a name of its own), shows that `Init` implies it
and that each action preserves it (one lemma per action or group of actions), and
draws the theorems from it. Assumptions are the constants' types and disjointness
(the `...Assumption`s, which TLC evaluates in every run) and whatever hypothesis is
named below. None bounds the number of goroutines, sessions, nodes, messages or items;
sets are finite only where something counts them.

### SessionsProofs

For any finite non-empty set of connections, any channels, objects, limits and calls:

* `TypeCorrect`: `Spec => []TypeOK`. `TypeOK` is inductive as it stands because
  it carries the coupling of control and data: a goroutine inside a callback
  has a pointer, an unwinding `Remove` has a frame, return addresses are places
  where neither is needed, and the lock is held exactly at `"sweep"`. `EnterType`,
  `LeaveType`, `RemoveType` and `GotoType` are the parts the actions share.
* `Survival`: if `OrphanAfter <= MaxAge` then `Spec => []ServiceSurvives`. Only
  `CleanUpExpire` sets `crashed`; a session without a channel that is older than
  `MaxAge` is older than `OrphanAfter` and takes the orphan branch. `sessions_crash`
  shows that the assumption is needed.
* `GaugeCorrect`: `Spec => []GaugeInv`. The invariant is strengthened by the
  finiteness of the pending frames (`GaugeIInv`); each step of `Create` or
  `Remove` moves exactly one element into or out of `Live` and `Pending`, and
  `RegistryFrame` disposes of all other actions.
* `OrphansLeave`: `Spec => []OrphanIsLeaving`. By itself this is not inductive: a
  step that marks one object could mark an entry of another address, if two
  addresses led to one object. `Unshared` (the map is injective) excludes
  that; it holds because `Create` takes an object that nothing refers to.
  `OrphanIInv` is both.

### LootProofs

For any items, goroutines and plans, that is, initial files and whitelists, crashes and reloads:
`TypeCorrect`, `WhitelistKeptOut` (`WhitelistedNeverKept`), `ListedRecorded`
(`ListedPayloadsRecorded`), `FilesKnown` (`DiskWithinKnown`) and `GaugesCover`
(`GaugeCovers`).

What is on disk is only as good as what was about to be written, so the invariant
has to say it of the snapshots in hand: `SnapCurrent` (a goroutine about to write has
a part of what is known, and of payloads only such as have a recording; nobody else
has any), `KnownClean` (no section holds a host that was always whitelisted, and who is not
on the list now has been off it), `ListedExist` and `OpenBusy` (a listed payload has a
recording of some kind, and every open one has somebody who fills it), `SectionTypes` (each
section keeps to its own items), `Control` (a host about to be inserted has been off the
whitelist; who records a payload has one in hand) and `SyncingBusy` (who
holds `sc.lock` is at work). That snapshots survive the other goroutines' steps rests on
the sets only growing while the process lives, and that what a write leaves behind stays
known on `Overwritten` and `OverwrittenPartly` inventing nothing but cut lines; `Restart`
empties the snapshots together with the sets. `GaugeInv` adds the finiteness of the
increments under way.

### ClusterSyncProofs

For any nodes, neighbourhoods, whitelists and loot:

* `TypeCorrect`, and `WhitelistKept` (`WhitelistHolds`) for words of any kind.
  `FirstSection` (the next section of an answer is one of its sections) needs a
  least element of a set of places; it comes from the library's well-founded orders.
* `NothingIsInvented`: if every item is one word (`OneWord`), `Spec => []NothingInvented`.
  The hypothesis is what `cluster_words` violates, hence necessary.
* `RefinesGossip`: if every item is one word, `Spec => G!Init /\ [][G!Next]_loot`: the
  safety part of `ImplementsGossip`. `Collect` is a `Bring`, `Push` a `Learn` or
  nothing, everything else leaves loot alone. `Push` is a `Learn` only if what is
  pushed is still known to its sender and in the right section, and if the receiver is
  one of its neighbours; `PushInv` says so (`Owned`, `Reached`) of every worker at every
  moment, although other workers write to its node meanwhile.

### SyncConnsProofs

For any connections, any addresses (in whatever way they coincide) and reloads:
`TypeCorrect`, which contains mutual exclusion on `sscs.lock`; `EntriesOwned`
(`EntryHasOwner`) and `NotClosedInUse` (`InUseStaysOpen`). Added to these are
`ControlTypes` (who can be where) and `Coupled` (a connection has started once its
peer has, and the one the acceptor works on has no goroutine yet). Without the latter
the acceptor could put a connection into the map whose own `Remove` is over.

### HubProofs

For any subscriptions, callers, capacity of `Send`, hubs and messages: `TypeCorrect`,
`NeverTouchesClosed` (`ServedIsOpen`), `StreamComplete` (`NothingMissed`) and
`DrainCounted` (`DrainNeverWaits`). The invariant adds `Fresh` (a subscription is empty,
open and in no map before it is registered; a pump that waits has nothing in
hand), `Serving` (the loop of a broadcast goes through clients of its hub), `Behind` (a
client registered no later than the last message it should have had) and
`Counted` (what a hub has taken and what callers still wait with is no more than
was pushed; needed for the types, as messages are numbers). `MoveHead`,
`MoveBatch`, `QueueLast` and `MessagesNext` are the four ways in which the stream
`written \o batch \o send` changes or stays the same.

### NodeStatsProofs

For any attempts, hosts, items and peers, of `NodeStats` and the `Logins` below it:

* `TypeCorrect`.
* `NothingNewKeptOut` (`NothingNewStaysOut`). `StaleOf` says that what was known when the
  handler was called is known still, and that an attempt with nothing new is at none
  of the places that only a failed lookup leads to: loot and keys only grow.
* `CountersCountOnce` (`CountersExact`). The attempt in the critical section is
  the only one that moves from `Counted` to `Settled`, so each set and its counter
  change together (`Exact`).
* `LostInRaceOnly` (`LostOnlyInRace`). `RaceOf` says, host by host, that
  unless first logins met in `Get` at most one attempt is about to make a `Login`, only
  while there is none, and that whoever is past `Get` holds the one in the map.
* `SnapshotsBehind` (`SnapshotBehind`). `Within` and `Covered` say for each field
  already read, and for the `Login`s read for the next (`View`), how it compares with the counts of now, `SumsBehind` that the sums
  over the map never exceed the attempts that are done, race or not. The sums are
  cardinalities (`SumOf`), so that the comparisons are injections.
* `NothingTakenBack`: `Spec => [][Grows]_vars`, an action property. What was counted stays
  counted, and the sums over the map shrink only once first logins have met in `Get`.
  `Within` and `Covered` are preserved by the handlers' steps for this reason.
* `TotalsBehind` (`TotalBehind`). `PeersHonest`: what is stored or on its way for a host
  was, at some time, the counter of a peer at that host. The hosts' reports then map
  into the peers' peaks, unit by unit.

### FakeFSProofs and FakeShellProofs

`FakeFSProofs` has the lemmas about trees and paths, for any names, bytes and trees:
`MkdirAllTree`, `RemoveFileTree`, `CreatedTree`, `WrittenTree`, `MountedTree` say of each
operation that a tree stays a tree, which files it leaves, and when it fails;
`OverwrittenBytes` is what a write at offset 0 leaves of each byte; `FlattenAppend` and
`FlattenCons` take joined sequences apart.

`FakeShellProofs`, for any number of shells, any sessions that `IsPlan` admits and any
`defaultfs`:

* `TypeCorrect` (`TypeOK`), both trees and the open file included.
* `NamesAgree` (`NamedAsSent`), `CapturesAreWhole` (`CapturedWhole`), `UploadsAreCaptured`
  (`UploadCaptured`), `HistoryIsScript` (`HistoryAsRun`), all of them for any plans in which the disk fails.
* `AcknowledgedKept`: `Spec => [][Kept]_vars`, an action property. No step removes a
  capture of what was offered, and none changes it once it has been acknowledged, unless
  another shell is offered its name or the disk has failed under it.

They share one invariant, `IndInv`, because the two ends of an upload depend on all of it:

* `Scripted`: history, lines and inputs to come make up the script, so that the one
  receiving `scp` line is run once and acknowledgements begin with it.
* `Paced`: the client's side (never more than it has to send, never more than two
  acknowledgements ahead).
* `InStep`: what is on the wire for every place the receiver can be in, and that its
  directories are those of the sender's walk (`Dirs`) after as many headers as have
  been acknowledged. Three parts: between files (`BetweenFiles`), from a file's header
  to its contents (`Expecting`), from there to the second acknowledgement (`Holding`).
  A zero byte may still be under way in the first and is read over; after an empty file the
  client may not even have sent it.
* `Grown`: trees are trees, an open file has its name, `rm` has tested its argument.
* `Recording`: nothing is run after `exit`; who closes is through, was told to or was cut
  off; the counter is the number of counted lines of all histories, which are finite.
* `Owned`: whoever made a capture has been offered its name and has come as far as to make
  it. Without it a shell could find a copy there of which nobody knows.
* `Capturing`: from the test for a copy to the acknowledgement; alone with a name, a shell
  that is about to write holds its own empty file and the first offer.

`StepKinds` sorts the steps of a shell by where it is, and one lemma per kind
(`ReadStep`, `ClosingStep`, `RunningStep`, `FilingStep`, `ReceivingStep`, `SavingStep`,
`DataStep`, `SendingStep`) says what such a step does to the parts of the state, so that
each conjunct of the invariant is preserved by facts about kinds of steps. `TreeStep`
and `CapturesStep` are the same for the two trees, `OffersStep` for the offers: their
names stay and what is seen of them only grows.

The provers have no induction over sequences. The facts about `FlattenSeq` and `Walk`
that the proofs need are of one step each (what an element more adds); that such folds
exist at all is shown with a least counterexample, from the library's well-founded
orders (`LeastNatural`, `JoinExists`, `WalkExists`).

Work on the proofs changed what the module says. An earlier
`UploadCaptured` held also where a sender had his second upload of a name acknowledged
and the capture was anyone's; it now says which upload it is. `Len(data) <= left` in `TypeOK`
is claimed only where a file is in hand, as `left` is overwritten by the next header.
`CapturedWhole` once listed the ways in which two contents can lie over each other,
which is not all there is for three shells; it now goes by positions. And the plans had no
empty file, the one case in which an acknowledgement overtakes what it is for.

### Only model-checked

* Every liveness property (`DeadSessionsGo`, `RemoveReturns`, `AcceptorReturns`,
  `ConnectionsEnd`, `BroadcastReturns`, `DroppedIsClosed`, `HandlersReturn`,
  `TotalsCatchUp`, `SessionsEnd`, and the fairness in `ImplementsGossip`): out of the
  prover's reach.
* The five violations, which are counterexamples.

## 5. Not modelled

Log lines, colours and templates; what single commands print; the delays that
waste a bot's time; mounting and the layers of the overlay file system;
configuration files, recordings' format, the HTTP endpoints, deployment. Data races
on single fields of `Session` (setters take its lock, some readers do not) are
treated as atomic reads. SCP is modelled for a command that came along with the
connection, which is how clients use it; typed into a terminal, `scp -t` competes
with the terminal's own read-ahead for the bytes. A target that `insideMerged` refuses and
names with `..` in them, which `filepath.Clean` may take out of `captures/scp-uploads`, are
left out (`IsPlan`, `Names`), and so are failures of the disk below the shells' own overlay.
The whitelist changes at run time in `Loot`; in `Logins` and `ClusterSync` it is a constant.
Recordings that are damaged are told apart in `Loot` only.

## 6. Plan

Order of work; all of it is done but what is named at the end.

1. `Sessions`: registry and callbacks. 2. Its proofs, `OrphansLeave` included.
3. `Loot`: sets, files, crashes. 4. `ClusterSync`. 5. `SyncConns`. 6. `Hub`.
7. `Logins`, with the decisions of both handlers. 8. `NodeStats`.
9. `FakeFS` and `FakeShell`. 10. `Gossip` and the refinement.
11. Proofs of the other components, as listed in section 4. 12. Proofs of `FakeFS`
and `FakeShell`: every invariant that a passing run checks is now also a theorem,
under the hypotheses named there.

Left: liveness, which needs other provers than the installed ones; the hazards
without a property, which are weaknesses of the code rather than properties that hold
(their notes in `PROJECT.json` say so); `Configuration reload` beyond what `SyncConns` and
`Hub` have of it.
