-------------------------------- MODULE Loot --------------------------------
(***************************************************************************)
(* What a node has collected: the in-memory sets of ossh_loot.go and       *)
(* ossh_payloads.go, the gauges that count them, the whitelist, and the    *)
(* files on disk: the data files that loadData and SaveData of             *)
(* ossh_server.go read and write, and the recordings that pl.Save writes.  *)
(*                                                                         *)
(* os.WriteFile is three steps, as the system calls are: the file is       *)
(* created or emptied, then the data goes to the front of whatever the     *)
(* file holds by then, and it may arrive in part.                          *)
(*                                                                         *)
(* Goroutines run one of four jobs: a login collects a user, a password    *)
(* and a host; the end of a session saves the data, then records its       *)
(* payload; the sync commands ADD-HOST, ADD-USER and ADD-PASSWORD add what *)
(* another node sends; ADD-PAYLOAD stores a payload it sends.  Sync        *)
(* commands run one at a time under the lock of SyncCommands.              *)
(***************************************************************************)
EXTENDS Integers, Sequences, FiniteSets

CONSTANTS Hosts, Users, Passwords, Payloads,  \* what can be collected
          Procs,                              \* goroutines
          Idle,                               \* no goroutine, no payload
          Blank,                              \* what TrimSpace leaves empty
          Cut,                                \* a piece of a line of a file
          DiskFails,                          \* WriteFile may fail
          Plans                               \* what a behaviour starts with

SaveOrder == <<"hosts", "users", "passwords", "payloads">>
Sections  == {"hosts", "users", "passwords", "payloads"}
Items     == Hosts \cup Users \cup Passwords \cup Payloads

\* Items of different sections never meet, so an item tells its section.
Universe  == [hosts |-> Hosts, users |-> Users, passwords |-> Passwords,
              payloads |-> Payloads]
SectionOf(i) == CHOOSE s \in Sections : i \in Universe[s]

ASSUME ItemsAssumption ==
    /\ IsFiniteSet(Items)
    /\ \A s, t \in Sections : s # t => Universe[s] \cap Universe[t] = {}

ASSUME ProcsAssumption ==
    Idle \notin Procs /\ {Idle, Blank, Cut} \cap Items = {}

\* A plan: the items that come, the data files found at the start, of which
\* payloads.txt lists only what has a recording, the whitelist of the config
\* file, and the bounds on crashes and on changes of the whitelist.
IsPlan(p) ==
    /\ p.items \subseteq Items
    /\ p.files \in [Sections -> SUBSET Items]
    /\ \A s \in Sections : p.files[s] \subseteq Universe[s]
    /\ p.whitelist \subseteq Hosts
    /\ p.crashes \in Nat /\ p.reloads \in Nat

ASSUME PlansAssumption == DiskFails \in BOOLEAN /\ \A p \in Plans : IsPlan(p)

VARIABLES
    plan,     \* what this behaviour started with, and its bounds
    known,    \* section -> the items in the maps of Loot and Payloads
    gauge,    \* section -> the gauges knownHosts ... knownPayloads
    files,    \* section -> the lines of hosts.txt ... payloads.txt
    casts,    \* payload -> its recording in captures/payloads
    whitelist, \* hosts that isIPWhitelisted finds in Conf.IPWhitelist
    listable, \* history: hosts it has not found there since the start
    skipped,  \* history: lines of hosts.txt that the last start left out
    written,  \* history: section -> what SaveData has ever written out
    pc, job,  \* where each goroutine is, and in which job
    queue,    \* the items it has still to add
    added,    \* it has added something
    payload,  \* the payload its job is about
    content,  \* the recording it has in hand for that payload
    at,       \* the section SaveData is at, past the last when it is done
    snap,     \* what Get... returned for that section
    syncing,  \* the goroutine in SyncCommands.Run, which holds sc.lock
    crashes, reloads

\* What only a new whitelist or a restart changes, and jobs, and the disk.
hosts == <<plan, whitelist, listable, skipped, reloads>>
jobs  == <<job, payload, content>>
disk  == <<files, casts, written>>
vars  == <<known, gauge, disk, hosts, jobs, pc, queue, added, at, snap, syncing,
           crashes>>

-----------------------------------------------------------------------------
(* Starting a job                                                          *)

Coming(s) == plan.items \cap Universe[s]

Start(p, j, q, pl, c, l) ==
    /\ pc[p] = "idle"
    /\ pc' = [pc EXCEPT ![p] = l]
    /\ job' = [job EXCEPT ![p] = j]
    /\ queue' = [queue EXCEPT ![p] = q]
    /\ added' = [added EXCEPT ![p] = FALSE]
    /\ payload' = [payload EXCEPT ![p] = pl]
    /\ content' = [content EXCEPT ![p] = c]
    /\ UNCHANGED <<known, gauge, disk, hosts, at, snap, crashes>>

\* addLoginFailure and addLoginSuccess of a host that is not whitelisted: a
\* whitelisted one leaves them before anything is collected.
Login(p) ==
    /\ \E u \in Coming("users") \cup {Blank},
          w \in Coming("passwords") \cup {Blank},
          h \in Coming("hosts") \ whitelist :
          Start(p, "login", <<u, w, h>>, Idle, "none", "add")
    /\ UNCHANGED syncing

\* The end of sessionHandler: SaveData comes before AddPayload and pl.Save.
SessionEnd(p) ==
    /\ \E pl \in Coming("payloads") : Start(p, "session", <<>>, pl, "whole", "save")
    /\ UNCHANGED syncing

\* ADD-HOST, ADD-USER and ADD-PASSWORD with any arguments, known or not.
SyncAdd(p) ==
    /\ syncing = Idle
    /\ syncing' = p
    /\ \E s \in Sections \ {"payloads"} : \E a, b \in Coming(s) :
          Start(p, "sync", <<a, b>>, Idle, "none", "add")

\* ADD-PAYLOAD: a recording, which may have been damaged where it comes from,
\* is saved first; one that cannot be decoded is not.
SyncAddPayload(p) ==
    /\ syncing = Idle
    /\ syncing' = p
    /\ \E pl \in Coming("payloads") :
          \/ \E c \in {"damaged", "whole"} :
                Start(p, "donation", <<>>, pl, c, "cast")
          \/ Start(p, "donation", <<>>, pl, "none", "kept")

-----------------------------------------------------------------------------
(* AddHost, AddUser, AddPassword, AddPayload                               *)

\* Mutant of AddCheck: AddHost does not look at the whitelist.
AddCheckNoWhitelist(p) ==
    /\ pc[p] = "add"
    /\ queue[p] # <<>>
    /\ LET i == Head(queue[p])
       IN IF i = Blank \/ i \in known[SectionOf(i)]
          THEN queue' = [queue EXCEPT ![p] = Tail(@)] /\ UNCHANGED pc
          ELSE pc' = [pc EXCEPT ![p] = "insert"] /\ UNCHANGED queue
    /\ UNCHANGED <<known, gauge, disk, hosts, jobs, added, at, snap, syncing,
                   crashes>>

\* The whitelist as it is now, then the first critical section: Has.  Blanks
\* are never added.
AddCheck(p) ==
    /\ pc[p] = "add"
    /\ queue[p] # <<>>
    /\ LET i == Head(queue[p])
       IN IF i = Blank \/ i \in whitelist \/ i \in known[SectionOf(i)]
          THEN queue' = [queue EXCEPT ![p] = Tail(@)] /\ UNCHANGED pc
          ELSE pc' = [pc EXCEPT ![p] = "insert"] /\ UNCHANGED queue
    /\ UNCHANGED <<known, gauge, disk, hosts, jobs, added, at, snap, syncing,
                   crashes>>

\* The item at the head of the queue has been dealt with.
NextItem(p) ==
    /\ queue' = [queue EXCEPT ![p] = Tail(@)]
    /\ added' = [added EXCEPT ![p] = TRUE]
    /\ pc' = [pc EXCEPT ![p] = "add"]

\* Mutant of AddInsert: the call of IncrementKnown... is missing.
AddInsertUncounted(p) ==
    /\ pc[p] = "insert"
    /\ LET i == Head(queue[p])
       IN known' = [known EXCEPT ![SectionOf(i)] = @ \cup {i}]
    /\ NextItem(p)
    /\ UNCHANGED <<gauge, disk, hosts, jobs, at, snap, syncing, crashes>>

\* Second critical section: insert, and count whatever the map held by then.
\* A payload is counted only after the lock of Payloads has been released.
AddInsert(p) ==
    /\ pc[p] = "insert"
    /\ LET i == Head(queue[p])
           s == SectionOf(i)
       IN /\ known' = [known EXCEPT ![s] = @ \cup {i}]
          /\ \/ /\ s = "payloads"
                /\ pc' = [pc EXCEPT ![p] = "count"]
                /\ UNCHANGED <<gauge, queue, added>>
             \/ /\ s # "payloads"
                /\ gauge' = [gauge EXCEPT ![s] = @ + 1]
                /\ NextItem(p)
    /\ UNCHANGED <<disk, hosts, jobs, at, snap, syncing, crashes>>

AddCount(p) ==
    /\ pc[p] = "count"
    /\ gauge' = [gauge EXCEPT !["payloads"] = @ + 1]
    /\ NextItem(p)
    /\ UNCHANGED <<known, disk, hosts, jobs, at, snap, syncing, crashes>>

\* Mutant of Finish: an ADD-... command returns without its deferred Unlock.
FinishKeepsLock(p) ==
    /\ pc' = [pc EXCEPT ![p] = "idle"]
    /\ job' = [job EXCEPT ![p] = "none"]
    /\ added' = [added EXCEPT ![p] = FALSE]
    /\ payload' = [payload EXCEPT ![p] = Idle]
    /\ content' = [content EXCEPT ![p] = "none"]
    /\ UNCHANGED syncing

\* A job ends; a sync command gives its lock back.
Finish(p) ==
    /\ pc' = [pc EXCEPT ![p] = "idle"]
    /\ job' = [job EXCEPT ![p] = "none"]
    /\ added' = [added EXCEPT ![p] = FALSE]
    /\ payload' = [payload EXCEPT ![p] = Idle]
    /\ content' = [content EXCEPT ![p] = "none"]
    /\ syncing' = IF syncing = p THEN Idle ELSE syncing

Go(p, l) ==
    /\ pc' = [pc EXCEPT ![p] = l]
    /\ UNCHANGED <<jobs, added, syncing>>

MustSave(p) == job[p] = "donation" \/ (job[p] = "sync" /\ added[p])

\* Nothing left to add: a session goes on to pl.Save, ADD-... saves the data
\* if it added something, ADD-PAYLOAD in any case.
AddDone(p) ==
    /\ pc[p] = "add"
    /\ queue[p] = <<>>
    /\ \/ job[p] = "session" /\ Go(p, "cast")
       \/ MustSave(p) /\ Go(p, "save")
       \/ job[p] # "session" /\ ~MustSave(p) /\ Finish(p)
    /\ UNCHANGED <<known, gauge, disk, hosts, queue, at, snap, crashes>>

-----------------------------------------------------------------------------
(* pl.Save: the recording of a payload                                     *)

\* pl.Save returns: the session is over, ADD-PAYLOAD looks what there is.
CastReturn(p) == IF job[p] = "session" THEN Finish(p) ELSE Go(p, "kept")

\* What exists is not written again, whole or not.
CastCheck(p) ==
    /\ pc[p] = "cast"
    /\ IF casts[payload[p]] # "none" THEN CastReturn(p) ELSE Go(p, "create")
    /\ UNCHANGED <<known, gauge, disk, hosts, queue, at, snap, crashes>>

\* os.WriteFile creates the file, or empties it if it is there by now.
CastCreate(p) ==
    /\ pc[p] = "create"
    /\ \/ /\ casts' = [casts EXCEPT ![payload[p]] = "open"]
          /\ Go(p, "fill")
       \/ DiskFails /\ CastReturn(p) /\ UNCHANGED casts
    /\ UNCHANGED <<known, gauge, files, written, hosts, queue, at, snap, crashes>>

\* A piece of a recording over a whole one of the same payload leaves it
\* whole: it is the same text, put where it is already.
Recorded(old, c) == IF "whole" \in {old, c} THEN "whole" ELSE "damaged"

\* The data arrives, or a part of it and the error is ignored.
CastFill(p) ==
    /\ pc[p] = "fill"
    /\ \E c \in {content[p]} \cup (IF DiskFails THEN {"damaged"} ELSE {}) :
          casts' = [casts EXCEPT ![payload[p]] = Recorded(@, c)]
    /\ CastReturn(p)
    /\ UNCHANGED <<known, gauge, files, written, hosts, queue, at, snap, crashes>>

\* ADD-PAYLOAD adds the payload only if its recording exists by now.
CastKept(p) ==
    /\ pc[p] = "kept"
    /\ \/ /\ casts[payload[p]] # "none"
          /\ queue' = [queue EXCEPT ![p] = <<payload[p]>>]
          /\ Go(p, "add")
       \/ casts[payload[p]] = "none" /\ Finish(p) /\ UNCHANGED queue
    /\ UNCHANGED <<known, gauge, disk, hosts, at, snap, crashes>>

-----------------------------------------------------------------------------
(* SaveData: for each section, Get..., then os.WriteFile                   *)

Recordings == {pl \in Payloads : casts[pl] # "none"}

\* Mutant of Listed: GetPayloads does not look for the recordings.
ListedAll(s) == known[s]

\* GetPayloads leaves out the payloads whose recording does not exist.
Listed(s) == IF s = "payloads" THEN known[s] \cap Recordings ELSE known[s]

\* The snapshot is taken under the lock of Loot, the write is not.
SaveSnapshot(p) ==
    /\ pc[p] = "save"
    /\ at[p] <= Len(SaveOrder)
    /\ snap' = [snap EXCEPT ![p] = Listed(SaveOrder[at[p]])]
    /\ pc' = [pc EXCEPT ![p] = "open"]
    /\ UNCHANGED <<known, gauge, disk, hosts, jobs, queue, added, at, syncing,
                   crashes>>

\* saveDataFile returns, having logged what went wrong if anything did.
SaveNext(p) ==
    /\ at' = [at EXCEPT ![p] = @ + 1]
    /\ snap' = [snap EXCEPT ![p] = {}]
    /\ pc' = [pc EXCEPT ![p] = "save"]

\* os.WriteFile empties the file when it opens it, or cannot open it.
SaveTruncate(p) ==
    /\ pc[p] = "open"
    /\ \/ /\ files' = [files EXCEPT ![SaveOrder[at[p]]] = {}]
          /\ pc' = [pc EXCEPT ![p] = "write"]
          /\ UNCHANGED <<at, snap>>
       \/ DiskFails /\ SaveNext(p) /\ UNCHANGED files
    /\ UNCHANGED <<known, gauge, casts, written, hosts, jobs, queue, added,
                   syncing, crashes>>

\* What can be left of a file when new is written over old: behind the new
\* lines the end of the old ones, the first of them possibly cut.
Overwritten(old, new) ==
    {new \cup rest : rest \in IF old = {} THEN {{}} ELSE SUBSET (old \cup {Cut})}

\* ... and when only a part of new arrives.
OverwrittenPartly(old, new) ==
    IF old \cup new = {} THEN {{}} ELSE SUBSET (old \cup new \cup {Cut})

\* The data arrives in the file as the other writers have left it by now.
SaveWrite(p) ==
    /\ pc[p] = "write"
    /\ LET s == SaveOrder[at[p]]
       IN \/ /\ \E ls \in Overwritten(files[s], snap[p]) :
                    files' = [files EXCEPT ![s] = ls]
             /\ written' = [written EXCEPT ![s] = @ \cup snap[p]]
          \/ /\ DiskFails
             /\ \E ls \in OverwrittenPartly(files[s], snap[p]) :
                    files' = [files EXCEPT ![s] = ls]
             /\ UNCHANGED written
    /\ SaveNext(p)
    /\ UNCHANGED <<known, gauge, casts, hosts, jobs, queue, added, syncing,
                   crashes>>

\* SaveData returns: sessionHandler goes on to AddPayload, the others end.
SaveDone(p) ==
    /\ pc[p] = "save"
    /\ at[p] > Len(SaveOrder)
    /\ at' = [at EXCEPT ![p] = 1]
    /\ \/ /\ job[p] = "session"
          /\ queue' = [queue EXCEPT ![p] = <<payload[p]>>]
          /\ Go(p, "add")
       \/ /\ job[p] # "session"
          /\ Finish(p)
          /\ UNCHANGED queue
    /\ UNCHANGED <<known, gauge, disk, hosts, snap, crashes>>

-----------------------------------------------------------------------------
(* The whitelist; starting and restarting the process                      *)

\* A reload of the config rewrites Conf.IPWhitelist, and UpdateClients takes
\* the nodes off it and puts them on again, in place and without a lock: each
\* list that isIPWhitelisted can meet meanwhile is a step.  Nothing that has
\* been collected is looked at again.
SetWhitelist ==
    /\ reloads < plan.reloads
    /\ reloads' = reloads + 1
    /\ \E w \in SUBSET Coming("hosts") :
          whitelist' = w /\ listable' = listable \cup (Hosts \ w)
    /\ UNCHANGED <<plan, known, gauge, disk, skipped, jobs, pc, queue, added, at, snap,
                   syncing, crashes>>

\* Mutant of Loaded: loadData does not read hosts.txt.
LoadedNoHosts(fs, w) ==
    [s \in Sections |-> IF s = "hosts" THEN {} ELSE fs[s] \ w]

\* loadData: every line of every file goes through Add..., which skips hosts
\* that are whitelisted by now.
Loaded(fs, w) == [s \in Sections |-> fs[s] \ w]

\* ... and counts what it adds.
Counted(k) == [s \in Sections |-> Cardinality(k[s])]

\* NewOSSHServer loads the data with the whitelist of the config file; SrvSync
\* adds the nodes to it later.
Init ==
    /\ plan \in Plans
    /\ files = plan.files
    /\ casts = [pl \in Payloads |->
                   IF pl \in plan.files["payloads"] THEN "whole" ELSE "none"]
    /\ written = plan.files
    /\ crashes = 0
    /\ reloads = 0
    /\ known = Loaded(plan.files, plan.whitelist)
    /\ gauge = Counted(Loaded(plan.files, plan.whitelist))
    /\ whitelist = plan.whitelist
    /\ listable = Hosts \ plan.whitelist
    /\ skipped = plan.files["hosts"] \cap plan.whitelist
    /\ pc = [p \in Procs |-> "idle"]
    /\ job = [p \in Procs |-> "none"]
    /\ queue = [p \in Procs |-> <<>>]
    /\ added = [p \in Procs |-> FALSE]
    /\ payload = [p \in Procs |-> Idle]
    /\ content = [p \in Procs |-> "none"]
    /\ at = [p \in Procs |-> 1]
    /\ snap = [p \in Procs |-> {}]
    /\ syncing = Idle

\* What a dead process has left of a recording.
Left(c) == IF c = "open" THEN "damaged" ELSE c

\* The process dies at any point and is started again on what the disk holds,
\* with whatever whitelist the config file has by then.
Restart ==
    /\ crashes < plan.crashes
    /\ crashes' = crashes + 1
    /\ casts' = [pl \in Payloads |-> Left(casts[pl])]
    /\ whitelist' \in SUBSET Coming("hosts")
    /\ known' = Loaded(files, whitelist')
    /\ gauge' = Counted(Loaded(files, whitelist'))
    /\ listable' = Hosts \ whitelist'
    /\ skipped' = files["hosts"] \cap whitelist'
    /\ pc' = [p \in Procs |-> "idle"]
    /\ job' = [p \in Procs |-> "none"]
    /\ queue' = [p \in Procs |-> <<>>]
    /\ added' = [p \in Procs |-> FALSE]
    /\ payload' = [p \in Procs |-> Idle]
    /\ content' = [p \in Procs |-> "none"]
    /\ at' = [p \in Procs |-> 1]
    /\ snap' = [p \in Procs |-> {}]
    /\ syncing' = Idle
    /\ UNCHANGED <<plan, files, written, reloads>>

Step(p) ==
    \/ AddCheck(p)
    \/ AddInsert(p)
    \/ AddCount(p)
    \/ AddDone(p)
    \/ CastCheck(p)
    \/ CastCreate(p)
    \/ CastFill(p)
    \/ CastKept(p)
    \/ SaveSnapshot(p)
    \/ SaveTruncate(p)
    \/ SaveWrite(p)
    \/ SaveDone(p)

Next ==
    \/ \E p \in Procs : \/ Login(p)
                        \/ SessionEnd(p)
                        \/ SyncAdd(p)
                        \/ SyncAddPayload(p)
                        \/ Step(p)
    \/ SetWhitelist
    \/ Restart

Spec == Init /\ [][Next]_vars

-----------------------------------------------------------------------------
(* Properties                                                              *)

\* Types; a goroutine in SyncCommands.Run is at work.
TypeOK ==
    /\ plan \in Plans
    /\ \A s \in Sections : /\ known[s] \subseteq Universe[s] \cup {Cut}
                           /\ files[s] \subseteq Universe[s] \cup {Cut}
                           /\ written[s] \subseteq Universe[s] \cup {Cut}
                           /\ gauge[s] \in Nat
    /\ casts \in [Payloads -> {"none", "open", "damaged", "whole"}]
    /\ whitelist \subseteq Hosts /\ listable \subseteq Hosts
    /\ skipped \subseteq Hosts
    /\ pc \in [Procs -> {"idle", "add", "insert", "count", "cast", "create",
                         "fill", "kept", "save", "open", "write"}]
    /\ job \in [Procs -> {"none", "login", "session", "sync", "donation"}]
    /\ queue \in [Procs -> Seq(Items \cup {Blank})]
    /\ added \in [Procs -> BOOLEAN]
    /\ payload \in [Procs -> Payloads \cup {Idle}]
    /\ content \in [Procs -> {"none", "damaged", "whole"}]
    /\ at \in [Procs -> 1..(Len(SaveOrder) + 1)]
    /\ snap \in [Procs -> SUBSET (Items \cup {Cut})]
    /\ syncing \in Procs \cup {Idle}
    /\ syncing # Idle => job[syncing] \in {"sync", "donation"}
    /\ crashes \in 0..plan.crashes /\ reloads \in 0..plan.reloads

\* A host that has been on the whitelist ever since the process was started
\* is in no map and in nothing SaveData is about to write, although other
\* nodes send it, an old hosts.txt lists it and reloads change the list.
WhitelistedNeverKept ==
    /\ known["hosts"] \subseteq listable \cup {Cut}
    /\ \A p \in Procs : snap[p] \cap Hosts \subseteq listable

\* The recording of pl is being written.
Recording(pl) == \E p \in Procs : pc[p] = "fill" /\ payload[p] = pl

\* Every payload that payloads.txt lists has a recording: the whole one, what
\* a crash, a failed write or a damaged donation has left of it, or one that
\* is just being written, in whatever order sessions, donations and saves ran.
ListedPayloadsRecorded ==
    \A pl \in files["payloads"] \cap Payloads :
        \/ casts[pl] \in {"damaged", "whole"}
        \/ casts[pl] = "open" /\ Recording(pl)

\* The data files never hold a line the running process does not know, so
\* that a save by another goroutine can only lose what it has not seen: all
\* there is besides are the hosts that the start skipped and cut lines.
DiskWithinKnown ==
    \A s \in Sections : files[s] \subseteq known[s] \cup skipped \cup {Cut}

\* Payloads in the map that AddPayload has yet to count.
Uncounted(s) == {p \in Procs : s = "payloads" /\ pc[p] = "count"}

\* The gauges never miss an item: check and insert of the same item by two
\* goroutines count it at least once, and no restart forgets the old ones.
GaugeCovers ==
    \A s \in Sections :
        gauge[s] + Cardinality(Uncounted(s)) >= Cardinality(known[s])

Quiet == \A p \in Procs : pc[p] = "idle"

\* What a data file has held it still holds, once no goroutine is at work.
SavedStaysSaved ==
    Quiet => \A s \in Sections : written[s] \ skipped \subseteq files[s]
====
