----------------------------- MODULE LootProofs -----------------------------
(***************************************************************************)
(* Proofs about Loot for any items, files, goroutines, crashes and         *)
(* reloads: its types, that no host on the whitelist since the start is    *)
(* kept, that every listed payload has its recording or what is left of    *)
(* it, that the files hold nothing the process does not know but cut       *)
(* lines, and that the gauges miss nothing.                                *)
(***************************************************************************)
EXTENDS Loot, FiniteSetTheorems, SequenceTheorems, TLAPS

-----------------------------------------------------------------------------
(* Sections and items                                                      *)

\* Every item is in the universe of a section.
LEMMA UniverseItems ==
    /\ \A s \in Sections : Universe[s] \subseteq Items
    /\ \A i \in Items : \E s \in Sections : i \in Universe[s]
    /\ Universe["hosts"] = Hosts /\ Universe["payloads"] = Payloads
    /\ "hosts" \in Sections /\ "payloads" \in Sections
BY DEF Universe, Sections, Items

\* The items that come in this behaviour are items of their sections.
LEMMA ComingItems ==
    /\ \A s \in Sections : Coming(s) \subseteq Universe[s]
    /\ Coming("hosts") \subseteq Hosts /\ Coming("users") \subseteq Users
    /\ Coming("passwords") \subseteq Passwords
    /\ Coming("payloads") \subseteq Payloads
BY DEF Coming, Universe

\* SaveData goes through the four sections.
LEMMA SaveOrderType ==
    /\ Len(SaveOrder) = 4
    /\ \A k \in 1..4 : SaveOrder[k] \in Sections
BY DEF SaveOrder, Sections

\* An item is in the universe of its section.
LEMMA SectionOfItem ==
    ASSUME NEW i \in Items
    PROVE  SectionOf(i) \in Sections /\ i \in Universe[SectionOf(i)]
BY UniverseItems DEF SectionOf

\* Payloads are in the section of that name.
LEMMA SectionOfPayload ==
    ASSUME NEW i \in Items, SectionOf(i) # "payloads"
    PROVE  i \notin Payloads
BY SectionOfItem, UniverseItems, ItemsAssumption

\* A payload is not a host, and a cut line is neither.
LEMMA Apart ==
    /\ Cut \notin Items /\ Payloads \cap Hosts = {}
    /\ Universe["payloads"] = Payloads /\ Universe["hosts"] = Hosts
BY UniverseItems, ItemsAssumption, ProcsAssumption

\* What a section holds can be counted.
LEMMA UniverseFinite ==
    ASSUME NEW s \in Sections, NEW X \in SUBSET (Universe[s] \cup {Cut})
    PROVE  IsFiniteSet(X) /\ Cardinality(X) \in Nat
<1>1. X \subseteq Items \cup {Cut} BY UniverseItems
<1>2. IsFiniteSet(Items \cup {Cut}) BY ItemsAssumption, FS_AddElement
<1>. QED BY <1>1, <1>2, FS_Subset, FS_CardinalityType

-----------------------------------------------------------------------------
(* The inductive invariant                                                 *)

Labels == {"idle", "add", "insert", "count", "cast", "create", "fill", "kept",
           "save", "open", "write"}
Jobs   == {"none", "login", "session", "sync", "donation"}

\* The section-wise variables are functions.
SectionTypes ==
    /\ known \in [Sections -> SUBSET (Items \cup {Cut})]
    /\ gauge \in [Sections -> Nat]
    /\ files \in [Sections -> SUBSET (Items \cup {Cut})]
    /\ written \in [Sections -> SUBSET (Items \cup {Cut})]

\* Where a goroutine is and what it has in hand.
ControlOf(p) ==
    /\ pc[p] \in {"insert", "count"} => queue[p] # <<>>
    /\ pc[p] = "insert" => Head(queue[p]) \in (Items \ Hosts) \cup listable
    /\ pc[p] \in {"open", "write"} => at[p] <= Len(SaveOrder)
    /\ job[p] \in {"session", "donation"} => payload[p] \in Payloads
    /\ pc[p] \in {"cast", "create", "fill", "kept"} =>
           job[p] \in {"session", "donation"}

Control == \A p \in Procs : ControlOf(p)

\* The holder of sc.lock is at work.
SyncingBusy == syncing # Idle => pc[syncing] # "idle"

\* What SaveData is about to write is known, payloads have a recording, and
\* nobody else has anything in hand.
SnapOf(p) ==
    IF pc[p] \in {"open", "write"}
    THEN /\ snap[p] \subseteq known[SaveOrder[at[p]]]
         /\ SaveOrder[at[p]] = "payloads" => snap[p] \subseteq Recordings
    ELSE snap[p] = {}

SnapCurrent == \A p \in Procs : SnapOf(p)

\* No map holds a host that has always been whitelisted.
KnownClean ==
    /\ Hosts \ whitelist \subseteq listable
    /\ known["hosts"] \subseteq listable \cup {Cut}

\* A listed payload has a recording of some kind ...
ListedExist == files["payloads"] \cap Payloads \subseteq Recordings

\* ... and somebody is at work on every one that is open.
OpenBusy == \A pl \in Payloads : casts[pl] = "open" => Recording(pl)

DataInv == KnownClean /\ ListedExist /\ OpenBusy /\ DiskWithinKnown

\* The gauges cover what is known, and the ones to be counted can be.
GaugeInv ==
    \A s \in Sections :
        /\ IsFiniteSet(Uncounted(s))
        /\ gauge[s] + Cardinality(Uncounted(s)) >= Cardinality(known[s])

Inv == /\ TypeOK /\ SectionTypes /\ Control /\ SyncingBusy
       /\ SnapCurrent /\ DataInv

IInv == Inv /\ GaugeInv

\* What the properties follow from.
LEMMA InvWhitelisted == Inv => WhitelistedNeverKept
<1>. SUFFICES ASSUME Inv PROVE WhitelistedNeverKept OBVIOUS
<1>1. known["hosts"] \subseteq listable \cup {Cut} BY DEF Inv, DataInv, KnownClean
<1>2. ASSUME NEW p \in Procs PROVE snap[p] \cap Hosts \subseteq listable
  <2>1. CASE pc[p] \in {"open", "write"}
    <3>1. at[p] \in 1..4
      BY <2>1, SaveOrderType DEF Inv, Control, ControlOf, TypeOK
    <3>2. SaveOrder[at[p]] \in Sections BY <3>1, SaveOrderType
    <3>3. snap[p] \subseteq known[SaveOrder[at[p]]]
      BY <2>1 DEF Inv, SnapCurrent, SnapOf
    <3>4. CASE SaveOrder[at[p]] = "hosts" BY <1>1, <3>3, <3>4, Apart DEF Items
    <3>5. CASE SaveOrder[at[p]] # "hosts"
      <4>1. snap[p] \subseteq Universe[SaveOrder[at[p]]] \cup {Cut}
        BY <3>2, <3>3 DEF Inv, TypeOK
      <4>2. Universe[SaveOrder[at[p]]] \cap Hosts = {}
        BY <3>2, <3>5, UniverseItems, ItemsAssumption
      <4>. QED BY <4>1, <4>2, Apart DEF Items
    <3>. QED BY <3>4, <3>5
  <2>2. CASE pc[p] \notin {"open", "write"}
    BY <2>2 DEF Inv, SnapCurrent, SnapOf
  <2>. QED BY <2>1, <2>2
<1>. QED BY <1>1, <1>2 DEF WhitelistedNeverKept

LEMMA InvRecorded == Inv => ListedPayloadsRecorded
<1>. SUFFICES ASSUME Inv, NEW pl \in files["payloads"] \cap Payloads
              PROVE  \/ casts[pl] \in {"damaged", "whole"}
                     \/ casts[pl] = "open" /\ Recording(pl)
  BY DEF ListedPayloadsRecorded
<1>1. casts[pl] # "none" BY DEF Inv, DataInv, ListedExist, Recordings
<1>2. casts[pl] \in {"none", "open", "damaged", "whole"} BY DEF Inv, TypeOK
<1>. QED BY <1>1, <1>2 DEF Inv, DataInv, OpenBusy

\* The state after a start of the process, on files of these lines.
Started ==
    /\ SectionTypes /\ ListedExist
    /\ casts \in [Payloads -> {"none", "damaged", "whole"}]
    /\ plan \in Plans
    /\ crashes \in 0..plan.crashes /\ reloads \in 0..plan.reloads
    /\ \A s \in Sections : /\ files[s] \subseteq Universe[s] \cup {Cut}
                           /\ written[s] \subseteq Universe[s] \cup {Cut}
    /\ whitelist \subseteq Hosts /\ listable = Hosts \ whitelist
    /\ skipped = files["hosts"] \cap whitelist
    /\ known = Loaded(files, whitelist)
    /\ gauge = Counted(Loaded(files, whitelist))
    /\ pc = [p \in Procs |-> "idle"] /\ job = [p \in Procs |-> "none"]
    /\ queue = [p \in Procs |-> <<>>] /\ added = [p \in Procs |-> FALSE]
    /\ payload = [p \in Procs |-> Idle] /\ content = [p \in Procs |-> "none"]
    /\ at = [p \in Procs |-> 1] /\ snap = [p \in Procs |-> {}]
    /\ syncing = Idle

\* A process that has just started satisfies the invariant.
LEMMA StartedInv == Started => IInv
<1>. SUFFICES ASSUME Started PROVE IInv OBVIOUS
<1>. USE DEF Started
<1>1. \A s \in Sections : known[s] = files[s] \ whitelist BY DEF Loaded
<1>2. TypeOK
  <2>1. at \in [Procs -> 1..(Len(SaveOrder) + 1)] BY SaveOrderType
  <2>2. <<>> \in Seq(Items \cup {Blank}) OBVIOUS
  <2>3. added \in [Procs -> BOOLEAN] OBVIOUS
  <2>4. snap \in [Procs -> SUBSET (Items \cup {Cut})] OBVIOUS
  <2>5. \A s \in Sections : known[s] \subseteq Universe[s] \cup {Cut} BY <1>1
  <2>6. casts \in [Payloads -> {"none", "open", "damaged", "whole"}] OBVIOUS
  <2>7. whitelist \subseteq Hosts /\ listable \subseteq Hosts /\ skipped \subseteq Hosts
    OBVIOUS
  <2>. QED BY <2>1, <2>2, <2>3, <2>4, <2>5, <2>6, <2>7 DEF TypeOK, SectionTypes
<1>3. Control /\ SyncingBusy /\ SnapCurrent
  BY DEF Control, ControlOf, SyncingBusy, SnapCurrent, SnapOf
<1>4. DataInv
  <2>1. KnownClean
    <3>1. known["hosts"] \subseteq Hosts \cup {Cut}
      BY <1>2, UniverseItems DEF TypeOK
    <3>. QED BY <1>1, <3>1, UniverseItems DEF KnownClean
  <2>2. OpenBusy BY DEF OpenBusy
  <2>3. DiskWithinKnown
    <3>. SUFFICES ASSUME NEW s \in Sections
                  PROVE  files[s] \subseteq known[s] \cup skipped \cup {Cut}
      BY DEF DiskWithinKnown
    <3>1. CASE s = "hosts" BY <1>1, <3>1
    <3>2. CASE s # "hosts"
      <4>1. Universe[s] \cap Hosts = {}
        BY <3>2, UniverseItems, ItemsAssumption
      <4>2. files[s] \cap whitelist \subseteq {Cut} BY <4>1
      <4>. QED BY <1>1, <4>2
    <3>. QED BY <3>1, <3>2
  <2>. QED BY <2>1, <2>2, <2>3 DEF DataInv
<1>5. GaugeInv
  <2>. SUFFICES ASSUME NEW s \in Sections
                PROVE  /\ IsFiniteSet(Uncounted(s))
                       /\ gauge[s] + Cardinality(Uncounted(s))
                            >= Cardinality(known[s])
    BY DEF GaugeInv
  <2>1. Uncounted(s) = {} BY DEF Uncounted
  <2>2. gauge[s] = Cardinality(known[s]) BY <1>1 DEF Counted, Loaded
  <2>3. known[s] \in SUBSET (Universe[s] \cup {Cut}) BY <1>1
  <2>4. Cardinality(known[s]) \in Nat BY <2>3, UniverseFinite
  <2>. QED BY <2>1, <2>2, <2>4, FS_EmptySet
<1>. QED BY <1>2, <1>3, <1>4, <1>5 DEF IInv, Inv

\* Files of such lines can be loaded and counted.
LEMMA LoadedTypes ==
    ASSUME NEW fs \in [Sections -> SUBSET (Items \cup {Cut})], NEW w,
           \A s \in Sections : fs[s] \subseteq Universe[s] \cup {Cut}
    PROVE  /\ Loaded(fs, w) \in [Sections -> SUBSET (Items \cup {Cut})]
           /\ Counted(Loaded(fs, w)) \in [Sections -> Nat]
<1>1. ASSUME NEW s \in Sections PROVE Cardinality(Loaded(fs, w)[s]) \in Nat
  <2>1. Loaded(fs, w)[s] \in SUBSET (Universe[s] \cup {Cut}) BY DEF Loaded
  <2>. QED BY <2>1, UniverseFinite
<1>. QED BY <1>1 DEF Loaded, Counted

\* The process starts.
LEMMA InitInv == Init => IInv
<1>. SUFFICES ASSUME Init PROVE IInv OBVIOUS
<1>1. plan \in Plans /\ IsPlan(plan) BY PlansAssumption DEF Init
<1>2. /\ plan.files \in [Sections -> SUBSET (Items \cup {Cut})]
      /\ \A s \in Sections : plan.files[s] \subseteq Universe[s] \cup {Cut}
  BY <1>1 DEF IsPlan
<1>3. SectionTypes
  BY <1>2, LoadedTypes DEF Init, SectionTypes
<1>4. ListedExist /\ casts \in [Payloads -> {"none", "damaged", "whole"}]
  BY DEF Init, ListedExist, Recordings
<1>5. crashes \in 0..plan.crashes /\ reloads \in 0..plan.reloads
  BY <1>1 DEF Init, IsPlan
<1>6. whitelist \subseteq Hosts BY <1>1 DEF Init, IsPlan
<1>7. Started BY <1>1, <1>2, <1>3, <1>4, <1>5, <1>6 DEF Init, Started
<1>. QED BY <1>7, StartedInv

\* It is started again after a crash, wherever that was.
LEMMA RestartInv ==
    ASSUME IInv, Restart
    PROVE  IInv'
<1>1. /\ files \in [Sections -> SUBSET (Items \cup {Cut})]
      /\ \A s \in Sections : /\ files[s] \subseteq Universe[s] \cup {Cut}
                             /\ written[s] \subseteq Universe[s] \cup {Cut}
      /\ casts \in [Payloads -> {"none", "open", "damaged", "whole"}]
  BY DEF IInv, Inv, TypeOK, SectionTypes
<1>2. /\ files' = files /\ written' = written /\ reloads' = reloads
      /\ plan' = plan /\ plan \in Plans /\ IsPlan(plan)
  BY PlansAssumption DEF Restart, IInv, Inv, TypeOK
<1>3. SectionTypes'
  <2>1. /\ known' = Loaded(files, whitelist')
        /\ gauge' = Counted(Loaded(files, whitelist'))
    BY DEF Restart
  <2>2. known' \in [Sections -> SUBSET (Items \cup {Cut})] /\ gauge' \in [Sections -> Nat]
    BY <1>1, <2>1, LoadedTypes
  <2>. QED BY <1>2, <2>2 DEF SectionTypes, IInv, Inv
<1>4. /\ casts' \in [Payloads -> {"none", "damaged", "whole"}]
      /\ \A pl \in Payloads : casts[pl] # "none" => casts'[pl] # "none"
  BY <1>1 DEF Restart, Left
<1>5. ListedExist'
  BY <1>2, <1>4 DEF ListedExist, Recordings, IInv, Inv, DataInv
<1>6. /\ crashes' \in 0..plan'.crashes /\ reloads' \in 0..plan'.reloads
      /\ whitelist' \subseteq Hosts
  BY <1>2, ComingItems DEF Restart, IsPlan, IInv, Inv, TypeOK
<1>7. Loaded(files, whitelist)' = Loaded(files, whitelist')
      /\ Counted(Loaded(files, whitelist))' = Counted(Loaded(files, whitelist'))
  BY <1>2 DEF Loaded, Counted
<1>8. Started'
  BY <1>1, <1>2, <1>3, <1>4, <1>5, <1>6, <1>7 DEF Restart, Started
<1>. QED BY <1>8, StartedInv, PTL

\* Conf.IPWhitelist changes.
LEMMA SetWhitelistInv ==
    ASSUME IInv, SetWhitelist
    PROVE  IInv'
<1>1. /\ UNCHANGED <<plan, known, gauge, files, casts, written, skipped, job,
                     payload, content, pc, queue, added, at, snap, syncing, crashes>>
      /\ whitelist' \subseteq Hosts /\ listable' = listable \cup (Hosts \ whitelist')
      /\ reloads' \in 0..plan.reloads
  BY PlansAssumption, ComingItems
  DEF SetWhitelist, IsPlan, disk, jobs, IInv, Inv, TypeOK
<1>2. TypeOK' /\ SectionTypes' /\ SyncingBusy'
  BY <1>1 DEF IInv, Inv, TypeOK, SectionTypes, SyncingBusy
<1>3. Control'
  BY <1>1 DEF IInv, Inv, Control, ControlOf
<1>4. SnapCurrent'
  BY <1>1 DEF IInv, Inv, SnapCurrent, SnapOf, Recordings
<1>5. DataInv'
  BY <1>1
  DEF IInv, Inv, DataInv, KnownClean, ListedExist, OpenBusy, Recording,
      Recordings, DiskWithinKnown
<1>6. GaugeInv' BY <1>1 DEF IInv, GaugeInv, Uncounted
<1>. QED BY <1>2, <1>3, <1>4, <1>5, <1>6 DEF IInv, Inv

-----------------------------------------------------------------------------
(* A step of one goroutine                                                 *)

\* The others are where they were, and nothing known or recorded is lost.
Alone(p) ==
    /\ \A q \in Procs \ {p} :
          /\ pc'[q] = pc[q] /\ job'[q] = job[q] /\ queue'[q] = queue[q]
          /\ payload'[q] = payload[q] /\ at'[q] = at[q] /\ snap'[q] = snap[q]
    /\ \A s \in Sections : known[s] \subseteq known'[s]
    /\ Recordings \subseteq Recordings'
    /\ UNCHANGED <<plan, whitelist, listable, skipped, reloads>>

\* What the others have in hand stays good.
LEMMA OthersKeep ==
    ASSUME Inv, NEW p \in Procs, Alone(p), ControlOf(p)', SnapOf(p)'
    PROVE  Control' /\ SnapCurrent'
<1>1. ASSUME NEW q \in Procs, q # p PROVE ControlOf(q)' /\ SnapOf(q)'
  <2>1. ControlOf(q) /\ SnapOf(q) BY DEF Inv, Control, SnapCurrent
  <2>2. ControlOf(q)' BY <1>1, <2>1 DEF Alone, ControlOf
  <2>3. CASE pc[q] \in {"open", "write"}
    <3>1. at[q] \in 1..4 BY <2>1, <2>3, SaveOrderType DEF ControlOf, Inv, TypeOK
    <3>2. SaveOrder[at[q]] \in Sections BY <3>1, SaveOrderType
    <3>. QED BY <1>1, <2>1, <2>2, <2>3, <3>2 DEF Alone, SnapOf
  <2>4. CASE pc[q] \notin {"open", "write"}
    BY <1>1, <2>1, <2>2, <2>4 DEF Alone, SnapOf
  <2>. QED BY <2>2, <2>3, <2>4
<1>. QED BY <1>1 DEF Control, SnapCurrent

\* A step that changes no recording and no whitelist, by a goroutine that is
\* not recording.
LEMMA SameRecordings ==
    ASSUME Inv, NEW p \in Procs, Alone(p), UNCHANGED casts, pc[p] # "fill"
    PROVE  /\ OpenBusy' /\ Recordings' = Recordings
           /\ UNCHANGED <<plan, whitelist, listable, skipped, reloads>>
<1>1. UNCHANGED <<plan, whitelist, listable, skipped, reloads>> BY DEF Alone
<1>2. Recordings' = Recordings BY DEF Recordings
<1>3. ASSUME NEW pl \in Payloads, Recording(pl) PROVE Recording(pl)'
  <2>1. PICK q \in Procs : pc[q] = "fill" /\ payload[q] = pl BY <1>3 DEF Recording
  <2>2. pc'[q] = "fill" /\ payload'[q] = pl BY <2>1 DEF Alone
  <2>. QED BY <2>2 DEF Recording
<1>4. OpenBusy' BY <1>3 DEF Inv, DataInv, OpenBusy
<1>. QED BY <1>1, <1>2, <1>4

\* Nor does it change what is known or a data file.
LEMMA SameData ==
    ASSUME Inv, NEW p \in Procs, Alone(p), UNCHANGED <<known, files, casts>>,
           pc[p] # "fill"
    PROVE  DataInv'
<1>1. /\ OpenBusy' /\ Recordings' = Recordings
      /\ UNCHANGED <<plan, whitelist, listable, skipped, reloads>>
  BY SameRecordings
<1>. QED
  BY <1>1 DEF Inv, DataInv, KnownClean, ListedExist, DiskWithinKnown

\* A goroutine takes up a job.
LEMMA StartKeeps ==
    ASSUME Inv, NEW p \in Procs,
           NEW j \in {"login", "session", "sync", "donation"},
           NEW q \in Seq(Items \cup {Blank}), NEW pl \in Payloads \cup {Idle},
           NEW c \in {"none", "damaged", "whole"},
           NEW l \in {"add", "save", "cast", "kept"}, Start(p, j, q, pl, c, l),
           j \in {"session", "donation"} => pl \in Payloads,
           l \in {"cast", "kept"} => j = "donation",
           \/ syncing' = syncing
           \/ syncing' = p /\ j \in {"sync", "donation"}
    PROVE  Inv'
<1>. USE DEF Start, disk, hosts
<1>1. TypeOK' /\ SectionTypes' /\ SyncingBusy'
  <2>1. syncing # p
    BY ProcsAssumption DEF Inv, SyncingBusy
  <2>2. job' \in [Procs -> Jobs]
    BY DEF Inv, TypeOK, Jobs
  <2>3. pc' \in [Procs -> Labels]
    BY DEF Inv, TypeOK, Labels
  <2>4. queue' \in [Procs -> Seq(Items \cup {Blank})]
    BY DEF Inv, TypeOK
  <2>5. added' \in [Procs -> BOOLEAN] BY Zenon DEF Inv, TypeOK
  <2>6. payload' \in [Procs -> Payloads \cup {Idle}] BY DEF Inv, TypeOK
  <2>7. content' \in [Procs -> {"none", "damaged", "whole"}] BY DEF Inv, TypeOK
  <2>8. syncing' \in Procs \cup {Idle} BY DEF Inv, TypeOK
  <2>9. /\ syncing' # Idle => job'[syncing'] \in {"sync", "donation"}
        /\ SyncingBusy'
    BY <2>1, <2>2, <2>3 DEF Inv, TypeOK, SyncingBusy
  <2>. QED
    BY <2>2, <2>3, <2>4, <2>5, <2>6, <2>7, <2>8, <2>9
    DEF Inv, TypeOK, SectionTypes, Labels, Jobs
<1>2. ControlOf(p)' /\ SnapOf(p)' /\ Alone(p)
  BY DEF ControlOf, SnapOf, Alone, Inv, TypeOK, SnapCurrent, Recordings
<1>. QED BY <1>1, <1>2, OthersKeep, SameData DEF Inv

\* The four jobs begin.
LEMMA LoginInv ==
    ASSUME Inv, NEW p \in Procs, Login(p)
    PROVE  Inv'
<1>1. PICK u \in Users \cup {Blank}, w \in Passwords \cup {Blank},
           h \in Hosts \ whitelist :
           Start(p, "login", <<u, w, h>>, Idle, "none", "add")
  BY ComingItems DEF Login
<1>2. <<u, w, h>> \in Seq(Items \cup {Blank}) BY DEF Items
<1>3. UNCHANGED syncing BY DEF Login
<1>. QED BY <1>1, <1>2, <1>3, StartKeeps

LEMMA SessionEndInv ==
    ASSUME Inv, NEW p \in Procs, SessionEnd(p)
    PROVE  Inv'
<1>1. PICK pl \in Payloads : Start(p, "session", <<>>, pl, "whole", "save")
  BY ComingItems DEF SessionEnd
<1>2. <<>> \in Seq(Items \cup {Blank}) OBVIOUS
<1>3. UNCHANGED syncing BY DEF SessionEnd
<1>. QED BY <1>1, <1>2, <1>3, StartKeeps

LEMMA SyncAddInv ==
    ASSUME Inv, NEW p \in Procs, SyncAdd(p)
    PROVE  Inv'
<1>1. PICK a \in Items, b \in Items :
           Start(p, "sync", <<a, b>>, Idle, "none", "add")
  BY UniverseItems, ComingItems DEF SyncAdd
<1>2. <<a, b>> \in Seq(Items \cup {Blank}) OBVIOUS
<1>3. syncing' = p BY DEF SyncAdd
<1>. QED BY <1>1, <1>2, <1>3, StartKeeps

LEMMA SyncAddPayloadInv ==
    ASSUME Inv, NEW p \in Procs, SyncAddPayload(p)
    PROVE  Inv'
<1>1. PICK pl \in Payloads, c \in {"none", "damaged", "whole"},
           l \in {"cast", "kept"} : Start(p, "donation", <<>>, pl, c, l)
  BY ComingItems DEF SyncAddPayload
<1>2. <<>> \in Seq(Items \cup {Blank}) OBVIOUS
<1>3. syncing' = p BY DEF SyncAddPayload
<1>. QED BY <1>1, <1>2, <1>3, StartKeeps

\* The rest of a queue is a queue.
LEMMA TailOfQueue ==
    ASSUME Inv, NEW p \in Procs, queue[p] # <<>>
    PROVE  /\ Head(queue[p]) \in Items \cup {Blank}
           /\ Tail(queue[p]) \in Seq(Items \cup {Blank})
BY DEF Inv, TypeOK

\* The whitelist and the map are looked at; nothing is added yet.
LEMMA AddCheckInv ==
    ASSUME Inv, NEW p \in Procs, AddCheck(p)
    PROVE  Inv'
<1>. USE DEF AddCheck, disk, hosts, jobs
<1>1. pc' \in [Procs -> Labels]
  <2>1. pc' = pc \/ pc' = [pc EXCEPT ![p] = "insert"] OBVIOUS
  <2>2. pc \in [Procs -> Labels] BY DEF Inv, TypeOK, Labels
  <2>. QED BY ONLY <2>1, <2>2 DEF Labels
<1>2. queue' \in [Procs -> Seq(Items \cup {Blank})]
  BY TailOfQueue DEF Inv, TypeOK
<1>3. TypeOK' /\ SectionTypes' /\ SyncingBusy'
  <2>1. \A q \in Procs : pc[q] # "idle" => pc'[q] # "idle"
    BY DEF Inv, TypeOK
  <2>. QED
    BY <1>1, <1>2, <2>1 DEF Inv, TypeOK, SectionTypes, SyncingBusy, Labels
<1>4. pc'[p] \in {"add", "insert"} BY DEF Inv, TypeOK
<1>5. ControlOf(p)'
  <2>1. pc'[p] = "insert" => /\ queue'[p] = queue[p]
                            /\ Head(queue[p]) \in (Items \ Hosts) \cup listable
    BY TailOfQueue, <1>4 DEF Inv, TypeOK, DataInv, KnownClean
  <2>. QED BY <1>4, <2>1 DEF ControlOf, Inv, Control
<1>6. SnapOf(p)' BY <1>4 DEF SnapOf, Inv, SnapCurrent
<1>7. Alone(p) BY DEF Alone, Inv, TypeOK, Recordings
<1>. QED BY <1>3, <1>5, <1>6, <1>7, OthersKeep, SameData DEF Inv

\* An item, if a host one that was not whitelisted once, enters its section.
LEMMA AddInsertInv ==
    ASSUME Inv, NEW p \in Procs, AddInsert(p)
    PROVE  Inv'
<1>. DEFINE i == Head(queue[p])
            s == SectionOf(i)
<1>1. queue[p] # <<>> /\ i \in (Items \ Hosts) \cup listable /\ i \in Items
  BY DEF AddInsert, Inv, Control, ControlOf, TypeOK, Items
<1>2. s \in Sections /\ i \in Universe[s] BY <1>1, SectionOfItem
<1>3. known' = [known EXCEPT ![s] = @ \cup {i}] BY DEF AddInsert
<1>4. \A t \in Sections : known'[t] = IF t = s THEN known[t] \cup {i} ELSE known[t]
  BY <1>3 DEF Inv, SectionTypes
<1>5. known' \in [Sections -> SUBSET (Items \cup {Cut})]
  BY <1>1, <1>2, <1>3 DEF Inv, SectionTypes
<1>6. gauge' \in [Sections -> Nat]
  BY <1>2 DEF AddInsert, Inv, SectionTypes
<1>7. pc' \in [Procs -> Labels]
  <2>1. pc' = [pc EXCEPT ![p] = "count"] \/ pc' = [pc EXCEPT ![p] = "add"]
    BY DEF AddInsert, NextItem
  <2>2. pc \in [Procs -> Labels] BY DEF Inv, TypeOK, Labels
  <2>. QED BY ONLY <2>1, <2>2 DEF Labels
<1>8. queue' \in [Procs -> Seq(Items \cup {Blank})]
  <2>1. queue' = queue \/ queue' = [queue EXCEPT ![p] = Tail(@)]
    BY DEF AddInsert, NextItem
  <2>2. Tail(queue[p]) \in Seq(Items \cup {Blank}) BY <1>1, TailOfQueue
  <2>. QED BY <2>1, <2>2 DEF Inv, TypeOK
<1>9. added' \in [Procs -> BOOLEAN]
  BY Zenon DEF AddInsert, NextItem, Inv, TypeOK
<1>10. /\ UNCHANGED <<files, casts, written, job, payload, content, at, snap,
                      syncing, crashes>>
       /\ UNCHANGED <<plan, whitelist, listable, skipped, reloads>> /\ pc[p] = "insert"
  BY DEF AddInsert, disk, hosts, jobs
<1>11. pc'[p] \in {"add", "count"} /\ (pc'[p] = "count" => queue'[p] = queue[p])
  BY DEF AddInsert, NextItem, Inv, TypeOK
<1>12. Alone(p)
  <2>1. \A q \in Procs \ {p} : pc'[q] = pc[q] /\ queue'[q] = queue[q]
    BY DEF AddInsert, NextItem, Inv, TypeOK
  <2>. QED BY <1>4, <1>10, <2>1 DEF Alone, Recordings
<1>. HIDE DEF i, s
<1>13. TypeOK'
  <2>1. \A t \in Sections : /\ known'[t] \subseteq Universe[t] \cup {Cut}
                            /\ gauge'[t] \in Nat
    BY <1>2, <1>4, <1>6 DEF Inv, TypeOK
  <2>. QED BY <1>7, <1>8, <1>9, <1>10, <2>1 DEF Inv, TypeOK, Labels
<1>14. SectionTypes' BY <1>5, <1>6, <1>10 DEF Inv, SectionTypes
<1>15. SyncingBusy'
  <2>1. \A q \in Procs : pc[q] # "idle" => pc'[q] # "idle"
    BY <1>11, <1>12 DEF Alone
  <2>. QED BY <1>10, <2>1 DEF Inv, SyncingBusy, TypeOK
<1>16. ControlOf(p)' /\ SnapOf(p)'
  <2>1. snap[p] = {} BY DEF AddInsert, Inv, SnapCurrent, SnapOf
  <2>. QED BY <1>1, <1>10, <1>11, <2>1 DEF ControlOf, SnapOf, Inv, Control
<1>17. DataInv'
  <2>1. OpenBusy' /\ Recordings' = Recordings
    BY <1>10, <1>12, SameRecordings
  <2>2. "hosts" = s => i \in Hosts BY <1>2, UniverseItems
  <2>3. KnownClean'
    BY <1>1, <1>4, <1>10, <2>2, UniverseItems DEF Inv, DataInv, KnownClean
  <2>4. ListedExist' BY <1>10, <2>1 DEF Inv, DataInv, ListedExist
  <2>5. DiskWithinKnown' BY <1>4, <1>10 DEF Inv, DataInv, DiskWithinKnown
  <2>. QED BY <2>1, <2>3, <2>4, <2>5 DEF DataInv
<1>. QED BY <1>12, <1>13, <1>14, <1>15, <1>16, <1>17, OthersKeep DEF Inv

\* A payload is counted.
LEMMA AddCountInv ==
    ASSUME Inv, NEW p \in Procs, AddCount(p)
    PROVE  Inv'
<1>. USE DEF AddCount, NextItem, disk, hosts, jobs
<1>1. queue[p] # <<>> BY DEF Inv, Control, ControlOf
<1>2. gauge' \in [Sections -> Nat]
  BY UniverseItems DEF Inv, SectionTypes
<1>3. queue' \in [Procs -> Seq(Items \cup {Blank})]
  BY <1>1, TailOfQueue DEF Inv, TypeOK
<1>4. added' \in [Procs -> BOOLEAN] BY Zenon DEF Inv, TypeOK
<1>5. pc' \in [Procs -> Labels]
  BY DEF Inv, TypeOK, Labels
<1>6. TypeOK' /\ SectionTypes' /\ SyncingBusy'
  <2>1. \A q \in Procs : pc[q] # "idle" => pc'[q] # "idle"
    BY DEF Inv, TypeOK
  <2>. QED
    BY <1>2, <1>3, <1>4, <1>5, <2>1
    DEF Inv, TypeOK, SectionTypes, SyncingBusy, Labels
<1>7. pc'[p] = "add" BY DEF Inv, TypeOK
<1>8. ControlOf(p)' BY <1>7 DEF ControlOf, Inv, Control
<1>9. SnapOf(p)' BY <1>7 DEF SnapOf, Inv, SnapCurrent
<1>10. Alone(p) BY DEF Alone, Inv, TypeOK, Recordings
<1>. QED BY <1>6, <1>8, <1>9, <1>10, OthersKeep, SameData DEF Inv

\* The goroutine moves on; the others stay where they are.
Moved(p) ==
    /\ pc' \in [Procs -> Labels] /\ job' \in [Procs -> Jobs]
    /\ added' \in [Procs -> BOOLEAN]
    /\ payload' \in [Procs -> Payloads \cup {Idle}]
    /\ content' \in [Procs -> {"none", "damaged", "whole"}]
    /\ syncing' \in Procs \cup {Idle}
    /\ syncing' # Idle => job'[syncing'] \in {"sync", "donation"}
    /\ SyncingBusy'
    /\ \A q \in Procs \ {p} :
          pc'[q] = pc[q] /\ job'[q] = job[q] /\ payload'[q] = payload[q]

\* A job that ends: its goroutine is idle and holds no lock.
LEMMA FinishKeeps ==
    ASSUME Inv, NEW p \in Procs, Finish(p)
    PROVE  Moved(p) /\ pc'[p] = "idle" /\ job'[p] = "none"
<1>1. added' \in [Procs -> BOOLEAN] BY Zenon DEF Finish, Inv, TypeOK
<1>. QED
  BY <1>1, ProcsAssumption
  DEF Finish, Moved, Inv, TypeOK, SyncingBusy, Labels, Jobs

\* One that goes on.
LEMMA GoKeeps ==
    ASSUME Inv, NEW p \in Procs, NEW l \in Labels \ {"idle"}, Go(p, l)
    PROVE  /\ Moved(p) /\ pc'[p] = l /\ job'[p] = job[p]
           /\ payload'[p] = payload[p]
BY DEF Go, Moved, jobs, Inv, TypeOK, SyncingBusy, Labels, Jobs

\* One that comes out of pl.Save.
LEMMA CastReturnKeeps ==
    ASSUME Inv, NEW p \in Procs, CastReturn(p),
           pc[p] \in {"cast", "create", "fill"}
    PROVE  /\ Moved(p)
           /\ \/ pc'[p] = "idle" /\ job'[p] = "none"
              \/ /\ pc'[p] = "kept" /\ job'[p] = job[p]
                 /\ payload'[p] = payload[p]
<1>1. CASE Finish(p) BY <1>1, FinishKeeps
<1>2. CASE Go(p, "kept") BY <1>2, GoKeeps DEF Labels
<1>. QED BY <1>1, <1>2 DEF CastReturn

\* A goroutine that has moved on, and at most a recording or its place in
\* SaveData has changed besides.
LEMMA MovedInv ==
    ASSUME Inv, NEW p \in Procs, Moved(p), ControlOf(p)', SnapOf(p)',
           queue' \in [Procs -> Seq(Items \cup {Blank})],
           at' \in [Procs -> 1..(Len(SaveOrder) + 1)],
           \A q \in Procs \ {p} : queue'[q] = queue[q] /\ at'[q] = at[q],
           UNCHANGED <<plan, known, gauge, files, written, whitelist, listable,
                       skipped, reloads, snap, crashes>>,
           casts' \in [Payloads -> {"none", "open", "damaged", "whole"}],
           Recordings \subseteq Recordings', OpenBusy'
    PROVE  Inv'
<1>1. TypeOK' BY DEF Inv, TypeOK, Moved, Labels, Jobs
<1>2. SectionTypes' /\ SyncingBusy' BY DEF Inv, SectionTypes, Moved
<1>3. Alone(p) BY DEF Alone, Moved
<1>4. DataInv'
  BY DEF Inv, DataInv, KnownClean, ListedExist, DiskWithinKnown
<1>. QED BY <1>1, <1>2, <1>3, <1>4, OthersKeep DEF Inv

\* A goroutine that is not recording moves on without touching a recording.
LEMMA MovedBusy ==
    ASSUME Inv, NEW p \in Procs, Moved(p), UNCHANGED casts, pc[p] # "fill"
    PROVE  /\ OpenBusy' /\ Recordings \subseteq Recordings'
           /\ casts' \in [Payloads -> {"none", "open", "damaged", "whole"}]
<1>1. ASSUME NEW pl \in Payloads, Recording(pl) PROVE Recording(pl)'
  <2>1. PICK q \in Procs : pc[q] = "fill" /\ payload[q] = pl BY <1>1 DEF Recording
  <2>2. pc'[q] = "fill" /\ payload'[q] = pl BY <2>1 DEF Moved
  <2>. QED BY <2>2 DEF Recording
<1>. QED BY <1>1 DEF Inv, DataInv, OpenBusy, TypeOK, Recordings

\* Nothing is left to add.
LEMMA AddDoneInv ==
    ASSUME Inv, NEW p \in Procs, AddDone(p)
    PROVE  Inv'
<1>1. /\ UNCHANGED <<known, gauge, files, casts, written, queue, at, snap, crashes>>
      /\ UNCHANGED <<plan, whitelist, listable, skipped, reloads>> /\ pc[p] = "add"
  BY DEF AddDone, disk, hosts
<1>2. snap[p] = {} BY <1>1 DEF Inv, SnapCurrent, SnapOf
<1>3. /\ Moved(p)
      /\ \/ pc'[p] = "idle" /\ job'[p] = "none"
         \/ /\ pc'[p] \in {"cast", "save"} /\ job'[p] = job[p]
            /\ payload'[p] = payload[p]
            /\ pc'[p] = "cast" => job[p] = "session"
  <2>1. CASE job[p] = "session" /\ Go(p, "cast") BY <2>1, GoKeeps DEF Labels
  <2>2. CASE Go(p, "save") BY <2>2, GoKeeps DEF Labels
  <2>3. CASE Finish(p) BY <2>3, FinishKeeps
  <2>. QED BY <2>1, <2>2, <2>3 DEF AddDone
<1>4. ControlOf(p)' /\ SnapOf(p)'
  BY <1>1, <1>2, <1>3 DEF ControlOf, SnapOf, Inv, Control
<1>5. /\ queue' \in [Procs -> Seq(Items \cup {Blank})]
      /\ at' \in [Procs -> 1..(Len(SaveOrder) + 1)]
  BY <1>1 DEF Inv, TypeOK
<1>. QED BY <1>1, <1>3, <1>4, <1>5, MovedBusy, MovedInv

\* pl.Save looks for the recording.
LEMMA CastCheckInv ==
    ASSUME Inv, NEW p \in Procs, CastCheck(p)
    PROVE  Inv'
<1>1. /\ UNCHANGED <<known, gauge, files, casts, written, queue, at, snap, crashes>>
      /\ UNCHANGED <<plan, whitelist, listable, skipped, reloads>> /\ pc[p] = "cast"
  BY DEF CastCheck, disk, hosts
<1>2. snap[p] = {} /\ job[p] \in {"session", "donation"} /\ payload[p] \in Payloads
  BY <1>1 DEF Inv, SnapCurrent, SnapOf, Control, ControlOf
<1>3. /\ Moved(p)
      /\ \/ pc'[p] = "idle" /\ job'[p] = "none"
         \/ /\ pc'[p] \in {"create", "kept"} /\ job'[p] = job[p]
            /\ payload'[p] = payload[p]
  <2>1. CASE CastReturn(p) BY <1>1, <2>1, CastReturnKeeps
  <2>2. CASE Go(p, "create") BY <2>2, GoKeeps DEF Labels
  <2>. QED BY <2>1, <2>2 DEF CastCheck
<1>4. ControlOf(p)' /\ SnapOf(p)'
  BY <1>1, <1>2, <1>3 DEF ControlOf, SnapOf
<1>5. /\ queue' \in [Procs -> Seq(Items \cup {Blank})]
      /\ at' \in [Procs -> 1..(Len(SaveOrder) + 1)]
  BY <1>1 DEF Inv, TypeOK
<1>. QED BY <1>1, <1>3, <1>4, <1>5, MovedBusy, MovedInv

\* os.WriteFile opens the recording, or cannot.
LEMMA CastCreateInv ==
    ASSUME Inv, NEW p \in Procs, CastCreate(p)
    PROVE  Inv'
<1>1. /\ UNCHANGED <<known, gauge, files, written, queue, at, snap, crashes>>
      /\ UNCHANGED <<plan, whitelist, listable, skipped, reloads>> /\ pc[p] = "create"
  BY DEF CastCreate, hosts
<1>2. snap[p] = {} /\ job[p] \in {"session", "donation"} /\ payload[p] \in Payloads
  BY <1>1 DEF Inv, SnapCurrent, SnapOf, Control, ControlOf
<1>3. /\ queue' \in [Procs -> Seq(Items \cup {Blank})]
      /\ at' \in [Procs -> 1..(Len(SaveOrder) + 1)]
  BY <1>1 DEF Inv, TypeOK
<1>4. CASE CastReturn(p) /\ UNCHANGED casts
  <2>1. /\ Moved(p)
        /\ \/ pc'[p] = "idle" /\ job'[p] = "none"
           \/ pc'[p] = "kept" /\ job'[p] = job[p] /\ payload'[p] = payload[p]
    BY <1>1, <1>4, CastReturnKeeps
  <2>2. ControlOf(p)' /\ SnapOf(p)'
    BY <1>1, <1>2, <2>1 DEF ControlOf, SnapOf
  <2>. QED BY <1>1, <1>3, <1>4, <2>1, <2>2, MovedBusy, MovedInv
<1>5. CASE casts' = [casts EXCEPT ![payload[p]] = "open"] /\ Go(p, "fill")
  <2>1. Moved(p) /\ pc'[p] = "fill" /\ job'[p] = job[p] /\ payload'[p] = payload[p]
    BY <1>5, GoKeeps DEF Labels
  <2>2. ControlOf(p)' /\ SnapOf(p)'
    BY <1>1, <1>2, <2>1 DEF ControlOf, SnapOf
  <2>3. /\ casts' \in [Payloads -> {"none", "open", "damaged", "whole"}]
        /\ Recordings \subseteq Recordings'
        /\ \A pl \in Payloads \ {payload[p]} : casts'[pl] = casts[pl]
    BY <1>2, <1>5 DEF Inv, TypeOK, Recordings
  <2>4. ASSUME NEW pl \in Payloads, casts'[pl] = "open" PROVE Recording(pl)'
    <3>1. CASE pl = payload[p] BY <2>1, <3>1 DEF Recording
    <3>2. CASE pl # payload[p]
      <4>1. Recording(pl) BY <2>3, <2>4, <3>2 DEF Inv, DataInv, OpenBusy
      <4>2. PICK q \in Procs : pc[q] = "fill" /\ payload[q] = pl
        BY <4>1 DEF Recording
      <4>3. pc'[q] = "fill" /\ payload'[q] = pl BY <1>1, <4>2, <2>1 DEF Moved
      <4>. QED BY <4>3 DEF Recording
    <3>. QED BY <3>1, <3>2
  <2>5. OpenBusy' BY <2>4 DEF OpenBusy
  <2>. QED BY <1>1, <1>3, <2>1, <2>2, <2>3, <2>5, MovedInv
<1>. QED BY <1>4, <1>5 DEF CastCreate

\* What has been written is whole or damaged.
LEMMA CastFillInv ==
    ASSUME Inv, NEW p \in Procs, CastFill(p)
    PROVE  Inv'
<1>1. /\ UNCHANGED <<known, gauge, files, written, queue, at, snap, crashes>>
      /\ UNCHANGED <<plan, whitelist, listable, skipped, reloads>> /\ pc[p] = "fill"
  BY DEF CastFill, hosts
<1>2. snap[p] = {} /\ payload[p] \in Payloads
  BY <1>1 DEF Inv, SnapCurrent, SnapOf, Control, ControlOf
<1>3. /\ Moved(p)
      /\ \/ pc'[p] = "idle" /\ job'[p] = "none"
         \/ pc'[p] = "kept" /\ job'[p] = job[p] /\ payload'[p] = payload[p]
  BY <1>1, CastReturnKeeps DEF CastFill
<1>4. job[p] \in {"session", "donation"} BY <1>1 DEF Inv, Control, ControlOf
<1>5. ControlOf(p)' /\ SnapOf(p)'
  BY <1>1, <1>2, <1>3, <1>4 DEF ControlOf, SnapOf
<1>6. PICK c : casts' = [casts EXCEPT ![payload[p]] = Recorded(@, c)]
  BY DEF CastFill
<1>7. /\ casts' \in [Payloads -> {"none", "open", "damaged", "whole"}]
      /\ \A pl \in Payloads \ {payload[p]} : casts'[pl] = casts[pl]
      /\ casts'[payload[p]] \in {"damaged", "whole"}
  BY <1>2, <1>6 DEF Inv, TypeOK, Recorded
<1>8. Recordings \subseteq Recordings' BY <1>7 DEF Recordings
<1>9. ASSUME NEW pl \in Payloads, casts'[pl] = "open" PROVE Recording(pl)'
  <2>1. pl # payload[p] BY <1>7, <1>9
  <2>2. Recording(pl) BY <1>7, <1>9, <2>1 DEF Inv, DataInv, OpenBusy
  <2>3. PICK q \in Procs : pc[q] = "fill" /\ payload[q] = pl BY <2>2 DEF Recording
  <2>4. pc'[q] = "fill" /\ payload'[q] = pl BY <2>1, <2>3, <1>3 DEF Moved
  <2>. QED BY <2>4 DEF Recording
<1>10. OpenBusy' BY <1>9 DEF OpenBusy
<1>11. /\ queue' \in [Procs -> Seq(Items \cup {Blank})]
       /\ at' \in [Procs -> 1..(Len(SaveOrder) + 1)]
  BY <1>1 DEF Inv, TypeOK
<1>. QED BY <1>1, <1>3, <1>5, <1>7, <1>8, <1>10, <1>11, MovedInv

\* ADD-PAYLOAD looks for the recording once more.
LEMMA CastKeptInv ==
    ASSUME Inv, NEW p \in Procs, CastKept(p)
    PROVE  Inv'
<1>1. /\ UNCHANGED <<known, gauge, files, casts, written, at, snap, crashes>>
      /\ UNCHANGED <<plan, whitelist, listable, skipped, reloads>> /\ pc[p] = "kept"
  BY DEF CastKept, disk, hosts
<1>2. snap[p] = {} /\ job[p] \in {"session", "donation"} /\ payload[p] \in Payloads
  BY <1>1 DEF Inv, SnapCurrent, SnapOf, Control, ControlOf
<1>3. /\ Moved(p)
      /\ \/ pc'[p] = "idle" /\ job'[p] = "none"
         \/ pc'[p] = "add" /\ job'[p] = job[p] /\ payload'[p] = payload[p]
      /\ queue' = queue \/ queue' = [queue EXCEPT ![p] = <<payload[p]>>]
  <2>1. CASE Finish(p) /\ UNCHANGED queue BY <2>1, FinishKeeps
  <2>2. CASE Go(p, "add") /\ queue' = [queue EXCEPT ![p] = <<payload[p]>>]
    BY <2>2, GoKeeps DEF Labels
  <2>. QED BY <2>1, <2>2 DEF CastKept
<1>4. ControlOf(p)' /\ SnapOf(p)'
  BY <1>1, <1>2, <1>3 DEF ControlOf, SnapOf
<1>5. /\ queue' \in [Procs -> Seq(Items \cup {Blank})]
      /\ \A q \in Procs \ {p} : queue'[q] = queue[q]
  <2>1. <<payload[p]>> \in Seq(Items \cup {Blank}) BY <1>2 DEF Items
  <2>. QED BY <1>3, <2>1 DEF Inv, TypeOK
<1>6. at' \in [Procs -> 1..(Len(SaveOrder) + 1)] BY <1>1 DEF Inv, TypeOK
<1>. QED BY <1>1, <1>3, <1>4, <1>5, <1>6, MovedBusy, MovedInv

\* The snapshot holds what is known and, of the payloads, what is recorded.
LEMMA SaveSnapshotInv ==
    ASSUME Inv, NEW p \in Procs, SaveSnapshot(p)
    PROVE  Inv'
<1>. DEFINE s == SaveOrder[at[p]]
<1>1. at[p] \in 1..4 /\ s \in Sections
  BY SaveOrderType DEF SaveSnapshot, Inv, TypeOK
<1>2. /\ UNCHANGED <<known, gauge, files, casts, written, job, queue, added,
                     payload, content, at, syncing, crashes>>
      /\ UNCHANGED <<plan, whitelist, listable, skipped, reloads>> /\ pc[p] = "save"
  BY DEF SaveSnapshot, disk, hosts, jobs
<1>3. /\ Listed(s) \subseteq known[s] /\ Listed(s) \in SUBSET (Items \cup {Cut})
      /\ s = "payloads" => Listed(s) \subseteq Recordings
  BY <1>1 DEF Listed, Inv, SectionTypes
<1>4. snap' = [snap EXCEPT ![p] = Listed(s)] /\ pc' = [pc EXCEPT ![p] = "open"]
  BY DEF SaveSnapshot
<1>5. pc' \in [Procs -> Labels] /\ snap' \in [Procs -> SUBSET (Items \cup {Cut})]
  BY <1>3, <1>4 DEF Inv, TypeOK, Labels
<1>6. TypeOK' /\ SectionTypes' /\ SyncingBusy'
  BY <1>2, <1>4, <1>5 DEF Inv, TypeOK, SectionTypes, SyncingBusy, Labels
<1>7. Recordings' = Recordings BY <1>2 DEF Recordings
<1>8. ControlOf(p)' /\ SnapOf(p)'
  <2>1. pc'[p] = "open" /\ snap'[p] = Listed(s) BY <1>4 DEF Inv, TypeOK
  <2>2. at'[p] <= Len(SaveOrder) BY <1>1, <1>2, SaveOrderType
  <2>. QED BY <1>2, <1>3, <1>7, <2>1, <2>2 DEF ControlOf, SnapOf, Inv, Control
<1>9. Alone(p) BY <1>2, <1>4, <1>7 DEF Alone, Inv, TypeOK
<1>. QED BY <1>2, <1>6, <1>8, <1>9, OthersKeep, SameData DEF Inv

\* A section whose file now holds lines of these, while what is to be saved
\* may have shrunk.
LEMMA FileInv ==
    ASSUME Inv, NEW p \in Procs, NEW s \in Sections,
           \A t \in Sections : t # s => files'[t] = files[t],
           files' \in [Sections -> SUBSET (Items \cup {Cut})],
           files'[s] \subseteq files[s] \cup known[s] \cup {Cut},
           s = "payloads" => files'[s] \subseteq files[s] \cup Recordings \cup {Cut},
           written' \in [Sections -> SUBSET (Items \cup {Cut})],
           \A t \in Sections : written'[t] \subseteq Universe[t] \cup {Cut},
           UNCHANGED <<known, gauge, casts, job, queue, added, payload, content,
                       syncing, crashes>>,
           UNCHANGED <<plan, whitelist, listable, skipped, reloads>>,
           pc' \in [Procs -> Labels], at' \in [Procs -> 1..(Len(SaveOrder) + 1)],
           snap' \in [Procs -> SUBSET (Items \cup {Cut})],
           \A q \in Procs \ {p} :
              pc'[q] = pc[q] /\ at'[q] = at[q] /\ snap'[q] = snap[q],
           pc[p] \in {"open", "write"}, pc'[p] \in {"write", "save"},
           ControlOf(p)', SnapOf(p)'
    PROVE  Inv'
<1>1. \A t \in Sections : files'[t] \subseteq Universe[t] \cup {Cut}
  BY DEF Inv, TypeOK
<1>2. SyncingBusy'
  <2>1. \A q \in Procs : pc[q] # "idle" => pc'[q] # "idle" OBVIOUS
  <2>. QED BY <2>1 DEF Inv, SyncingBusy, TypeOK
<1>3. TypeOK' /\ SectionTypes'
  BY <1>1 DEF Inv, TypeOK, SectionTypes, Labels
<1>4. Alone(p) BY DEF Alone, Recordings
<1>5. /\ OpenBusy' /\ Recordings' = Recordings
  BY <1>4, SameRecordings
<1>6. KnownClean' BY DEF Inv, DataInv, KnownClean
<1>7. ListedExist'
  <2>1. files'["payloads"] \cap Payloads \subseteq Recordings
    BY Apart, UniverseItems DEF Inv, DataInv, ListedExist, Items
  <2>. QED BY <1>5, <2>1 DEF ListedExist
<1>8. DiskWithinKnown' BY DEF Inv, DataInv, DiskWithinKnown
<1>. QED BY <1>2, <1>3, <1>4, <1>5, <1>6, <1>7, <1>8, OthersKeep DEF Inv, DataInv

\* saveDataFile returns.
LEMMA SaveNextKeeps ==
    ASSUME Inv, NEW p \in Procs, SaveNext(p), pc[p] \in {"open", "write"},
           UNCHANGED <<job, payload>>
    PROVE  /\ pc' \in [Procs -> Labels] /\ pc'[p] = "save"
           /\ at' \in [Procs -> 1..(Len(SaveOrder) + 1)]
           /\ snap' \in [Procs -> SUBSET (Items \cup {Cut})]
           /\ \A q \in Procs \ {p} :
                 pc'[q] = pc[q] /\ at'[q] = at[q] /\ snap'[q] = snap[q]
           /\ ControlOf(p)' /\ SnapOf(p)'
<1>1. at[p] \in 1..4
  BY SaveOrderType DEF Inv, TypeOK, Control, ControlOf
<1>2. pc' \in [Procs -> Labels] /\ pc'[p] = "save" /\ snap'[p] = {}
  BY DEF SaveNext, Inv, TypeOK, Labels
<1>3. /\ at' \in [Procs -> 1..(Len(SaveOrder) + 1)]
      /\ snap' \in [Procs -> SUBSET (Items \cup {Cut})]
  BY <1>1, SaveOrderType DEF SaveNext, Inv, TypeOK
<1>4. ControlOf(p)' /\ SnapOf(p)'
  BY <1>2 DEF ControlOf, SnapOf, Inv, Control
<1>. QED BY <1>2, <1>3, <1>4 DEF SaveNext, Inv, TypeOK

\* The file is emptied, or could not be opened.
LEMMA SaveTruncateInv ==
    ASSUME Inv, NEW p \in Procs, SaveTruncate(p)
    PROVE  Inv'
<1>. DEFINE s == SaveOrder[at[p]]
<1>1. at[p] \in 1..4 /\ s \in Sections
  BY SaveOrderType DEF SaveTruncate, Inv, TypeOK, Control, ControlOf
<1>2. /\ UNCHANGED <<known, gauge, casts, written, job, queue, added, payload,
                     content, syncing, crashes>>
      /\ UNCHANGED <<plan, whitelist, listable, skipped, reloads>> /\ pc[p] = "open"
  BY DEF SaveTruncate, hosts, jobs
<1>3. /\ written' \in [Sections -> SUBSET (Items \cup {Cut})]
      /\ \A t \in Sections : written'[t] \subseteq Universe[t] \cup {Cut}
  BY <1>2 DEF Inv, TypeOK, SectionTypes
<1>4. /\ files' \in [Sections -> SUBSET (Items \cup {Cut})]
      /\ \A t \in Sections : t # s => files'[t] = files[t]
      /\ files'[s] \subseteq files[s]
  BY <1>1 DEF SaveTruncate, Inv, SectionTypes
<1>5. CASE SaveNext(p)
  <2>. HIDE DEF s
  <2>. QED BY <1>1, <1>2, <1>3, <1>4, <1>5, SaveNextKeeps, FileInv
<1>6. CASE pc' = [pc EXCEPT ![p] = "write"] /\ UNCHANGED <<at, snap>>
  <2>1. /\ pc' \in [Procs -> Labels] /\ pc'[p] = "write"
        /\ at' \in [Procs -> 1..(Len(SaveOrder) + 1)]
        /\ snap' \in [Procs -> SUBSET (Items \cup {Cut})]
        /\ \A q \in Procs \ {p} :
              pc'[q] = pc[q] /\ at'[q] = at[q] /\ snap'[q] = snap[q]
    BY <1>6 DEF Inv, TypeOK, Labels
  <2>2. ControlOf(p)' /\ SnapOf(p)'
    BY <1>2, <1>6, <2>1
    DEF ControlOf, SnapOf, Inv, Control, SnapCurrent, Recordings
  <2>. HIDE DEF s
  <2>. QED BY <1>1, <1>2, <1>3, <1>4, <2>1, <2>2, FileInv
<1>. QED BY <1>5, <1>6 DEF SaveTruncate

\* The file holds new lines, old ones and a cut one.
LEMMA SaveWriteInv ==
    ASSUME Inv, NEW p \in Procs, SaveWrite(p)
    PROVE  Inv'
<1>. DEFINE s == SaveOrder[at[p]]
<1>1. at[p] \in 1..4 /\ s \in Sections
  BY SaveOrderType DEF SaveWrite, Inv, TypeOK, Control, ControlOf
<1>2. /\ UNCHANGED <<known, gauge, casts, job, queue, added, payload, content,
                     syncing, crashes>>
      /\ UNCHANGED <<plan, whitelist, listable, skipped, reloads>> /\ pc[p] = "write"
  BY DEF SaveWrite, hosts, jobs
<1>3. /\ snap[p] \subseteq known[s] /\ snap[p] \subseteq Universe[s] \cup {Cut}
      /\ snap[p] \in SUBSET (Items \cup {Cut})
      /\ s = "payloads" => snap[p] \subseteq Recordings
  BY <1>1, <1>2 DEF Inv, TypeOK, SnapCurrent, SnapOf
<1>4. PICK ls \in SUBSET (files[s] \cup snap[p] \cup {Cut}) :
          files' = [files EXCEPT ![s] = ls]
  BY DEF SaveWrite, Overwritten, OverwrittenPartly
<1>5. \/ written' = written
      \/ written' = [written EXCEPT ![s] = @ \cup snap[p]]
  BY DEF SaveWrite
<1>6. SaveNext(p) BY DEF SaveWrite
<1>. HIDE DEF s
<1>7. /\ written' \in [Sections -> SUBSET (Items \cup {Cut})]
      /\ \A t \in Sections : written'[t] \subseteq Universe[t] \cup {Cut}
  <2>1. CASE written' = written BY <2>1 DEF Inv, TypeOK, SectionTypes
  <2>2. CASE written' = [written EXCEPT ![s] = @ \cup snap[p]]
    <3>1. \A t \in Sections :
              written'[t] = IF t = s THEN written[s] \cup snap[p] ELSE written[t]
      BY <1>1, <2>2 DEF Inv, SectionTypes
    <3>2. written[s] \cup snap[p] \in SUBSET (Items \cup {Cut})
      BY <1>1, <1>3 DEF Inv, SectionTypes
    <3>3. written' \in [Sections -> SUBSET (Items \cup {Cut})]
      BY <1>1, <2>2, <3>2 DEF Inv, SectionTypes
    <3>. QED BY <1>1, <1>3, <3>1, <3>3 DEF Inv, TypeOK
  <2>. QED BY <1>5, <2>1, <2>2
<1>8. /\ files' \in [Sections -> SUBSET (Items \cup {Cut})]
      /\ \A t \in Sections : t # s => files'[t] = files[t]
      /\ files'[s] \subseteq files[s] \cup snap[p] \cup {Cut}
  BY <1>1, <1>3, <1>4 DEF Inv, SectionTypes
<1>. QED BY <1>1, <1>2, <1>3, <1>6, <1>7, <1>8, SaveNextKeeps, FileInv

\* SaveData returns.
LEMMA SaveDoneInv ==
    ASSUME Inv, NEW p \in Procs, SaveDone(p)
    PROVE  Inv'
<1>1. /\ UNCHANGED <<known, gauge, files, casts, written, snap, crashes>>
      /\ UNCHANGED <<plan, whitelist, listable, skipped, reloads>> /\ pc[p] = "save"
  BY DEF SaveDone, disk, hosts
<1>2. /\ at' \in [Procs -> 1..(Len(SaveOrder) + 1)]
      /\ \A q \in Procs \ {p} : at'[q] = at[q]
  BY SaveOrderType DEF SaveDone, Inv, TypeOK
<1>3. snap[p] = {} BY <1>1 DEF Inv, SnapCurrent, SnapOf
<1>4. CASE Finish(p) /\ UNCHANGED queue
  <2>1. Moved(p) /\ pc'[p] = "idle" /\ job'[p] = "none" BY <1>4, FinishKeeps
  <2>2. ControlOf(p)' /\ SnapOf(p)' BY <1>1, <1>3, <2>1 DEF ControlOf, SnapOf
  <2>3. queue' \in [Procs -> Seq(Items \cup {Blank})] BY <1>4 DEF Inv, TypeOK
  <2>. QED BY <1>1, <1>2, <1>4, <2>1, <2>2, <2>3, MovedBusy, MovedInv
<1>5. CASE /\ job[p] = "session" /\ queue' = [queue EXCEPT ![p] = <<payload[p]>>]
           /\ Go(p, "add")
  <2>1. Moved(p) /\ pc'[p] = "add" /\ job'[p] = job[p] /\ payload'[p] = payload[p]
    BY <1>5, GoKeeps DEF Labels
  <2>2. payload[p] \in Payloads BY <1>5 DEF Inv, Control, ControlOf
  <2>3. ControlOf(p)' /\ SnapOf(p)'
    BY <1>1, <1>3, <2>1, <2>2 DEF ControlOf, SnapOf
  <2>4. /\ queue' \in [Procs -> Seq(Items \cup {Blank})]
        /\ \A q \in Procs \ {p} : queue'[q] = queue[q]
    <3>1. <<payload[p]>> \in Seq(Items \cup {Blank}) BY <2>2 DEF Items
    <3>. QED BY <1>5, <3>1 DEF Inv, TypeOK
  <2>. QED BY <1>1, <1>2, <2>1, <2>3, <2>4, MovedBusy, MovedInv
<1>. QED BY <1>4, <1>5 DEF SaveDone

-----------------------------------------------------------------------------
(* The gauges                                                              *)

\* A step that neither adds nor counts.
LEMMA GaugeFrame ==
    ASSUME GaugeInv, UNCHANGED <<known, gauge>>,
           \A q \in Procs : pc'[q] = "count" <=> pc[q] = "count"
    PROVE  GaugeInv'
<1>1. \A s \in Sections : Uncounted(s)' = Uncounted(s) BY DEF Uncounted
<1>. QED BY <1>1 DEF GaugeInv

\* An insert adds at most one item, and counts it or leaves it to be counted.
LEMMA AddInsertGauge ==
    ASSUME IInv, NEW p \in Procs, AddInsert(p)
    PROVE  GaugeInv'
<1>. DEFINE i == Head(queue[p])
            s == SectionOf(i)
<1>1. i \in Items
  BY DEF AddInsert, IInv, Inv, Control, ControlOf, TypeOK, Items
<1>2. s \in Sections BY <1>1, SectionOfItem
<1>3. \A t \in Sections : known'[t] = IF t = s THEN known[t] \cup {i} ELSE known[t]
  BY DEF AddInsert, IInv, Inv, SectionTypes
<1>. SUFFICES ASSUME NEW t \in Sections
              PROVE  /\ IsFiniteSet(Uncounted(t)')
                     /\ gauge'[t] + Cardinality(Uncounted(t)')
                          >= Cardinality(known'[t])
  BY DEF GaugeInv
<1>4. /\ IsFiniteSet(known[t]) /\ Cardinality(known[t]) \in Nat
      /\ IsFiniteSet(Uncounted(t)) /\ Cardinality(Uncounted(t)) \in Nat
      /\ gauge[t] \in Nat
      /\ gauge[t] + Cardinality(Uncounted(t)) >= Cardinality(known[t])
  BY UniverseFinite, FS_CardinalityType DEF IInv, Inv, TypeOK, GaugeInv
<1>5. Cardinality(known[t] \cup {i}) \in Nat
      /\ Cardinality(known[t] \cup {i}) <= Cardinality(known[t]) + 1
  <2>1. Cardinality(known[t] \cup {i})
          = IF i \in known[t] THEN Cardinality(known[t]) ELSE Cardinality(known[t]) + 1
    BY <1>4, FS_AddElement
  <2>. QED BY <1>4, <2>1
<1>6. pc[p] = "insert" BY DEF AddInsert
<1>7. CASE s = "payloads"
  <2>1. gauge' = gauge /\ pc' = [pc EXCEPT ![p] = "count"]
    BY <1>7 DEF AddInsert
  <2>2. CASE t = "payloads"
    <3>1. Uncounted(t)' = Uncounted(t) \cup {p} /\ p \notin Uncounted(t)
      BY <1>6, <2>1, <2>2 DEF Uncounted, IInv, Inv, TypeOK
    <3>2. /\ IsFiniteSet(Uncounted(t)')
          /\ Cardinality(Uncounted(t)') = Cardinality(Uncounted(t)) + 1
      BY <1>4, <3>1, FS_AddElement
    <3>. HIDE DEF i, s
    <3>3. known'[t] = known[t] \cup {i} BY <1>3, <1>7, <2>2
    <3>. QED BY <1>4, <1>5, <2>1, <3>2, <3>3
  <2>3. CASE t # "payloads"
    <3>1. Uncounted(t)' = Uncounted(t) BY <2>3 DEF Uncounted
    <3>. HIDE DEF i, s
    <3>2. known'[t] = known[t] BY <1>3, <1>7, <2>3
    <3>. QED BY <1>4, <2>1, <3>1, <3>2
  <2>. QED BY <2>2, <2>3
<1>8. CASE s # "payloads"
  <2>1. gauge' = [gauge EXCEPT ![s] = @ + 1] /\ pc' = [pc EXCEPT ![p] = "add"]
    BY <1>8 DEF AddInsert, NextItem
  <2>2. Uncounted(t)' = Uncounted(t)
    BY <1>6, <2>1 DEF Uncounted, IInv, Inv, TypeOK
  <2>3. gauge'[t] = IF t = s THEN gauge[t] + 1 ELSE gauge[t]
    BY <2>1 DEF IInv, Inv, SectionTypes
  <2>. HIDE DEF i, s
  <2>4. CASE t = s
    <3>1. gauge'[t] = gauge[t] + 1 /\ known'[t] = known[t] \cup {i}
      BY <1>3, <2>3, <2>4
    <3>. QED BY <1>4, <1>5, <2>2, <3>1
  <2>5. CASE t # s
    <3>1. gauge'[t] = gauge[t] /\ known'[t] = known[t] BY <1>3, <2>3, <2>5
    <3>. QED BY <1>4, <2>2, <3>1
  <2>. QED BY <2>4, <2>5
<1>. QED BY <1>7, <1>8

\* Counting a payload takes one goroutine off those that have yet to.
LEMMA AddCountGauge ==
    ASSUME IInv, NEW p \in Procs, AddCount(p)
    PROVE  GaugeInv'
<1>1. /\ pc[p] = "count" /\ pc' = [pc EXCEPT ![p] = "add"] /\ known' = known
      /\ gauge' = [gauge EXCEPT !["payloads"] = @ + 1]
  BY DEF AddCount, NextItem
<1>. SUFFICES ASSUME NEW t \in Sections
              PROVE  /\ IsFiniteSet(Uncounted(t)')
                     /\ gauge'[t] + Cardinality(Uncounted(t)')
                          >= Cardinality(known'[t])
  BY DEF GaugeInv
<1>2. /\ Cardinality(known[t]) \in Nat
      /\ IsFiniteSet(Uncounted(t)) /\ Cardinality(Uncounted(t)) \in Nat
      /\ gauge[t] \in Nat
      /\ gauge[t] + Cardinality(Uncounted(t)) >= Cardinality(known[t])
  BY UniverseFinite, FS_CardinalityType DEF IInv, Inv, TypeOK, GaugeInv
<1>3. CASE t = "payloads"
  <2>1. Uncounted(t)' = Uncounted(t) \ {p} /\ p \in Uncounted(t)
    BY <1>1, <1>3 DEF Uncounted, IInv, Inv, TypeOK
  <2>2. /\ IsFiniteSet(Uncounted(t)')
        /\ Cardinality(Uncounted(t)') = Cardinality(Uncounted(t)) - 1
    BY <1>2, <2>1, FS_RemoveElement
  <2>3. gauge'[t] = gauge[t] + 1
    BY <1>1, <1>3 DEF IInv, Inv, SectionTypes
  <2>. QED BY <1>1, <1>2, <2>2, <2>3
<1>4. CASE t # "payloads"
  <2>1. Uncounted(t)' = Uncounted(t) BY <1>4 DEF Uncounted
  <2>2. gauge'[t] = gauge[t] BY <1>1, <1>4 DEF IInv, Inv, SectionTypes
  <2>. QED BY <1>1, <1>2, <2>1, <2>2
<1>. QED BY <1>3, <1>4

\* Taking up a job counts nothing.
LEMMA StartGauge ==
    ASSUME IInv, NEW p \in Procs,
           Login(p) \/ SessionEnd(p) \/ SyncAdd(p) \/ SyncAddPayload(p)
    PROVE  GaugeInv'
<1>1. PICK l \in {"add", "save", "cast", "kept"} :
          pc[p] = "idle" /\ pc' = [pc EXCEPT ![p] = l] /\ UNCHANGED <<known, gauge>>
  BY DEF Login, SessionEnd, SyncAdd, SyncAddPayload, Start
<1>2. \A q \in Procs : pc'[q] = "count" <=> pc[q] = "count"
  BY <1>1 DEF IInv, Inv, TypeOK
<1>. QED BY <1>1, <1>2, GaugeFrame DEF IInv

\* Nor do looking and saving.
LEMMA OtherGauge ==
    ASSUME IInv, NEW p \in Procs,
           \/ AddCheck(p) \/ AddDone(p) \/ CastCheck(p) \/ CastCreate(p)
           \/ CastFill(p) \/ CastKept(p) \/ SaveSnapshot(p)
           \/ SaveTruncate(p) \/ SaveWrite(p) \/ SaveDone(p)
    PROVE  GaugeInv'
<1>1. /\ pc[p] # "count" /\ UNCHANGED <<known, gauge>>
      /\ \/ pc' = pc
         \/ \E l \in Labels \ {"count"} : pc' = [pc EXCEPT ![p] = l]
  BY DEF AddCheck, AddDone, Finish, Go, CastReturn, CastCheck, CastCreate,
         CastFill, CastKept, SaveSnapshot, SaveTruncate, SaveWrite, SaveNext,
         SaveDone, Labels
<1>2. \A q \in Procs : pc'[q] = "count" <=> pc[q] = "count"
  BY <1>1 DEF IInv, Inv, TypeOK
<1>. QED BY <1>1, <1>2, GaugeFrame DEF IInv

-----------------------------------------------------------------------------
(* The theorems                                                            *)

LEMMA StepInv ==
    ASSUME IInv, NEW p \in Procs, Step(p)
    PROVE  IInv'
<1>1. Inv BY DEF IInv
<1>2. CASE AddCheck(p) BY <1>1, <1>2, AddCheckInv, OtherGauge DEF IInv
<1>3. CASE AddInsert(p) BY <1>1, <1>3, AddInsertInv, AddInsertGauge DEF IInv
<1>4. CASE AddCount(p) BY <1>1, <1>4, AddCountInv, AddCountGauge DEF IInv
<1>5. CASE AddDone(p) BY <1>1, <1>5, AddDoneInv, OtherGauge DEF IInv
<1>6. CASE SaveSnapshot(p) BY <1>1, <1>6, SaveSnapshotInv, OtherGauge DEF IInv
<1>7. CASE SaveTruncate(p) BY <1>1, <1>7, SaveTruncateInv, OtherGauge DEF IInv
<1>8. CASE SaveWrite(p) BY <1>1, <1>8, SaveWriteInv, OtherGauge DEF IInv
<1>9. CASE SaveDone(p) BY <1>1, <1>9, SaveDoneInv, OtherGauge DEF IInv
<1>10. CASE CastCheck(p) BY <1>1, <1>10, CastCheckInv, OtherGauge DEF IInv
<1>11. CASE CastCreate(p) BY <1>1, <1>11, CastCreateInv, OtherGauge DEF IInv
<1>12. CASE CastFill(p) BY <1>1, <1>12, CastFillInv, OtherGauge DEF IInv
<1>13. CASE CastKept(p) BY <1>1, <1>13, CastKeptInv, OtherGauge DEF IInv
<1>. QED
  BY <1>2, <1>3, <1>4, <1>5, <1>6, <1>7, <1>8, <1>9, <1>10, <1>11, <1>12, <1>13
  DEF Step

\* The invariant is inductive.
LEMMA NextInv == IInv /\ [Next]_vars => IInv'
<1>. SUFFICES ASSUME IInv, [Next]_vars PROVE IInv' OBVIOUS
<1>1. Inv BY DEF IInv
<1>2. ASSUME NEW p \in Procs, Login(p) PROVE IInv'
  BY <1>1, <1>2, LoginInv, StartGauge DEF IInv
<1>3. ASSUME NEW p \in Procs, SessionEnd(p) PROVE IInv'
  BY <1>1, <1>3, SessionEndInv, StartGauge DEF IInv
<1>4. ASSUME NEW p \in Procs, SyncAdd(p) PROVE IInv'
  BY <1>1, <1>4, SyncAddInv, StartGauge DEF IInv
<1>5. ASSUME NEW p \in Procs, SyncAddPayload(p) PROVE IInv'
  BY <1>1, <1>5, SyncAddPayloadInv, StartGauge DEF IInv
<1>6. ASSUME NEW p \in Procs, Step(p) PROVE IInv' BY <1>6, StepInv
<1>7. CASE Restart BY <1>7, RestartInv
<1>9. CASE SetWhitelist BY <1>9, SetWhitelistInv
<1>8. CASE UNCHANGED vars
  <2>1. Inv'
    BY <1>1, <1>8
    DEF vars, disk, hosts, jobs, Inv, TypeOK, SectionTypes, Control, ControlOf,
        SyncingBusy, SnapCurrent, SnapOf, DataInv, KnownClean, ListedExist,
        OpenBusy, Recording, Recordings, DiskWithinKnown
  <2>2. GaugeInv' BY <1>8, GaugeFrame DEF vars, IInv
  <2>. QED BY <2>1, <2>2 DEF IInv
<1>. QED BY <1>2, <1>3, <1>4, <1>5, <1>6, <1>7, <1>8, <1>9 DEF Next

\* So it always holds.
LEMMA AlwaysInv == Spec => []IInv
BY InitInv, NextInv, PTL DEF Spec

\* The maps, gauges, files and goroutines keep their types, and the holder of
\* sc.lock runs a sync command.
THEOREM TypeCorrect == Spec => []TypeOK
<1>1. IInv => TypeOK BY DEF IInv, Inv
<1>. QED BY <1>1, AlwaysInv, PTL

\* AddHost keeps no host that has been on the whitelist since the process was
\* started, and no save writes one, whatever another node sends, an old
\* hosts.txt lists or reloads do to the rest of the whitelist.
THEOREM WhitelistKeptOut == Spec => []WhitelistedNeverKept
<1>1. IInv => WhitelistedNeverKept BY InvWhitelisted DEF IInv
<1>. QED BY <1>1, AlwaysInv, PTL

\* A payload in payloads.txt has its recording, or what a crash, a failing
\* write or a damaged donation has left of it, or one that is being written:
\* pl.Save empties the file before it fills it.
THEOREM ListedRecorded == Spec => []ListedPayloadsRecorded
<1>1. IInv => ListedPayloadsRecorded BY InvRecorded DEF IInv
<1>. QED BY <1>1, AlwaysInv, PTL

\* However saves overlap and fail, a data file holds no line that the running
\* process does not know, but hosts that were whitelisted when it was started
\* and pieces of lines.
THEOREM FilesKnown == Spec => []DiskWithinKnown
<1>1. IInv => DiskWithinKnown BY DEF IInv, Inv, DataInv
<1>. QED BY <1>1, AlwaysInv, PTL

\* The gauges, with the increments under way, count every item known.
THEOREM GaugesCover == Spec => []GaugeCovers
<1>1. IInv => GaugeCovers BY DEF IInv, GaugeInv, GaugeCovers
<1>. QED BY <1>1, AlwaysInv, PTL
====
