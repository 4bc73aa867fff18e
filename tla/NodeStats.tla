----------------------------- MODULE NodeStats ------------------------------
(***************************************************************************)
(* The statistics of a node and of its cluster, over the login attempts of *)
(* Logins: stats and the two stats workers of ossh_server.go, AddStats and *)
(* GetStats of sync_nodes.go, and the command ADD-STATS.                   *)
(*                                                                         *)
(* Three fields of SyncNodeStats are kept, those of the logins; the total  *)
(* is that of AttemptedLogins, as GetStats sums the others up alike (or    *)
(* takes the maximum of counts that only grow).  updateStatsWorker and     *)
(* broadcastStatsWorker only read what they share, so one process plays    *)
(* both: each turn it takes a snapshot and then does with it what one of   *)
(* the two does.  A peer is its counter of logins, which it loses when it  *)
(* restarts, and the reports it sends.                                     *)
(***************************************************************************)
EXTENDS Logins

CONSTANTS Peers,        \* the nodes that report to this one
          PeerHost,     \* peer -> ssc.Host of its connections
          Foreign,      \* peers whose JSON does not decode
          None,         \* a host that has not reported
          Nil,          \* what JSONToStats makes of JSON it cannot decode
          Plans,        \* the attempts, peers and restarts of a behaviour
          MaxLogins,    \* bound: logins at a peer in one life
          MaxInFlight   \* bound: reports of a peer on their way

PeerHosts == {PeerHost[p] : p \in Peers}

ASSUME PeersAssumption ==
    /\ IsFiniteSet(Peers) /\ DOMAIN PeerHost = Peers
    /\ Foreign \subseteq Peers
    /\ Plans \subseteq [coming : SUBSET Attempts, up : SUBSET Peers, restarts : Nat]
    /\ MaxLogins \in Nat /\ MaxInFlight \in Nat \ {0}

VARIABLES
    reading,  \* the field of SyncNodeStats that stats() fills next
    part,     \* the fields it has filled
    got,      \* the Logins read for it: host -> its successes or failures
    stats,    \* SyncNodes.stats: host -> the report AddStats stored
    total,    \* the logins of the last total pushed to the dashboard
    died,     \* GetStats dereferenced nil outside any recover
    at,       \* peer -> its login counter
    peak,     \* history: peer -> the highest it ever was
    mail,     \* peer -> reports on their way
    up,       \* the peers that are running
    restarts  \* bound: restarts of peers to come

pvars == <<at, peak, mail, up, restarts>>
svars == <<counting, reading, part, got>>
vars == <<lvars, svars, stats, total, died, pvars>>

NoStats == [attempted |-> 0, successful |-> 0, failed |-> 0]
Unread  == [h \in {} |-> 0]

\* The sum of a function of naturals, as the number of its units: a form that
\* needs no recursion over the domain.
Units(f) == UNION {{x} \X (1..f[x]) : x \in DOMAIN f}
SumOf(f) == Cardinality(Units(f))

-----------------------------------------------------------------------------
(* stats: one field after the other                                        *)

\* Logins.GetSuccesses and GetFailures range over the map, which stays locked,
\* and wait for the lock of each Login.
Registered == {h \in Hosts : logins[h] # NoLogin}
Sum(f) == SumOf([h \in Registered |-> tally[logins[h]][f]])

\* Mutant of ReadOrder: the attempts are read after their parts.
ReadOrderPartsFirst == [start |-> "successful", successful |-> "failed",
                        failed |-> "attempted", attempted |-> "more",
                        more |-> "push"]

\* The order of the fields in stats.  GetAttempts reads successes ("attempted"),
\* then failures ("more").
ReadOrder == [start |-> "attempted", attempted |-> "more",
              more |-> "successful", successful |-> "failed", failed |-> "push"]

\* What of a Login the field is about.
Outcome == IF reading \in {"attempted", "successful"} THEN "success" ELSE "failure"

LockLogins ==
    /\ reading # "push" /\ ~counting
    /\ counting' = TRUE
    /\ UNCHANGED <<lvars, reading, part, got, stats, total, died, pvars>>

ReadLogin(h) ==
    /\ counting
    /\ h \in Registered \ DOMAIN got
    /\ ~Locked(logins[h])
    /\ got' = [i \in DOMAIN got \cup {h} |->
                 IF i = h THEN tally[logins[h]][Outcome] ELSE got[i]]
    /\ UNCHANGED <<lvars, counting, reading, part, stats, total, died, pvars>>

ReadDone ==
    /\ counting /\ DOMAIN got = Registered
    /\ counting' = FALSE /\ got' = Unread
    /\ part' = CASE reading = "attempted"  -> [part EXCEPT !.attempted = SumOf(got)]
                 [] reading = "more"       -> [part EXCEPT !.attempted = @ + SumOf(got)]
                 [] reading = "successful" -> [part EXCEPT !.successful = SumOf(got)]
                 [] reading = "failed"     -> [part EXCEPT !.failed = SumOf(got)]
    /\ reading' = ReadOrder[reading]
    /\ UNCHANGED <<lvars, stats, total, died, pvars>>

ReadField == LockLogins \/ (\E h \in Hosts : ReadLogin(h)) \/ ReadDone

-----------------------------------------------------------------------------
(* The workers                                                             *)

\* PushStats of the snapshot and the sleep after it.
NextTurn ==
    /\ reading' = ReadOrder["start"]
    /\ part' = NoStats
    /\ UNCHANGED <<lvars, counting, got, stats, pvars>>

UpdateStatsWorker ==
    /\ reading = "push"
    /\ NextTurn
    /\ UNCHANGED <<total, died>>

\* The keys of sn.stats, without the "_" of the node itself.
Reported == {h \in PeerHosts : stats[h] # None}

\* GetStats: the sum over the reports and the own snapshot.
Total(hs) == hs.attempted + SumOf([h \in Reported |-> stats[h]])

\* An entry that is nil is dereferenced in a goroutine without recover.
BroadcastStatsWorker ==
    /\ reading = "push"
    /\ NextTurn
    /\ IF \E h \in Reported : stats[h] \in {Nil, None}
       THEN died' = TRUE /\ UNCHANGED total
       ELSE total' = Total(part) /\ UNCHANGED died

-----------------------------------------------------------------------------
(* The peers                                                               *)

\* External: a login at a peer.
PeerLogin(p) ==
    /\ at[p] < MaxLogins
    /\ at' = [at EXCEPT ![p] = @ + 1]
    /\ peak' = [peak EXCEPT ![p] = IF at[p] = @ THEN @ + 1 ELSE @]
    /\ UNCHANGED <<lvars, svars, stats, total, died, mail, up, restarts>>

\* External: a peer restarts; its Logins are not saved anywhere.
PeerRestart(p) ==
    /\ restarts > 0
    /\ restarts' = restarts - 1
    /\ at' = [at EXCEPT ![p] = 0]
    /\ UNCHANGED <<lvars, svars, stats, total, died, peak, mail, up>>

\* The broadcastStatsWorker of a peer sends ADD-STATS.  Each goes over a
\* connection of its own, so that a late one may overtake or be lost.
PeerReport(p) ==
    /\ Cardinality(mail[p]) < MaxInFlight
    /\ mail' = [mail EXCEPT ![p] = @ \cup {at[p]}]
    /\ UNCHANGED <<lvars, svars, stats, total, died, at, peak, up, restarts>>

\* Mutant of Decoded: a report never lowers what is known of a node.
DecodedMax(p, n) ==
    IF stats[PeerHost[p]] \in {m \in 0..MaxLogins : m > n}
    THEN stats[PeerHost[p]] ELSE n

\* JSONToStats.
Decoded(p, n) == IF p \in Foreign THEN Nil ELSE n

\* Mutant of AddStats: a report is added to what its host had reported.
AddStatsAdds(p, n) ==
    /\ n \in mail[p]
    /\ mail' = [mail EXCEPT ![p] = @ \ {n}]
    /\ stats' = [stats EXCEPT ![PeerHost[p]] = IF @ = None THEN n ELSE @ + n]
    /\ UNCHANGED <<lvars, svars, total, died, at, peak, up, restarts>>

\* ADD-STATS: the report replaces what its host reported before.
AddStats(p, n) ==
    /\ n \in mail[p]
    /\ mail' = [mail EXCEPT ![p] = @ \ {n}]
    /\ stats' = [stats EXCEPT ![PeerHost[p]] = Decoded(p, n)]
    /\ UNCHANGED <<lvars, svars, total, died, at, peak, up, restarts>>

\* External: the connection fails before the command is run.
Lose(p, n) ==
    /\ n \in mail[p]
    /\ mail' = [mail EXCEPT ![p] = @ \ {n}]
    /\ UNCHANGED <<lvars, svars, stats, total, died, at, peak, up, restarts>>

-----------------------------------------------------------------------------
Init ==
    /\ \E plan \in Plans : /\ LoginsInit(plan.coming)
                          /\ up = plan.up /\ restarts = plan.restarts
    /\ reading = ReadOrder["start"] /\ part = NoStats /\ got = Unread
    /\ total = 0 /\ died = FALSE
    /\ stats = [h \in PeerHosts |-> None]
    /\ at = [p \in Peers |-> 0] /\ peak = at
    /\ mail = [p \in Peers |-> {}]

Worker == ReadField \/ UpdateStatsWorker \/ BroadcastStatsWorker

Handlers == /\ \E a \in Attempts : Handle(a)
            /\ UNCHANGED <<svars, stats, total, died, pvars>>

Arrivals == /\ (\E a \in Attempts : Begin(a)) \/ (\E i \in Learned : SyncAdd(i))
            /\ UNCHANGED <<svars, stats, total, died, pvars>>

Next ==
    /\ ~died
    /\ \/ Handlers \/ Arrivals
       \/ Worker
       \/ \E p \in up    : \/ PeerLogin(p) \/ PeerRestart(p) \/ PeerReport(p)
                           \/ \E n \in mail[p] : AddStats(p, n) \/ Lose(p, n)

Spec == Init /\ [][Next]_vars

\* Some handler that can go on does, and gets the lock of Logins between two
\* turns of stats, as Go's mutexes are handed to who waits too long; the workers
\* get their turns, and of the reports that a peer never stops sending some get
\* through.
Fairness ==
    /\ SF_vars(~died /\ Handlers)
    /\ WF_vars(~died /\ ReadField)
    /\ SF_vars(~died /\ BroadcastStatsWorker)
    /\ \A p \in Peers : /\ WF_vars(~died /\ p \in up /\ PeerReport(p))
                        /\ SF_vars(~died /\ \E n \in mail[p] : AddStats(p, n))

FairSpec == Spec /\ Fairness

-----------------------------------------------------------------------------
(* Properties                                                              *)

StatsRecords == [attempted : Nat, successful : Nat, failed : Nat]

TypeOK ==
    /\ LoginsTypeOK
    /\ reading \in {"attempted", "more", "successful", "failed", "push"}
    /\ part \in StatsRecords /\ total \in Nat
    /\ counting \in BOOLEAN /\ DOMAIN got \subseteq Registered
    /\ \A h \in DOMAIN got : got[h] \in Nat
    /\ ~counting => got = Unread
    /\ stats \in [PeerHosts -> Nat \cup {None, Nil}]
    /\ at \in [Peers -> 0..MaxLogins] /\ peak \in [Peers -> 0..MaxLogins]
    /\ mail \in [Peers -> SUBSET (0..MaxLogins)]
    /\ up \subseteq Peers /\ restarts \in Nat /\ died \in BOOLEAN

\* A snapshot, whose fields are read one after the other and each Login by
\* Login while others are counting, never shows more than the counters do, and
\* never more attempts than successes and failures together, unless a Login has
\* been lost between the reads.
SnapshotBehind ==
    /\ part.attempted <= counters.logins
    /\ part.successful <= counters.successful
    /\ part.failed <= counters.failed
    /\ reading = "push" /\ raced = {} =>
          part.attempted <= part.successful + part.failed

\* The total never claims a login that did not happen: whatever is reported
\* late, twice, out of order or before a restart, each node counts once.
TotalBehind ==
    total <= counters.logins + SumOf(peak)

\* Once logins stop, the total of the dashboard becomes and stays the sum of
\* what every node counts, restarts and lost or overtaken reports included.
TotalsCatchUp ==
    <>[](total = Sum("success") + Sum("failure") + SumOf(at))
====
