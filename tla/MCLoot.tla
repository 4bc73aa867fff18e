------------------------------- MODULE MCLoot -------------------------------
(* Instances of Loot for TLC.                                              *)
EXTENDS Loot, TLC

CONSTANTS h1, hw, u1, w1, y1

NoFiles == [hosts |-> {}, users |-> {}, passwords |-> {}, payloads |-> {}]

\* Data files from before hw was whitelisted.
OldFiles == [NoFiles EXCEPT !.hosts = {hw}]

\* Hosts, and a whitelist that changes; recordings, and two crashes.
SafePlans == {
    [items |-> {h1, hw}, files |-> OldFiles, whitelist |-> {hw},
     crashes |-> 1, reloads |-> 2],
    [items |-> {y1}, files |-> NoFiles, whitelist |-> {},
     crashes |-> 2, reloads |-> 0]}

\* An item of each section, and nothing goes wrong.
RacePlans == {
    [items |-> Items, files |-> NoFiles, whitelist |-> {},
     crashes |-> 0, reloads |-> 0]}

Goroutines == Permutations(Procs)
====
