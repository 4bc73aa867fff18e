---------------------------- MODULE MCNodeStats ----------------------------
(* An instance of NodeStats for TLC.                                       *)
EXTENDS NodeStats, Functions, TLC

CONSTANTS a1, a2, a3, a4, a5, h1, h2, h3, u1, u2, spaces, blank, w1, empty,
          word, k1, nokey, p1, n1

\* Two password logins and a key from one address, the same key and a blank
\* user name from another, and a whitelisted host.
TheHosts     == (a1 :> h1) @@ (a2 :> h1) @@ (a3 :> h1) @@ (a4 :> h2) @@ (a5 :> h3)
TheUsers     == (a1 :> u1) @@ (a2 :> u2) @@ (a3 :> u1) @@ (a4 :> spaces) @@ (a5 :> u2)
ThePasswords == (a1 :> w1) @@ (a2 :> w1) @@ (a3 :> empty) @@ (a4 :> empty)
                @@ (a5 :> w1)
TheKeys      == (a1 :> nokey) @@ (a2 :> nokey) @@ (a3 :> k1) @@ (a4 :> k1)
                @@ (a5 :> nokey)
TheStored    == (u1 :> u1) @@ (u2 :> u2) @@ (spaces :> blank) @@ (w1 :> w1)
                @@ (empty :> word)
ThePeers     == p1 :> n1

\* Two first logins meet, the second with what the first has brought; logins
\* meet a known key, with no peer in the cluster; a peer comes, restarts and
\* reports.
ThePlans == {[coming |-> {a1, a2}, up |-> {}, restarts |-> 0],
             [coming |-> {a3, a4, a5}, up |-> {}, restarts |-> 0],
             [coming |-> {a1}, up |-> {p1}, restarts |-> 1]}

\* SumOf is the sum of the library.
ASSUME SumOfIsSum == \A f \in [1..3 -> 0..3] : SumOf(f) = SumFunction(f)
====
