--------------------------- MODULE NodeStatsProofs ---------------------------
(***************************************************************************)
(* Proofs about NodeStats and the Logins below it, for any attempts, hosts *)
(* and peers: types, that a password which is nothing new stays out, that  *)
(* the counters are exact, that a Login is lost only in the race of Get,   *)
(* and that snapshots and totals never run ahead of what was counted.      *)
(***************************************************************************)
EXTENDS NodeStats, FiniteSetTheorems, TLAPS

Reasons == Accepting \cup Refusing \cup {Undecided}

\* Where an attempt makes a Login, holds one, or has been counted.
Late == {"create", "lock", "outcome", "add", "done"}

-----------------------------------------------------------------------------
(* Where an attempt is and what it has in hand                             *)

ControlOf(a) ==
    /\ pc[a] \in {"absent", "offered"} => via[a] = Undecided
    /\ pc[a] \notin {"absent", "offered", "done"} => HostOf[a] \notin Whitelisted
    /\ pc[a] \in {"host", "user", "password", "user only", "password only", "roll"}
         => KeyOf[a] = NoKey
    /\ pc[a] \in {"key", "save key"} => KeyOf[a] # NoKey
    /\ pc[a] \in {"get", "lock", "outcome", "add", "done"}
         => HostOf[a] \in Whitelisted \/ logins[HostOf[a]] # NoLogin
    /\ pc[a] \in {"lock", "outcome", "add"}
         => login[a] \in Attempts /\ HostOf[login[a]] = HostOf[a]

\* An attempt with nothing new: it is still known, so no lookup fails.
StaleOf(a) ==
    /\ pc[a] \notin {"absent", "offered", "user only", "password only", "roll",
                     "save key"}
    /\ KeyOf[a] = NoKey /\ UserOf[a] \in loot /\ PasswordOf[a] \in loot
    /\ Accepted(a) => via[a] \in {"whitelisted", "back"}

\* A Login is of the host that it is kept for.
LoginOwner == \A h \in Hosts : logins[h] # NoLogin => HostOf[logins[h]] = h

Base == /\ LoginsTypeOK /\ LoginOwner
        /\ \A a \in Attempts : ControlOf(a)
        /\ \A a \in stale : StaleOf(a)

\* The attempt that takes a step; the others stay, nothing is forgotten.
Alone(a) ==
    /\ \A b \in Attempts \ {a} : /\ pc'[b] = pc[b] /\ via'[b] = via[b]
                                 /\ login'[b] = login[b]
    /\ loot \subseteq loot' /\ keys \subseteq keys'
    /\ stale \subseteq stale' /\ stale' \subseteq stale \cup {a}
    /\ \A h \in Hosts : logins[h] # NoLogin => logins'[h] # NoLogin

LEMMA HostOfType == \A a \in Attempts : HostOf[a] \in Hosts
BY DEF Hosts

\* What the others rely on stays good.
LEMMA OthersKeep ==
    ASSUME Base, NEW a \in Attempts, Alone(a), LoginsTypeOK', LoginOwner',
           ControlOf(a)', a \in stale' => StaleOf(a)'
    PROVE  Base'
<1>1. ASSUME NEW b \in Attempts, b # a PROVE ControlOf(b)'
  <2>1. ControlOf(b) BY DEF Base
  <2>. QED BY <1>1, <2>1, HostOfType DEF Alone, ControlOf
<1>2. ASSUME NEW b \in stale', b # a PROVE StaleOf(b)'
  <2>1. b \in stale /\ b \in Attempts
    BY <1>2 DEF Alone, Base, LoginsTypeOK
  <2>2. StaleOf(b) BY <2>1 DEF Base
  <2>. QED BY <1>2, <2>1, <2>2 DEF Alone, StaleOf, Accepted
<1>. QED BY <1>1, <1>2 DEF Base

\* addLoginSuccess or addLoginFailure is called.
LEMMA Decided ==
    ASSUME Base, NEW a \in Attempts, NEW r \in Accepting \cup Refusing, Decide(a, r)
    PROVE  /\ pc' \in [Attempts -> Locations] /\ via' \in [Attempts -> Reasons]
           /\ \A b \in Attempts \ {a} : pc'[b] = pc[b] /\ via'[b] = via[b]
           /\ via'[a] = r
           /\ pc'[a] = IF HostOf[a] \in Whitelisted THEN "done" ELSE "add user"
<1>1. "done" \in Locations /\ "add user" \in Locations BY DEF Locations
<1>. QED BY <1>1 DEF Decide, Goto, Base, LoginsTypeOK, Reasons

\* The handler goes on.
LEMMA GoneOn ==
    ASSUME Base, NEW a \in Attempts, NEW l \in Locations, Goto(a, l)
    PROVE  /\ pc' \in [Attempts -> Locations]
           /\ \A b \in Attempts \ {a} : pc'[b] = pc[b]
           /\ pc'[a] = l
BY DEF Goto, Base, LoginsTypeOK

\* A handler is called.
LEMMA BeginBase ==
    ASSUME Base, NEW a \in Attempts, Begin(a)
    PROVE  /\ Base' /\ Alone(a) /\ pc[a] \notin Late
           /\ pc'[a] \notin Late \/ (pc'[a] = "done" /\ HostOf[a] \in Whitelisted)
           /\ UNCHANGED <<logins, tally, counters, raced, login>>
<1>1. /\ pc[a] = "offered" /\ via[a] = Undecided
      /\ UNCHANGED <<loot, keys, logins, tally, counters, login, raced>>
      /\ stale \subseteq stale' /\ stale' \subseteq stale \cup {a}
  BY DEF Begin, Base, ControlOf
<1>2. a \notin stale BY <1>1 DEF Base, StaleOf
<1>3. a \in stale' => KeyOf[a] = NoKey /\ UserOf[a] \in loot /\ PasswordOf[a] \in loot
  BY <1>2 DEF Begin, Base, LoginsTypeOK, Keys
<1>4. CASE HostOf[a] \in Whitelisted /\ Decide(a, "whitelisted")
  <2>1. "whitelisted" \in Accepting \cup Refusing BY DEF Accepting
  <2>2. /\ pc' \in [Attempts -> Locations] /\ via' \in [Attempts -> Reasons]
        /\ \A b \in Attempts \ {a} : pc'[b] = pc[b] /\ via'[b] = via[b]
        /\ via'[a] = "whitelisted" /\ pc'[a] = "done"
    BY <1>4, <2>1, Decided
  <2>3. Alone(a) BY <1>1, <2>2 DEF Alone
  <2>4. LoginsTypeOK' /\ LoginOwner'
    BY <1>1, <2>2 DEF Base, LoginsTypeOK, LoginOwner, Reasons
  <2>5. ControlOf(a)' BY <1>4, <2>2 DEF ControlOf
  <2>6. a \in stale' => StaleOf(a)' BY <1>1, <1>3, <2>2 DEF StaleOf
  <2>. QED BY <1>1, <1>4, <2>2, <2>3, <2>4, <2>5, <2>6, OthersKeep DEF Late
<1>5. CASE /\ HostOf[a] \notin Whitelisted /\ UNCHANGED via
           /\ Goto(a, IF KeyOf[a] = NoKey THEN "host" ELSE "key")
  <2>1. "host" \in Locations /\ "key" \in Locations BY DEF Locations
  <2>2. /\ pc' \in [Attempts -> Locations]
        /\ \A b \in Attempts \ {a} : pc'[b] = pc[b]
        /\ pc'[a] = IF KeyOf[a] = NoKey THEN "host" ELSE "key"
    BY <1>5, <2>1, GoneOn
  <2>3. Alone(a) BY <1>1, <1>5, <2>2 DEF Alone
  <2>4. LoginsTypeOK' /\ LoginOwner'
    BY <1>1, <1>5, <2>2 DEF Base, LoginsTypeOK, LoginOwner
  <2>5. ControlOf(a)' BY <1>5, <2>2 DEF ControlOf
  <2>6. ~Accepted(a)'
    BY <1>1, <1>5 DEF Accepted, Accepting, Undecided
  <2>7. a \in stale' => StaleOf(a)' BY <1>1, <1>3, <2>2, <2>6 DEF StaleOf
  <2>8. Base' BY <2>3, <2>4, <2>5, <2>7, OthersKeep
  <2>. QED BY <1>1, <2>2, <2>3, <2>8 DEF Late
<1>. QED BY <1>4, <1>5 DEF Begin

\* The places where authHandler and publicKeyHandler look things up.
Lookups == {"host", "user", "password", "user only", "password only", "roll",
            "key", "save key"}

\* A lookup that decides.
LEMMA DecideKeeps ==
    ASSUME Base, NEW a \in Attempts, NEW r \in Accepting \cup Refusing,
           pc[a] \in Lookups, Decide(a, r), a \in stale => r \in Refusing \cup {"back"},
           UNCHANGED <<loot, logins, tally, counters, login, stale, raced>>,
           keys \subseteq keys', keys' \subseteq Keys
    PROVE  Base' /\ Alone(a) /\ pc'[a] = "add user"
<1>1. HostOf[a] \notin Whitelisted BY DEF Base, ControlOf, Lookups
<1>2. /\ pc' \in [Attempts -> Locations] /\ via' \in [Attempts -> Reasons]
      /\ \A b \in Attempts \ {a} : pc'[b] = pc[b] /\ via'[b] = via[b]
      /\ via'[a] = r /\ pc'[a] = "add user"
  BY <1>1, Decided
<1>3. Alone(a) BY <1>2 DEF Alone
<1>4. LoginsTypeOK' /\ LoginOwner'
  BY <1>2 DEF Base, LoginsTypeOK, LoginOwner, Reasons
<1>5. ControlOf(a)' BY <1>1, <1>2 DEF ControlOf
<1>6. a \in stale' => StaleOf(a)'
  BY <1>2 DEF StaleOf, Base, Accepted, Accepting, Refusing
<1>. QED BY <1>2, <1>3, <1>4, <1>5, <1>6, OthersKeep

\* A lookup that leads to the next one.
LEMMA LookOn ==
    ASSUME Base, NEW a \in Attempts, NEW l \in Lookups, pc[a] \in Lookups, Goto(a, l),
           l \in {"key", "save key"} <=> pc[a] \in {"key", "save key"},
           a \in stale => l \notin {"user only", "password only", "roll", "save key"},
           UNCHANGED <<loot, keys, logins, tally, counters, via, login, stale, raced>>
    PROVE  Base' /\ Alone(a) /\ pc'[a] = l
<1>1. l \in Locations BY DEF Lookups, Locations
<1>2. /\ pc' \in [Attempts -> Locations]
      /\ \A b \in Attempts \ {a} : pc'[b] = pc[b]
      /\ pc'[a] = l
  BY <1>1, GoneOn
<1>3. Alone(a) BY <1>2 DEF Alone
<1>4. LoginsTypeOK' /\ LoginOwner' BY <1>2 DEF Base, LoginsTypeOK, LoginOwner
<1>5. ControlOf(a)' BY <1>2 DEF Base, ControlOf, Lookups
<1>6. a \in stale' => StaleOf(a)'
  BY <1>2 DEF StaleOf, Base, Accepted, Lookups
<1>. QED BY <1>2, <1>3, <1>4, <1>5, <1>6, OthersKeep

\* The lookups of a handler that has begun.
Look(a) == \/ CheckHost(a) \/ CheckPair(a) \/ CheckOne(a) \/ RollDice(a)
           \/ CheckKey(a) \/ SaveKey(a)

LEMMA LookBase ==
    ASSUME Base, NEW a \in Attempts, Look(a)
    PROVE  /\ Base' /\ Alone(a) /\ pc[a] \notin Late /\ pc'[a] \notin Late
           /\ UNCHANGED <<logins, tally, counters, raced, login>>
<1>1. /\ UNCHANGED <<loot, logins, tally, counters, login, stale, raced>>
      /\ pc[a] \in Lookups /\ pc[a] \notin Late
  BY DEF Look, CheckHost, CheckPair, CheckOne, RollDice, CheckKey, SaveKey,
         Lookups, Late
<1>2. ControlOf(a) /\ (a \in stale => StaleOf(a)) BY DEF Base
<1>3. \A l \in Lookups \cup {"add user"} : l \notin Late BY DEF Lookups, Late
<1>4. keys \subseteq Keys BY DEF Base, LoginsTypeOK
<1>5. CASE CheckHost(a)
  <2>1. CASE Decide(a, "back")
    <3>1. "back" \in Accepting \cup Refusing BY DEF Accepting
    <3>. QED BY <1>1, <1>3, <1>4, <1>5, <2>1, <3>1, DecideKeeps DEF CheckHost
  <2>2. CASE Goto(a, "user") /\ UNCHANGED via
    <3>1. "user" \in Lookups BY DEF Lookups
    <3>. QED BY <1>1, <1>3, <1>5, <2>2, <3>1, LookOn DEF CheckHost
  <2>. QED BY <1>5, <2>1, <2>2 DEF CheckHost
<1>6. CASE CheckPair(a)
  <2>1. a \in stale => UserOf[a] \in loot /\ PasswordOf[a] \in loot
    BY <1>2, <1>6 DEF CheckPair, ControlOf, StaleOf
  <2>2. CASE Decide(a, "nothing new")
    <3>1. "nothing new" \in Refusing BY DEF Refusing
    <3>. QED BY <1>1, <1>3, <1>4, <1>6, <2>2, <3>1, DecideKeeps DEF CheckPair
  <2>3. CASE \E l \in {"password", "user only"} :
               /\ Goto(a, l) /\ UNCHANGED via
               /\ a \in stale => l = "password"
    <3>1. PICK l \in {"password", "user only"} :
               /\ Goto(a, l) /\ UNCHANGED via
               /\ a \in stale => l = "password"
      BY <2>3
    <3>2. l \in Lookups /\ l \notin {"key", "save key"} BY DEF Lookups
    <3>. QED BY <1>1, <1>3, <1>6, <3>1, <3>2, LookOn DEF CheckPair
  <2>. QED BY <1>6, <2>1, <2>2, <2>3 DEF CheckPair
<1>7. CASE CheckOne(a)
  <2>1. a \notin stale BY <1>2, <1>7 DEF CheckOne, StaleOf
  <2>2. CASE Decide(a, "user") \/ Decide(a, "password")
    <3>1. {"user", "password"} \subseteq Accepting BY DEF Accepting
    <3>. QED BY <1>1, <1>3, <1>4, <1>7, <2>1, <2>2, <3>1, DecideKeeps DEF CheckOne
  <2>3. CASE (Goto(a, "password only") \/ Goto(a, "roll")) /\ UNCHANGED via
    <3>1. {"password only", "roll"} \subseteq Lookups BY DEF Lookups
    <3>. QED BY <1>1, <1>3, <1>7, <2>1, <2>3, <3>1, LookOn DEF CheckOne
  <2>. QED BY <1>7, <2>2, <2>3 DEF CheckOne
<1>8. CASE RollDice(a)
  <2>1. a \notin stale BY <1>2, <1>8 DEF RollDice, StaleOf
  <2>2. {"dice", "dodged"} \subseteq Accepting \cup Refusing
    BY DEF Accepting, Refusing
  <2>. QED BY <1>1, <1>3, <1>4, <1>8, <2>1, <2>2, DecideKeeps DEF RollDice
<1>9. CASE CheckKey(a)
  <2>1. a \notin stale BY <1>2, <1>9 DEF CheckKey, ControlOf, StaleOf
  <2>2. CASE Decide(a, "known key")
    <3>1. "known key" \in Refusing BY DEF Refusing
    <3>. QED BY <1>1, <1>3, <1>4, <1>9, <2>2, <3>1, DecideKeeps DEF CheckKey
  <2>3. CASE Goto(a, "save key") /\ UNCHANGED via
    <3>1. "save key" \in Lookups BY DEF Lookups
    <3>. QED BY <1>1, <1>3, <1>9, <2>1, <2>3, <3>1, LookOn DEF CheckKey
  <2>. QED BY <1>9, <2>2, <2>3 DEF CheckKey
<1>10. CASE SaveKey(a)
  <2>1. a \notin stale BY <1>2, <1>10 DEF SaveKey, StaleOf
  <2>2. keys \subseteq keys' /\ keys' \subseteq Keys
    BY <1>2, <1>4, <1>10 DEF SaveKey, ControlOf, Keys
  <2>3. "key" \in Accepting BY DEF Accepting
  <2>. QED BY <1>1, <1>3, <1>10, <2>1, <2>2, <2>3, DecideKeeps DEF SaveKey
<1>. QED BY <1>5, <1>6, <1>7, <1>8, <1>9, <1>10 DEF Look

\* What may be in the loot.
Collectable == ((Hosts \cup {Stored[i] : i \in DOMAIN Stored}) \ {Blank})
                 \cup Learned \cup InitLoot

\* AddUser, AddPassword, AddHost.
LEMMA CollectBase ==
    ASSUME Base, NEW a \in Attempts, Collect(a)
    PROVE  /\ Base' /\ Alone(a) /\ pc[a] \notin Late /\ pc'[a] \notin Late
           /\ UNCHANGED <<logins, tally, counters, raced, login>>
<1>1. UNCHANGED <<keys, logins, tally, counters, via, login, stale, raced>>
  BY DEF Collect
<1>2. PICK i \in Hosts \cup {Stored[u] : u \in DOMAIN Stored},
           l \in {"add password", "add host", "has"} :
          /\ pc[a] \in {"add user", "add password", "add host"}
          /\ loot' = loot \cup ({i} \ {Blank}) /\ Goto(a, l)
  <2>1. /\ HostOf[a] \in Hosts
        /\ Stored[UserOf[a]] \in {Stored[u] : u \in DOMAIN Stored}
        /\ Stored[PasswordOf[a]] \in {Stored[u] : u \in DOMAIN Stored}
    BY HostOfType, AttemptsAssumption
  <2>2. \/ /\ pc[a] = "add user" /\ Goto(a, "add password")
           /\ loot' = loot \cup ({Stored[UserOf[a]]} \ {Blank})
        \/ /\ pc[a] = "add password" /\ Goto(a, "add host")
           /\ loot' = loot \cup ({Stored[PasswordOf[a]]} \ {Blank})
        \/ /\ pc[a] = "add host" /\ Goto(a, "has")
           /\ loot' = loot \cup ({HostOf[a]} \ {Blank})
    <3>1. PICK s \in {<<"add user", Stored[UserOf[a]], "add password">>,
                      <<"add password", Stored[PasswordOf[a]], "add host">>,
                      <<"add host", HostOf[a], "has">>} :
              pc[a] = s[1] /\ loot' = loot \cup ({s[2]} \ {Blank}) /\ Goto(a, s[3])
      BY DEF Collect
    <3>2. CASE s = <<"add user", Stored[UserOf[a]], "add password">>
      <4>1. s[1] = "add user" /\ s[2] = Stored[UserOf[a]] /\ s[3] = "add password"
        BY <3>2
      <4>. QED BY <3>1, <4>1
    <3>3. CASE s = <<"add password", Stored[PasswordOf[a]], "add host">>
      <4>1. s[1] = "add password" /\ s[2] = Stored[PasswordOf[a]] /\ s[3] = "add host"
        BY <3>3
      <4>. QED BY <3>1, <4>1
    <3>4. CASE s = <<"add host", HostOf[a], "has">>
      <4>1. s[1] = "add host" /\ s[2] = HostOf[a] /\ s[3] = "has" BY <3>4
      <4>. QED BY <3>1, <4>1
    <3>. QED BY <3>1, <3>2, <3>3, <3>4
  <2>. QED BY <2>1, <2>2, Zenon
<1>3. l \in Locations /\ l \notin Late BY DEF Locations, Late
<1>4. /\ pc' \in [Attempts -> Locations]
      /\ \A b \in Attempts \ {a} : pc'[b] = pc[b]
      /\ pc'[a] = l
  BY <1>2, <1>3, GoneOn
<1>5. loot \subseteq loot' /\ loot' \subseteq Collectable
  BY <1>2 DEF Base, LoginsTypeOK, Collectable
<1>6. Alone(a) BY <1>1, <1>4, <1>5 DEF Alone
<1>7. LoginsTypeOK' /\ LoginOwner'
  BY <1>1, <1>4, <1>5 DEF Base, LoginsTypeOK, LoginOwner, Collectable
<1>8. ControlOf(a)' BY <1>1, <1>2, <1>4 DEF Base, ControlOf
<1>9. a \in stale' => StaleOf(a)'
  BY <1>1, <1>2, <1>4, <1>5 DEF StaleOf, Base, Accepted
<1>10. pc[a] \notin Late BY <1>2 DEF Late
<1>. QED BY <1>1, <1>3, <1>4, <1>6, <1>7, <1>8, <1>9, <1>10, OthersKeep

\* Another node sends an item.
LEMMA SyncAddBase ==
    ASSUME Base, NEW i \in Learned, SyncAdd(i)
    PROVE  Base' /\ UNCHANGED <<logins, tally, counters, pc, via, login, raced>>
<1>1. /\ UNCHANGED <<keys, logins, tally, counters, pc, via, login, stale, raced>>
      /\ loot \subseteq loot' /\ loot' \subseteq loot \cup Learned
  BY DEF SyncAdd
<1>2. LoginsTypeOK' BY <1>1 DEF Base, LoginsTypeOK
<1>3. \A a \in Attempts : ControlOf(a)' BY <1>1 DEF Base, ControlOf
<1>4. \A a \in stale : StaleOf(a)' BY <1>1 DEF Base, StaleOf, Accepted
<1>. QED BY <1>1, <1>2, <1>3, <1>4 DEF Base, LoginOwner

-----------------------------------------------------------------------------
(* Get, and the two critical sections of counting                          *)

\* A step of Get or of counting that moves the attempt and keeps its reason.
LEMMA MoveKeeps ==
    ASSUME Base, NEW a \in Attempts, NEW l \in Locations \ Lookups, Goto(a, l),
           pc[a] \in {"has", "create", "get", "lock", "outcome", "add"},
           UNCHANGED <<loot, keys, via, stale>>,
           \A b \in Attempts \ {a} : login'[b] = login[b],
           \A h \in Hosts : logins[h] # NoLogin => logins'[h] # NoLogin
    PROVE  /\ pc' \in [Attempts -> Locations] /\ pc'[a] = l /\ Alone(a)
           /\ (l \notin {"absent", "offered"}) => (a \in stale' => StaleOf(a)')
<1>1. /\ pc' \in [Attempts -> Locations]
      /\ \A b \in Attempts \ {a} : pc'[b] = pc[b]
      /\ pc'[a] = l
  BY GoneOn
<1>2. Alone(a) BY <1>1 DEF Alone
<1>3. ASSUME l \notin {"absent", "offered"}, a \in stale' PROVE StaleOf(a)'
  BY <1>1, <1>3 DEF StaleOf, Base, Accepted, Lookups
<1>. QED BY <1>1, <1>2, <1>3

LEMMA GetHasBase ==
    ASSUME Base, NEW a \in Attempts, GetHas(a)
    PROVE  Base' /\ Alone(a)
<1>1. /\ pc[a] = "has" /\ UNCHANGED <<loot, keys, logins, tally, counters, via, login, stale>>
      /\ raced \subseteq raced' /\ raced' \subseteq Hosts
  BY DEF GetHas, Base, LoginsTypeOK
<1>2. PICK l \in {"create", "get"} :
          Goto(a, l) /\ (l = "get" => logins[HostOf[a]] # NoLogin)
  BY DEF GetHas
<1>3. l \in Locations \ Lookups BY DEF Locations, Lookups
<1>4. /\ pc' \in [Attempts -> Locations] /\ pc'[a] = l /\ Alone(a)
      /\ a \in stale' => StaleOf(a)'
  BY <1>1, <1>2, <1>3, MoveKeeps
<1>5. LoginsTypeOK' /\ LoginOwner' BY <1>1, <1>4 DEF Base, LoginsTypeOK, LoginOwner
<1>6. ControlOf(a)' BY <1>1, <1>2, <1>4 DEF Base, ControlOf
<1>. QED BY <1>4, <1>5, <1>6, OthersKeep

LEMMA GetCreateBase ==
    ASSUME Base, NEW a \in Attempts, GetCreate(a)
    PROVE  Base' /\ Alone(a)
<1>1. /\ pc[a] = "create" /\ Goto(a, "get")
      /\ logins' = [logins EXCEPT ![HostOf[a]] = a]
      /\ tally' = [tally EXCEPT ![a] = [failure |-> 0, success |-> 0]]
      /\ UNCHANGED <<loot, keys, counters, via, login, stale, raced>>
  BY DEF GetCreate
<1>2. "get" \in Locations \ Lookups BY DEF Locations, Lookups
<1>3. /\ HostOf[a] \in Hosts /\ a # NoLogin
      /\ \A h \in Hosts : logins'[h] = IF h = HostOf[a] THEN a ELSE logins[h]
  BY <1>1, HostOfType, AttemptsAssumption DEF Base, LoginsTypeOK
<1>4. /\ pc' \in [Attempts -> Locations] /\ pc'[a] = "get" /\ Alone(a)
      /\ a \in stale' => StaleOf(a)'
  BY <1>1, <1>2, <1>3, MoveKeeps
<1>5. logins' \in [Hosts -> Attempts \cup {NoLogin}]
  BY <1>1 DEF Base, LoginsTypeOK
<1>6. tally' \in [Attempts -> [failure : Nat, success : Nat]]
  BY <1>1 DEF Base, LoginsTypeOK
<1>7. LoginsTypeOK' BY <1>1, <1>4, <1>5, <1>6 DEF Base, LoginsTypeOK
<1>8. LoginOwner' BY <1>3 DEF Base, LoginOwner
<1>9. ControlOf(a)' BY <1>1, <1>3, <1>4 DEF Base, ControlOf
<1>. QED BY <1>4, <1>7, <1>8, <1>9, OthersKeep

LEMMA GetReturnBase ==
    ASSUME Base, NEW a \in Attempts, GetReturn(a)
    PROVE  Base' /\ Alone(a) /\ login'[a] = logins[HostOf[a]] /\ pc'[a] = "lock"
<1>1. /\ pc[a] = "get" /\ Goto(a, "lock")
      /\ login' = [login EXCEPT ![a] = logins[HostOf[a]]]
      /\ UNCHANGED <<loot, keys, logins, tally, counters, via, stale, raced>>
  BY DEF GetReturn
<1>2. "lock" \in Locations \ Lookups BY DEF Locations, Lookups
<1>3. /\ HostOf[a] \in Hosts /\ login'[a] = logins[HostOf[a]]
      /\ \A b \in Attempts \ {a} : login'[b] = login[b]
      /\ login' \in [Attempts -> Attempts \cup {NoLogin}]
  BY <1>1, HostOfType DEF Base, LoginsTypeOK
<1>4. /\ pc' \in [Attempts -> Locations] /\ pc'[a] = "lock" /\ Alone(a)
      /\ a \in stale' => StaleOf(a)'
  BY <1>1, <1>2, <1>3, MoveKeeps
<1>5. LoginsTypeOK' /\ LoginOwner'
  BY <1>1, <1>3, <1>4 DEF Base, LoginsTypeOK, LoginOwner
<1>6. logins[HostOf[a]] \in Attempts /\ HostOf[logins[HostOf[a]]] = HostOf[a]
  <2>1. HostOf[a] \notin Whitelisted /\ (HostOf[a] \in Whitelisted \/ logins[HostOf[a]] # NoLogin)
    BY <1>1 DEF Base, ControlOf
  <2>2. logins[HostOf[a]] \in Attempts \cup {NoLogin}
    BY <1>3 DEF Base, LoginsTypeOK
  <2>. QED BY <1>3, <2>1, <2>2 DEF Base, LoginOwner
<1>7. ControlOf(a)' BY <1>1, <1>3, <1>4, <1>6 DEF Base, ControlOf
<1>. QED BY <1>3, <1>4, <1>5, <1>7, OthersKeep

LEMMA CountLoginBase ==
    ASSUME Base, NEW a \in Attempts, CountLogin(a)
    PROVE  Base' /\ Alone(a) /\ pc'[a] = "outcome"
<1>1. /\ pc[a] = "lock" /\ Goto(a, "outcome")
      /\ counters' = [counters EXCEPT !.logins = @ + 1]
      /\ UNCHANGED <<loot, keys, logins, tally, via, login, stale, raced>>
  BY DEF CountLogin
<1>2. "outcome" \in Locations \ Lookups BY DEF Locations, Lookups
<1>3. /\ pc' \in [Attempts -> Locations] /\ pc'[a] = "outcome" /\ Alone(a)
      /\ a \in stale' => StaleOf(a)'
  BY <1>1, <1>2, MoveKeeps
<1>4. counters' \in [logins : Nat, failed : Nat, successful : Nat]
  BY <1>1 DEF Base, LoginsTypeOK
<1>5. LoginsTypeOK' /\ LoginOwner'
  BY <1>1, <1>3, <1>4 DEF Base, LoginsTypeOK, LoginOwner
<1>6. ControlOf(a)' BY <1>1, <1>3 DEF Base, ControlOf
<1>. QED BY <1>3, <1>5, <1>6, OthersKeep

LEMMA CountOutcomeBase ==
    ASSUME Base, NEW a \in Attempts, CountOutcome(a)
    PROVE  Base' /\ Alone(a) /\ pc'[a] = "add"
<1>1. /\ pc[a] = "outcome" /\ Goto(a, "add")
      /\ \/ counters' = [counters EXCEPT !.successful = @ + 1]
         \/ counters' = [counters EXCEPT !.failed = @ + 1]
      /\ UNCHANGED <<loot, keys, logins, tally, via, login, stale, raced>>
  BY DEF CountOutcome
<1>2. "add" \in Locations \ Lookups BY DEF Locations, Lookups
<1>3. /\ pc' \in [Attempts -> Locations] /\ pc'[a] = "add" /\ Alone(a)
      /\ a \in stale' => StaleOf(a)'
  BY <1>1, <1>2, MoveKeeps
<1>4. counters' \in [logins : Nat, failed : Nat, successful : Nat]
  BY <1>1 DEF Base, LoginsTypeOK
<1>5. LoginsTypeOK' /\ LoginOwner'
  BY <1>1, <1>3, <1>4 DEF Base, LoginsTypeOK, LoginOwner
<1>6. ControlOf(a)' BY <1>1, <1>3 DEF Base, ControlOf
<1>. QED BY <1>3, <1>5, <1>6, OthersKeep

LEMMA AddToLoginBase ==
    ASSUME Base, NEW a \in Attempts, AddToLogin(a)
    PROVE  Base' /\ Alone(a) /\ pc'[a] = "done"
<1>1. /\ pc[a] = "add" /\ Goto(a, "done")
      /\ login' = [login EXCEPT ![a] = NoLogin]
      /\ UNCHANGED <<loot, keys, logins, counters, via, stale, raced>>
  BY DEF AddToLogin
<1>2. "done" \in Locations \ Lookups BY DEF Locations, Lookups
<1>3. /\ \A b \in Attempts \ {a} : login'[b] = login[b]
      /\ login' \in [Attempts -> Attempts \cup {NoLogin}]
  BY <1>1 DEF Base, LoginsTypeOK
<1>4. /\ pc' \in [Attempts -> Locations] /\ pc'[a] = "done" /\ Alone(a)
      /\ a \in stale' => StaleOf(a)'
  BY <1>1, <1>2, <1>3, MoveKeeps
<1>5. tally' \in [Attempts -> [failure : Nat, success : Nat]]
  <2>1. login[a] \in Attempts BY <1>1 DEF Base, ControlOf
  <2>2. tally[login[a]] \in [failure : Nat, success : Nat]
    BY <2>1 DEF Base, LoginsTypeOK
  <2>3. \/ tally' = [tally EXCEPT ![login[a]].success = @ + 1]
        \/ tally' = [tally EXCEPT ![login[a]].failure = @ + 1]
    BY DEF AddToLogin
  <2>. QED BY <2>1, <2>2, <2>3 DEF Base, LoginsTypeOK
<1>6. LoginsTypeOK' /\ LoginOwner'
  BY <1>1, <1>3, <1>4, <1>5 DEF Base, LoginsTypeOK, LoginOwner
<1>7. ControlOf(a)' BY <1>1, <1>4 DEF Base, ControlOf
<1>. QED BY <1>4, <1>6, <1>7, OthersKeep

-----------------------------------------------------------------------------
(* Sums                                                                    *)

\* The units of a function.
LEMMA UnitsOf ==
    ASSUME NEW f, NEW u
    PROVE  u \in Units(f) <=> \E x \in DOMAIN f : \E k \in 1..f[x] : u = <<x, k>>
BY DEF Units

\* Nothing has no units.
LEMMA UnitsEmpty == \A f : DOMAIN f = {} => Units(f) = {} /\ SumOf(f) = 0
BY FS_EmptySet DEF Units, SumOf

\* A function that is nowhere smaller has all the units.
LEMMA UnitsGrow ==
    ASSUME NEW S, NEW f \in [S -> Nat], NEW T, NEW g \in [T -> Nat],
           \A x \in S : f[x] = 0 \/ (x \in T /\ f[x] <= g[x])
    PROVE  Units(f) \subseteq Units(g)
<1>. SUFFICES ASSUME NEW u \in Units(f) PROVE u \in Units(g) OBVIOUS
<1>1. PICK x \in S : \E k \in 1..f[x] : u = <<x, k>> BY UnitsOf
<1>2. PICK k \in 1..f[x] : u = <<x, k>> BY <1>1
<1>3. f[x] \in Nat /\ f[x] # 0 BY <1>2
<1>4. x \in T /\ f[x] <= g[x] BY <1>3
<1>5. g[x] \in Nat BY <1>4
<1>6. k \in 1..g[x] BY <1>2, <1>4, <1>5, <1>3
<1>. QED BY <1>2, <1>4, <1>6, UnitsOf

\* One more of something is one more unit.
LEMMA UnitsMore ==
    ASSUME NEW S, NEW f \in [S -> Nat], NEW x \in S, NEW g \in [S -> Nat],
           g[x] = f[x] + 1, \A y \in S \ {x} : g[y] = f[y], IsFiniteSet(Units(f))
    PROVE  IsFiniteSet(Units(g)) /\ SumOf(g) = SumOf(f) + 1
<1>1. f[x] \in Nat /\ DOMAIN g = S
  OBVIOUS
<1>2. Units(g) = Units(f) \cup {<<x, f[x] + 1>>}
  <2>1. ASSUME NEW u \in Units(g) PROVE u \in Units(f) \cup {<<x, f[x] + 1>>}
    <3>1. PICK y \in S : \E k \in 1..g[y] : u = <<y, k>> BY <1>1, UnitsOf
    <3>2. PICK k \in 1..g[y] : u = <<y, k>> BY <3>1
    <3>3. CASE y # x
      <4>1. k \in 1..f[y] BY <1>1, <3>3
      <4>. QED BY <3>2, <4>1, UnitsOf
    <3>4. CASE y = x
      <4>1. k \in 1..f[x] \/ k = f[x] + 1 BY <1>1, <3>4
      <4>. QED BY <3>2, <3>4, <4>1, UnitsOf
    <3>. QED BY <3>3, <3>4
  <2>2. ASSUME NEW u \in Units(f) PROVE u \in Units(g)
    <3>1. PICK y \in S : \E k \in 1..f[y] : u = <<y, k>> BY UnitsOf
    <3>2. PICK k \in 1..f[y] : u = <<y, k>> BY <3>1
    <3>3. f[y] \in Nat /\ k \in 1..g[y] BY <1>1
    <3>. QED BY <1>1, <3>2, <3>3, UnitsOf
  <2>3. <<x, f[x] + 1>> \in Units(g)
    <3>1. f[x] + 1 \in 1..g[x] BY <1>1
    <3>2. \E y \in DOMAIN g : \E k \in 1..g[y] : <<x, f[x] + 1>> = <<y, k>>
      BY <1>1, <3>1
    <3>. QED BY <3>2, UnitsOf
  <2>. QED BY <2>1, <2>2, <2>3
<1>3. <<x, f[x] + 1>> \notin Units(f)
  <2>. SUFFICES ASSUME <<x, f[x] + 1>> \in Units(f) PROVE FALSE OBVIOUS
  <2>1. PICK y \in S : \E k \in 1..f[y] : <<x, f[x] + 1>> = <<y, k>> BY UnitsOf
  <2>2. PICK k \in 1..f[y] : <<x, f[x] + 1>> = <<y, k>> BY <2>1
  <2>3. y = x /\ k = f[x] + 1 BY <2>2
  <2>. QED BY <1>1, <2>2, <2>3
<1>. DEFINE w == <<x, f[x] + 1>>
<1>. HIDE DEF w
<1>4. /\ IsFiniteSet(Units(f) \cup {w})
      /\ Cardinality(Units(f) \cup {w})
           = IF w \in Units(f) THEN Cardinality(Units(f)) ELSE Cardinality(Units(f)) + 1
  BY FS_AddElement
<1>5. w \notin Units(f) /\ Units(g) = Units(f) \cup {w} BY <1>2, <1>3 DEF w
<1>. QED BY <1>4, <1>5 DEF SumOf

\* Sums of functions that are nowhere smaller.
LEMMA SumGrows ==
    ASSUME NEW S, NEW f \in [S -> Nat], NEW T, NEW g \in [T -> Nat],
           \A x \in S : f[x] = 0 \/ (x \in T /\ f[x] <= g[x]),
           IsFiniteSet(Units(g))
    PROVE  IsFiniteSet(Units(f)) /\ SumOf(f) <= SumOf(g)
BY UnitsGrow, FS_Subset DEF SumOf

-----------------------------------------------------------------------------
(* What the counters count                                                 *)

SettledIn   == {a \in Settled : Accepted(a)}
SettledOut  == {a \in Settled : ~Accepted(a)}
FinishedIn  == {a \in Finished : Accepted(a)}
FinishedOut == {a \in Finished : ~Accepted(a)}
Sets == <<Counted, SettledIn, SettledOut, FinishedIn, FinishedOut>>

OfHost(h) == {a \in Attempts : HostOf[a] = h}

\* The attempts are finite, so every set of them can be counted.
LEMMA AttemptsFinite ==
    \A X \in SUBSET Attempts : IsFiniteSet(X) /\ Cardinality(X) \in Nat
BY AttemptsAssumption, FS_Subset, FS_CardinalityType

LEMMA SetsType ==
    /\ Counted \subseteq Attempts /\ SettledIn \subseteq Attempts
    /\ SettledOut \subseteq Attempts /\ FinishedIn \subseteq SettledIn
    /\ FinishedOut \subseteq SettledOut
BY DEF Counted, Settled, Finished, SettledIn, SettledOut, FinishedIn, FinishedOut

\* A step before the counting leaves the sets alone.
LEMMA EarlyStep ==
    ASSUME Base, NEW a \in Attempts, Alone(a),
           pc[a] \notin {"outcome", "add", "done"},
           pc'[a] \notin {"outcome", "add", "done"}
             \/ (pc'[a] = "done" /\ HostOf[a] \in Whitelisted)
    PROVE  UNCHANGED Sets
<1>1. Counted' = Counted BY DEF Alone, Counted
<1>2. \A b \in Counted : b # a /\ pc'[b] = pc[b] /\ via'[b] = via[b]
  BY DEF Alone, Counted
<1>3. Settled' = Settled /\ Finished' = Finished
  BY <1>1, <1>2 DEF Settled, Finished
<1>. QED
  BY <1>1, <1>2, <1>3
  DEF Sets, SettledIn, SettledOut, FinishedIn, FinishedOut, Accepted, Settled,
      Finished

\* The increments, each in its critical section.
LEMMA CountLoginSets ==
    ASSUME Base, NEW a \in Attempts, CountLogin(a)
    PROVE  /\ Counted' = Counted \cup {a} /\ a \notin Counted
           /\ UNCHANGED <<SettledIn, SettledOut, FinishedIn, FinishedOut>>
<1>1. /\ Alone(a) /\ pc[a] = "lock" /\ pc'[a] = "outcome" /\ via' = via
      /\ HostOf[a] \notin Whitelisted
  BY CountLoginBase DEF CountLogin, Base, ControlOf
<1>2. Counted' = Counted \cup {a} /\ a \notin Counted BY <1>1 DEF Alone, Counted
<1>3. \A b \in Counted : pc'[b] = pc[b] BY <1>1, <1>2 DEF Alone, Counted
<1>4. Settled' = Settled /\ Finished' = Finished
  BY <1>1, <1>2, <1>3 DEF Settled, Finished
<1>. QED
  BY <1>1, <1>2, <1>4
  DEF SettledIn, SettledOut, FinishedIn, FinishedOut, Accepted

LEMMA CountOutcomeSets ==
    ASSUME Base, NEW a \in Attempts, CountOutcome(a)
    PROVE  /\ UNCHANGED <<Counted, FinishedIn, FinishedOut>>
           /\ a \notin Settled
           /\ SettledIn' = IF Accepted(a) THEN SettledIn \cup {a} ELSE SettledIn
           /\ SettledOut' = IF Accepted(a) THEN SettledOut ELSE SettledOut \cup {a}
<1>1. /\ Alone(a) /\ pc[a] = "outcome" /\ pc'[a] = "add" /\ via' = via
      /\ HostOf[a] \notin Whitelisted
  BY CountOutcomeBase DEF CountOutcome, Base, ControlOf
<1>2. Counted' = Counted BY <1>1 DEF Alone, Counted
<1>3. Settled' = Settled \cup {a} /\ a \notin Settled
  BY <1>1 DEF Alone, Settled, Counted
<1>4. Finished' = Finished BY <1>1 DEF Alone, Finished, Settled, Counted
<1>. QED
  BY <1>1, <1>2, <1>3, <1>4
  DEF SettledIn, SettledOut, FinishedIn, FinishedOut, Accepted

LEMMA AddToLoginSets ==
    ASSUME Base, NEW a \in Attempts, AddToLogin(a)
    PROVE  /\ UNCHANGED <<Counted, SettledIn, SettledOut>>
           /\ a \notin Finished
           /\ FinishedIn' = IF Accepted(a) THEN FinishedIn \cup {a} ELSE FinishedIn
           /\ FinishedOut' = IF Accepted(a) THEN FinishedOut ELSE FinishedOut \cup {a}
<1>1. /\ Alone(a) /\ pc[a] = "add" /\ pc'[a] = "done" /\ via' = via
      /\ HostOf[a] \notin Whitelisted
  BY AddToLoginBase DEF AddToLogin, Base, ControlOf
<1>2. Counted' = Counted BY <1>1 DEF Alone, Counted
<1>3. Settled' = Settled BY <1>1 DEF Alone, Settled, Counted
<1>4. Finished' = Finished \cup {a} /\ a \notin Finished
  BY <1>1 DEF Alone, Finished, Settled, Counted
<1>. QED
  BY <1>1, <1>2, <1>3, <1>4
  DEF SettledIn, SettledOut, FinishedIn, FinishedOut, Accepted

-----------------------------------------------------------------------------
(* The Logins that the map holds                                           *)

Fields == {"success", "failure"}

\* What the Logins in the map have counted, host by host.
TallyOf(f) == [h \in Registered |-> tally[logins[h]][f]]

LEMMA TallyType ==
    ASSUME Base, NEW f \in Fields
    PROVE  /\ TallyOf(f) \in [Registered -> Nat]
           /\ \A h \in Registered : /\ h \in Hosts /\ logins[h] \in Attempts
                                    /\ TallyOf(f)[h] = tally[logins[h]][f]
                                    /\ tally[logins[h]][f] \in Nat
<1>1. \A h \in Registered : h \in Hosts /\ logins[h] \in Attempts
  BY DEF Registered, Base, LoginsTypeOK
<1>2. \A a \in Attempts : tally[a][f] \in Nat
  BY DEF Fields, Base, LoginsTypeOK
<1>. QED BY <1>1, <1>2 DEF TallyOf

TalliesTyped == \A f \in Fields : TallyOf(f) \in [Registered -> Nat]

LEMMA TallyTyped == Base => TalliesTyped
BY TallyType DEF TalliesTyped

\* The attempts that a field of the Logins counts.
Done(f) == IF f = "success" THEN FinishedIn ELSE FinishedOut

\* The Logins together never count more than was finished.
SumsBehind ==
    \A f \in Fields : /\ IsFiniteSet(Units(TallyOf(f)))
                      /\ SumOf(TallyOf(f)) <= Cardinality(Done(f))

\* A host whose first logins did not meet in Get has one Login, which knows
\* all that finished.
RaceOf(h) ==
    /\ \A a, b \in Creating(h) : a = b
    /\ Creating(h) # {} => logins[h] = NoLogin
    /\ \A a \in Attempts : HostOf[a] = h /\ pc[a] \in {"lock", "outcome", "add"}
          => login[a] = logins[h]
    /\ logins[h] # NoLogin =>
          \A f \in Fields :
              tally[logins[h]][f] = Cardinality(Done(f) \cap OfHost(h))

\* The counters as named sets.
Exact == /\ counters.logins = Cardinality(Counted)
         /\ counters.failed = Cardinality(SettledOut)
         /\ counters.successful = Cardinality(SettledIn)

LInv == /\ Base /\ Exact /\ SumsBehind
        /\ \A h \in Hosts \ raced : RaceOf(h)

\* What the statistics may rely on: nothing counted is taken back, unless two
\* first logins have met.
Grows ==
    /\ counters.logins <= counters'.logins
    /\ \A f \in Fields : Cardinality(Done(f)) <= Cardinality(Done(f)')
    /\ raced' = {} => /\ raced = {}
                      /\ \A f \in Fields : SumOf(TallyOf(f)) <= SumOf(TallyOf(f)')

LEMMA DoneType ==
    \A f \in Fields : IsFiniteSet(Done(f)) /\ Cardinality(Done(f)) \in Nat
BY AttemptsFinite, SetsType DEF Done

LEMMA SumNat ==
    ASSUME SumsBehind, NEW f \in Fields
    PROVE  SumOf(TallyOf(f)) \in Nat
BY FS_CardinalityType DEF SumsBehind, SumOf

\* This is what the run checks.
LEMMA ExactSets == CountersExact <=> Exact
BY DEF CountersExact, Exact, SettledIn, SettledOut

\* A step that leaves Logins, counters and counted attempts alone.
LEMMA SameCounts ==
    ASSUME LInv, UNCHANGED <<logins, tally, counters, Sets>>,
           raced \subseteq raced', raced' \subseteq Hosts
    PROVE  Exact' /\ SumsBehind' /\ Grows
<1>1. Exact' BY DEF LInv, Sets, Exact
<1>2. \A f \in Fields : TallyOf(f)' = TallyOf(f) /\ Done(f)' = Done(f)
  BY DEF TallyOf, Registered, Done, Sets
<1>3. SumsBehind' BY <1>2 DEF LInv, SumsBehind
<1>4. counters.logins \in Nat BY DEF LInv, Base, LoginsTypeOK
<1>5. \A f \in Fields : Cardinality(Done(f)) \in Nat /\ SumOf(TallyOf(f)) \in Nat
  BY DoneType, SumNat DEF LInv
<1>6. Grows
  <2>1. counters.logins <= counters'.logins BY <1>4
  <2>2. \A f \in Fields : /\ Cardinality(Done(f)) <= Cardinality(Done(f)')
                          /\ SumOf(TallyOf(f)) <= SumOf(TallyOf(f)')
    BY <1>2, <1>5
  <2>. QED BY <2>1, <2>2 DEF Grows
<1>. QED BY <1>1, <1>3, <1>6

\* A host keeps its Login and its attempts their places in Get.
LEMMA SameRace ==
    ASSUME LInv, NEW h \in Hosts \ raced, UNCHANGED <<logins, tally, Sets>>,
           \A b \in Attempts : pc'[b] = "create" => pc[b] = "create",
           \A b \in Attempts : HostOf[b] = h /\ pc'[b] \in {"lock", "outcome", "add"}
               => login'[b] = logins[h]
    PROVE  RaceOf(h)'
<1>1. RaceOf(h) BY DEF LInv
<1>2. Creating(h)' \subseteq Creating(h) BY DEF Creating
<1>3. \A f \in Fields : Done(f)' = Done(f) BY DEF Done, Sets
<1>4. OfHost(h)' = OfHost(h) BY DEF OfHost
<1>5. \A a, b \in Creating(h)' : a = b BY <1>1, <1>2 DEF RaceOf
<1>6. Creating(h)' # {} => logins'[h] = NoLogin BY <1>1, <1>2 DEF RaceOf
<1>7. logins'[h] # NoLogin =>
          \A f \in Fields : tally'[logins'[h]][f] = Cardinality(Done(f)' \cap OfHost(h)')
  BY <1>1, <1>3, <1>4 DEF RaceOf
<1>. QED BY <1>5, <1>6, <1>7 DEF RaceOf

\* Lookups and collecting count nothing.
LEMMA QuietStep ==
    ASSUME LInv, NEW a \in Attempts, Base', Alone(a),
           UNCHANGED <<logins, tally, counters, raced, login>>, pc[a] \notin Late,
           pc'[a] \notin Late \/ (pc'[a] = "done" /\ HostOf[a] \in Whitelisted)
    PROVE  LInv' /\ Grows
<1>1. UNCHANGED Sets BY EarlyStep DEF LInv, Late
<1>2. raced' \subseteq Hosts BY DEF LInv, Base, LoginsTypeOK
<1>3. Exact' /\ SumsBehind' /\ Grows BY <1>1, <1>2, SameCounts
<1>4. ASSUME NEW h \in Hosts \ raced PROVE RaceOf(h)'
  <2>1. \A b \in Attempts : pc'[b] \in {"create", "lock", "outcome", "add"} => pc'[b] = pc[b]
    BY DEF Alone, Late
  <2>2. \A b \in Attempts : HostOf[b] = h /\ pc[b] \in {"lock", "outcome", "add"}
           => login[b] = logins[h]
    BY DEF LInv, RaceOf
  <2>. QED BY <1>1, <2>1, <2>2, SameRace
<1>. QED BY <1>3, <1>4 DEF LInv

LEMMA SyncAddInv ==
    ASSUME LInv, NEW i \in Learned, SyncAdd(i)
    PROVE  LInv' /\ Grows
<1>1. Base' /\ UNCHANGED <<logins, tally, counters, pc, via, login, raced>>
  BY SyncAddBase DEF LInv
<1>2. UNCHANGED Sets
  BY <1>1
  DEF Sets, Counted, Settled, Finished, SettledIn, SettledOut, FinishedIn,
      FinishedOut, Accepted
<1>3. raced' \subseteq Hosts BY <1>1 DEF LInv, Base, LoginsTypeOK
<1>4. Exact' /\ SumsBehind' /\ Grows BY <1>1, <1>2, <1>3, SameCounts
<1>5. ASSUME NEW h \in Hosts \ raced PROVE RaceOf(h)'
  <2>1. RaceOf(h) BY DEF LInv
  <2>. QED BY <1>1, <1>2, <2>1, SameRace DEF RaceOf
<1>. QED BY <1>1, <1>4, <1>5 DEF LInv

\* Get finds a Login or goes on to make one; a second one who does is noted.
LEMMA GetHasInv ==
    ASSUME LInv, NEW a \in Attempts, GetHas(a)
    PROVE  LInv' /\ Grows
<1>1. /\ Base' /\ Alone(a) /\ pc[a] = "has" /\ Base
      /\ UNCHANGED <<logins, tally, counters, login>>
  BY GetHasBase DEF LInv, GetHas
<1>2. pc'[a] = IF logins[HostOf[a]] = NoLogin THEN "create" ELSE "get"
  BY <1>1 DEF GetHas, Goto, Base, LoginsTypeOK
<1>3. UNCHANGED Sets
  <2>1. /\ pc[a] \notin {"outcome", "add", "done"}
        /\ pc'[a] \notin {"outcome", "add", "done"}
    BY <1>1, <1>2
  <2>. QED BY <1>1, <2>1, EarlyStep
<1>4. raced \subseteq raced' /\ raced' \subseteq Hosts
  BY <1>1 DEF GetHas, Base, LoginsTypeOK
<1>5. Exact' /\ SumsBehind' /\ Grows BY <1>1, <1>3, <1>4, SameCounts
<1>6. ASSUME NEW h \in Hosts \ raced' PROVE RaceOf(h)'
  <2>1. RaceOf(h) BY <1>4, <1>6 DEF LInv
  <2>2. /\ \A f \in Fields : Done(f)' = Done(f)
        /\ OfHost(h)' = OfHost(h)
    BY <1>3 DEF Done, Sets, OfHost
  <2>3. ~(Cardinality(Creating(h)') > 1) BY <1>6 DEF GetHas
  <2>4. \A b, c \in Creating(h)' : b = c
    <3>. SUFFICES ASSUME NEW b \in Creating(h)', NEW c \in Creating(h)', b # c
                  PROVE  FALSE
      OBVIOUS
    <3>1. Creating(h)' \in SUBSET Attempts BY DEF Creating
    <3>2. IsFiniteSet(Creating(h)') /\ Cardinality(Creating(h)') \in Nat
      BY <3>1, AttemptsFinite
    <3>3. {b, c} \in SUBSET Creating(h)' OBVIOUS
    <3>4. Cardinality({b, c}) = 2
      <4>1. IsFiniteSet({b}) /\ Cardinality({b}) = 1 BY FS_Singleton
      <4>2. Cardinality({b} \cup {c}) = 1 + 1 BY <4>1, FS_AddElement
      <4>3. {b, c} = {b} \cup {c} OBVIOUS
      <4>. QED BY <4>2, <4>3
    <3>5. 2 <= Cardinality(Creating(h)') BY <3>2, <3>3, <3>4, FS_Subset
    <3>. QED BY <2>3, <3>2, <3>5
  <2>5. Creating(h)' # {} => logins'[h] = NoLogin
    <3>1. Creating(h)' \subseteq Creating(h) \cup {a} BY <1>1 DEF Alone, Creating
    <3>2. a \in Creating(h)' => logins[h] = NoLogin BY <1>2 DEF Creating
    <3>. QED BY <1>1, <2>1, <3>1, <3>2 DEF RaceOf
  <2>6. \A b \in Attempts : pc'[b] \in {"lock", "outcome", "add"} => pc'[b] = pc[b]
    BY <1>1, <1>2 DEF Alone
  <2>7. \A b \in Attempts : HostOf[b] = h /\ pc'[b] \in {"lock", "outcome", "add"}
          => login'[b] = logins'[h]
    BY <1>1, <2>1, <2>6 DEF RaceOf
  <2>8. logins'[h] # NoLogin =>
            \A f \in Fields : tally'[logins'[h]][f] = Cardinality(Done(f)' \cap OfHost(h)')
    BY <1>1, <2>1, <2>2 DEF RaceOf
  <2>. QED BY <2>4, <2>5, <2>7, <2>8 DEF RaceOf
<1>. QED BY <1>1, <1>5, <1>6 DEF LInv

\* Get returns the Login that the map holds.
LEMMA GetReturnInv ==
    ASSUME LInv, NEW a \in Attempts, GetReturn(a)
    PROVE  LInv' /\ Grows
<1>1. /\ Base' /\ Alone(a) /\ pc[a] = "get" /\ pc'[a] = "lock" /\ Base
      /\ login'[a] = logins[HostOf[a]]
      /\ UNCHANGED <<logins, tally, counters, raced>>
  BY GetReturnBase DEF LInv, GetReturn
<1>2. UNCHANGED Sets
  <2>1. /\ pc[a] \notin {"outcome", "add", "done"}
        /\ pc'[a] \notin {"outcome", "add", "done"}
    BY <1>1
  <2>. QED BY <1>1, <2>1, EarlyStep
<1>3. raced' \subseteq Hosts BY <1>1 DEF Base, LoginsTypeOK
<1>4. Exact' /\ SumsBehind' /\ Grows BY <1>1, <1>2, <1>3, SameCounts
<1>5. ASSUME NEW h \in Hosts \ raced PROVE RaceOf(h)'
  <2>1. \A b \in Attempts : pc'[b] = "create" => pc[b] = "create"
    BY <1>1 DEF Alone
  <2>2. \A b \in Attempts : HostOf[b] = h /\ pc'[b] \in {"lock", "outcome", "add"}
          => login'[b] = logins[h]
    BY <1>1 DEF Alone, LInv, RaceOf
  <2>. QED BY <1>1, <1>2, <2>1, <2>2, SameRace
<1>. QED BY <1>1, <1>4, <1>5 DEF LInv

\* A new Login: unless the map held one, nothing counted is lost.
LEMMA GetCreateInv ==
    ASSUME LInv, NEW a \in Attempts, GetCreate(a)
    PROVE  LInv' /\ Grows
<1>. DEFINE o == HostOf[a]
<1>1. /\ Base' /\ Alone(a) /\ pc[a] = "create" /\ Base
      /\ UNCHANGED <<counters, via, login, raced>>
      /\ logins' = [logins EXCEPT ![o] = a]
      /\ tally' = [tally EXCEPT ![a] = [failure |-> 0, success |-> 0]]
  BY GetCreateBase DEF LInv, GetCreate
<1>2. /\ o \in Hosts /\ a # NoLogin
      /\ \A h \in Hosts : logins'[h] = IF h = o THEN a ELSE logins[h]
      /\ \A b \in Attempts \ {a} : tally'[b] = tally[b]
      /\ \A f \in Fields : tally'[a][f] = 0
  BY <1>1, HostOfType, AttemptsAssumption DEF Base, LoginsTypeOK, Fields
<1>3. pc'[a] = "get" BY <1>1 DEF GetCreate, Goto, Base, LoginsTypeOK
<1>4. UNCHANGED Sets
  <2>1. /\ pc[a] \notin {"outcome", "add", "done"}
        /\ pc'[a] \notin {"outcome", "add", "done"}
    BY <1>1, <1>3
  <2>. QED BY <1>1, <2>1, EarlyStep
<1>5. \A f \in Fields : Done(f)' = Done(f) BY <1>4 DEF Done, Sets
<1>. HIDE DEF o
<1>6. Exact' BY <1>1, <1>4 DEF LInv, Exact, Sets
<1>7. \A h \in Hosts \ {o} : logins[h] # a
  BY AttemptsAssumption DEF Base, LoginOwner, LInv, o
<1>8. ASSUME NEW f \in Fields
      PROVE  /\ TallyOf(f) \in [Registered -> Nat]
             /\ TallyOf(f)' \in [Registered' -> Nat]
             /\ \A h \in Registered' : h # o =>
                   h \in Registered /\ TallyOf(f)'[h] = TallyOf(f)[h]
             /\ \A h \in Registered : h # o =>
                   h \in Registered' /\ TallyOf(f)'[h] = TallyOf(f)[h]
             /\ o \in Registered' => TallyOf(f)'[o] = 0
  <2>1. /\ TallyOf(f) \in [Registered -> Nat]
        /\ TallyOf(f)' \in [Registered' -> Nat]
    <3>1. TalliesTyped /\ TalliesTyped' BY <1>1, TallyTyped, PTL
    <3>. QED BY <3>1 DEF TalliesTyped
  <2>2. \A h \in Hosts \ {o} : h \in Registered <=> h \in Registered'
    BY <1>2 DEF Registered
  <2>3. \A h \in Registered : h # o => logins[h] \in Attempts \ {a}
    BY <1>7 DEF Registered, LInv, Base, LoginsTypeOK
  <2>4. \A h \in Registered : h # o => TallyOf(f)'[h] = TallyOf(f)[h]
    BY <1>2, <2>2, <2>3 DEF TallyOf, Registered
  <2>5. o \in Registered' => TallyOf(f)'[o] = 0
    BY <1>2 DEF TallyOf, Registered
  <2>6. \A h : h \in Registered \/ h \in Registered' => h \in Hosts
    BY DEF Registered
  <2>. QED BY <2>1, <2>2, <2>4, <2>5, <2>6
<1>9. ASSUME NEW f \in Fields
      PROVE  IsFiniteSet(Units(TallyOf(f)')) /\ SumOf(TallyOf(f)') <= SumOf(TallyOf(f))
  <2>. DEFINE g == TallyOf(f)'
              T == Registered'
  <2>1. IsFiniteSet(Units(TallyOf(f))) BY DEF LInv, SumsBehind
  <2>2. \A h \in T : g[h] = 0 \/ (h \in Registered /\ g[h] <= TallyOf(f)[h])
    BY <1>8
  <2>3. g \in [T -> Nat] /\ TallyOf(f) \in [Registered -> Nat] BY <1>8
  <2>. HIDE DEF g, T
  <2>4. IsFiniteSet(Units(g)) /\ SumOf(g) <= SumOf(TallyOf(f))
    BY <2>1, <2>2, <2>3, SumGrows
  <2>. QED BY <2>4 DEF g
<1>10. SumsBehind'
  <2>. SUFFICES ASSUME NEW f \in Fields
                PROVE  /\ IsFiniteSet(Units(TallyOf(f)'))
                       /\ SumOf(TallyOf(f)') <= Cardinality(Done(f)')
    BY DEF SumsBehind
  <2>1. SumOf(TallyOf(f)) \in Nat /\ SumOf(TallyOf(f)) <= Cardinality(Done(f))
    BY SumNat DEF LInv, SumsBehind
  <2>2. SumOf(TallyOf(f)') \in Nat BY <1>9, FS_CardinalityType DEF SumOf
  <2>3. Cardinality(Done(f)) \in Nat BY DoneType
  <2>. QED BY <1>5, <1>9, <2>1, <2>2, <2>3
<1>11. a \in Creating(o) BY <1>1 DEF Creating, o
<1>12. o \notin raced => logins[o] = NoLogin BY <1>2, <1>11 DEF LInv, RaceOf
<1>13. Grows
  <2>1. counters.logins <= counters'.logins
    BY <1>1 DEF LInv, Base, LoginsTypeOK
  <2>2. \A f \in Fields : Cardinality(Done(f)) <= Cardinality(Done(f)')
    BY <1>5, DoneType
  <2>3. ASSUME raced' = {}, NEW f \in Fields
        PROVE  SumOf(TallyOf(f)) <= SumOf(TallyOf(f)')
    <3>. DEFINE g == TallyOf(f)'
                T == Registered'
    <3>1. o \notin Registered BY <1>1, <1>12, <2>3 DEF Registered
    <3>2. \A h \in Registered : h \in T /\ TallyOf(f)[h] <= g[h]
      BY <1>8, <3>1
    <3>3. g \in [T -> Nat] /\ TallyOf(f) \in [Registered -> Nat] BY <1>8
    <3>4. IsFiniteSet(Units(g)) BY <1>9
    <3>. HIDE DEF g, T
    <3>5. SumOf(TallyOf(f)) <= SumOf(g) BY <3>2, <3>3, <3>4, SumGrows
    <3>. QED BY <3>5 DEF g
  <2>. QED BY <1>1, <2>1, <2>2, <2>3 DEF Grows
<1>14. ASSUME NEW h \in Hosts \ raced PROVE RaceOf(h)'
  <2>1. RaceOf(h) BY DEF LInv
  <2>2. Creating(h)' = Creating(h) \ {a} BY <1>1, <1>3 DEF Creating, Alone
  <2>3. OfHost(h)' = OfHost(h) BY DEF OfHost
  <2>4. \A b \in Attempts : pc'[b] \in {"lock", "outcome", "add"} =>
           pc[b] = pc'[b] /\ login'[b] = login[b]
    BY <1>1, <1>3 DEF Alone
  <2>5. CASE h = o
    <3>1. logins[o] = NoLogin BY <1>12, <2>5
    <3>2. Creating(h)' = {} BY <1>11, <2>1, <2>2, <2>5 DEF RaceOf
    <3>3. \A b \in Attempts : HostOf[b] = o =>
             pc[b] \notin {"lock", "outcome", "add"}
      <4>1. NoLogin \notin Attempts BY AttemptsAssumption
      <4>2. \A b \in Attempts : HostOf[b] = o /\ pc[b] \in {"lock", "outcome", "add"}
               => login[b] \in Attempts /\ login[b] = NoLogin
        BY <2>1, <2>5, <3>1 DEF RaceOf, LInv, Base, ControlOf
      <4>. QED BY <4>1, <4>2
    <3>4. \A f \in Fields : Done(f) \cap OfHost(h) = {}
      <4>1. \A b \in Attempts : pc[b] = "done" /\ HostOf[b] = o => HostOf[b] \in Whitelisted
        BY <3>1 DEF LInv, Base, ControlOf
      <4>. QED
        BY <2>5, <4>1
        DEF Done, OfHost, FinishedIn, FinishedOut, Finished, Settled, Counted
    <3>5. logins'[h] = a /\ \A f \in Fields : tally'[a][f] = 0 BY <1>2, <2>5
    <3>6. \A f \in Fields : tally'[logins'[h]][f] = Cardinality(Done(f)' \cap OfHost(h)')
      BY <1>5, <2>3, <3>4, <3>5, FS_EmptySet
    <3>7. \A b \in Attempts : HostOf[b] = h /\ pc'[b] \in {"lock", "outcome", "add"}
             => login'[b] = logins'[h]
      BY <2>4, <2>5, <3>3
    <3>. QED BY <3>2, <3>6, <3>7 DEF RaceOf
  <2>6. CASE h # o
    <3>1. Creating(h)' = Creating(h) BY <2>2, <2>6 DEF Creating, o
    <3>2. logins'[h] = logins[h] BY <1>2, <2>6
    <3>3. logins[h] # NoLogin => logins[h] \in Attempts /\ logins[h] # a
      BY <1>7, <2>6 DEF LInv, Base, LoginsTypeOK
    <3>4. logins[h] # NoLogin => tally'[logins[h]] = tally[logins[h]] BY <1>2, <3>3
    <3>5. logins'[h] # NoLogin => \A f \in Fields :
              tally'[logins'[h]][f] = Cardinality(Done(f)' \cap OfHost(h)')
      BY <1>5, <2>1, <2>3, <3>2, <3>4 DEF RaceOf
    <3>6. \A b \in Attempts : HostOf[b] = h /\ pc'[b] \in {"lock", "outcome", "add"}
             => login'[b] = logins'[h]
      BY <2>1, <2>4, <3>2 DEF RaceOf
    <3>. QED BY <2>1, <3>1, <3>2, <3>5, <3>6 DEF RaceOf
  <2>. QED BY <2>5, <2>6
<1>. QED BY <1>1, <1>6, <1>10, <1>13, <1>14 DEF LInv

\* The counter of attempts goes up with the set it counts.
LEMMA CountLoginInv ==
    ASSUME LInv, NEW a \in Attempts, CountLogin(a)
    PROVE  LInv' /\ Grows
<1>1. /\ Base' /\ Alone(a) /\ pc[a] = "lock" /\ pc'[a] = "outcome" /\ Base
      /\ UNCHANGED <<logins, tally, via, login, raced>>
      /\ counters' = [counters EXCEPT !.logins = @ + 1]
  BY CountLoginBase DEF LInv, CountLogin
<1>2. /\ Counted' = Counted \cup {a} /\ a \notin Counted
      /\ UNCHANGED <<SettledIn, SettledOut, FinishedIn, FinishedOut>>
  BY CountLoginSets DEF LInv
<1>3. Cardinality(Counted') = Cardinality(Counted) + 1
  BY <1>2, SetsType, AttemptsFinite, FS_AddElement
<1>4. /\ counters'.logins = counters.logins + 1 /\ counters.logins \in Nat
      /\ counters'.failed = counters.failed
      /\ counters'.successful = counters.successful
  BY <1>1 DEF Base, LoginsTypeOK
<1>5. Exact' BY <1>2, <1>3, <1>4 DEF LInv, Exact
<1>6. \A f \in Fields : TallyOf(f)' = TallyOf(f) /\ Done(f)' = Done(f)
  BY <1>1, <1>2 DEF TallyOf, Registered, Done
<1>7. SumsBehind' BY <1>6 DEF LInv, SumsBehind
<1>8. Grows
  <2>1. counters.logins <= counters'.logins BY <1>4
  <2>2. \A f \in Fields : /\ Cardinality(Done(f)) <= Cardinality(Done(f)')
                          /\ SumOf(TallyOf(f)) <= SumOf(TallyOf(f)')
    BY <1>6, DoneType, SumNat DEF LInv
  <2>. QED BY <1>1, <2>1, <2>2 DEF Grows
<1>9. ASSUME NEW h \in Hosts \ raced PROVE RaceOf(h)'
  <2>1. RaceOf(h) BY DEF LInv
  <2>2. Creating(h)' = Creating(h) BY <1>1 DEF Creating, Alone
  <2>3. OfHost(h)' = OfHost(h) BY DEF OfHost
  <2>4. \A b \in Attempts : pc'[b] \in {"lock", "outcome", "add"} =>
           pc[b] \in {"lock", "outcome", "add"}
    BY <1>1 DEF Alone
  <2>. QED BY <1>1, <1>6, <2>1, <2>2, <2>3, <2>4 DEF RaceOf
<1>. QED BY <1>1, <1>5, <1>7, <1>8, <1>9 DEF LInv

\* So does the one of what the bot was told.
LEMMA CountOutcomeInv ==
    ASSUME LInv, NEW a \in Attempts, CountOutcome(a)
    PROVE  LInv' /\ Grows
<1>1. /\ Base' /\ Alone(a) /\ pc[a] = "outcome" /\ pc'[a] = "add" /\ Base
      /\ UNCHANGED <<logins, tally, via, login, raced>>
      /\ counters' = IF Accepted(a) THEN [counters EXCEPT !.successful = @ + 1]
                                   ELSE [counters EXCEPT !.failed = @ + 1]
  BY CountOutcomeBase DEF LInv, CountOutcome
<1>2. /\ UNCHANGED <<Counted, FinishedIn, FinishedOut>>
      /\ a \notin SettledIn /\ a \notin SettledOut
      /\ SettledIn' = IF Accepted(a) THEN SettledIn \cup {a} ELSE SettledIn
      /\ SettledOut' = IF Accepted(a) THEN SettledOut ELSE SettledOut \cup {a}
  BY CountOutcomeSets DEF LInv, SettledIn, SettledOut
<1>3. /\ Cardinality(SettledIn \cup {a}) = Cardinality(SettledIn) + 1
      /\ Cardinality(SettledOut \cup {a}) = Cardinality(SettledOut) + 1
  BY <1>2, SetsType, AttemptsFinite, FS_AddElement
<1>4. counters \in [logins : Nat, failed : Nat, successful : Nat]
  BY <1>1 DEF Base, LoginsTypeOK
<1>5. Exact'
  <2>1. CASE Accepted(a)
    <3>1. /\ counters'.logins = counters.logins /\ counters'.failed = counters.failed
          /\ counters'.successful = counters.successful + 1
      BY <1>1, <1>4, <2>1
    <3>. QED BY <1>2, <1>3, <2>1, <3>1 DEF LInv, Exact
  <2>2. CASE ~Accepted(a)
    <3>1. /\ counters'.logins = counters.logins
          /\ counters'.successful = counters.successful
          /\ counters'.failed = counters.failed + 1
      BY <1>1, <1>4, <2>2
    <3>. QED BY <1>2, <1>3, <2>2, <3>1 DEF LInv, Exact
  <2>. QED BY <2>1, <2>2
<1>6. \A f \in Fields : TallyOf(f)' = TallyOf(f) /\ Done(f)' = Done(f)
  BY <1>1, <1>2 DEF TallyOf, Registered, Done
<1>7. SumsBehind' BY <1>6 DEF LInv, SumsBehind
<1>8. Grows
  <2>1. counters.logins <= counters'.logins BY <1>1, <1>4
  <2>2. \A f \in Fields : /\ Cardinality(Done(f)) <= Cardinality(Done(f)')
                          /\ SumOf(TallyOf(f)) <= SumOf(TallyOf(f)')
    BY <1>6, DoneType, SumNat DEF LInv
  <2>. QED BY <1>1, <2>1, <2>2 DEF Grows
<1>9. ASSUME NEW h \in Hosts \ raced PROVE RaceOf(h)'
  <2>1. RaceOf(h) BY DEF LInv
  <2>2. Creating(h)' = Creating(h) BY <1>1 DEF Creating, Alone
  <2>3. OfHost(h)' = OfHost(h) BY DEF OfHost
  <2>4. \A b \in Attempts : pc'[b] \in {"lock", "outcome", "add"} =>
           pc[b] \in {"lock", "outcome", "add"}
    BY <1>1 DEF Alone
  <2>. QED BY <1>1, <1>6, <2>1, <2>2, <2>3, <2>4 DEF RaceOf
<1>. QED BY <1>1, <1>5, <1>7, <1>8, <1>9 DEF LInv

\* The field of a Login goes up with the attempts that have finished.
LEMMA AddToLoginInv ==
    ASSUME LInv, NEW a \in Attempts, AddToLogin(a)
    PROVE  LInv' /\ Grows
<1>. DEFINE o == HostOf[a]
            l == login[a]
            e == IF Accepted(a) THEN "success" ELSE "failure"
<1>1. /\ Base' /\ Alone(a) /\ pc[a] = "add" /\ pc'[a] = "done" /\ Base
      /\ UNCHANGED <<logins, counters, via, raced>>
  BY AddToLoginBase DEF LInv, AddToLogin
<1>2. l \in Attempts /\ HostOf[l] = o /\ o \in Hosts
  BY <1>1, HostOfType DEF Base, ControlOf
<1>3. /\ UNCHANGED <<Counted, SettledIn, SettledOut>> /\ a \notin Finished
      /\ FinishedIn' = IF Accepted(a) THEN FinishedIn \cup {a} ELSE FinishedIn
      /\ FinishedOut' = IF Accepted(a) THEN FinishedOut ELSE FinishedOut \cup {a}
  BY AddToLoginSets DEF LInv
<1>4. Exact' BY <1>1, <1>3 DEF LInv, Exact
<1>5. /\ \A b \in Attempts \ {l} : tally'[b] = tally[b]
      /\ \A f \in Fields : tally'[l][f] = IF f = e THEN tally[l][f] + 1 ELSE tally[l][f]
  <2>1. tally \in [Attempts -> [failure : Nat, success : Nat]]
    BY <1>1 DEF Base, LoginsTypeOK
  <2>2. CASE Accepted(a)
    <3>1. tally' = [tally EXCEPT ![l].success = @ + 1] BY <2>2 DEF AddToLogin
    <3>. QED BY <1>2, <2>1, <2>2, <3>1 DEF Fields
  <2>3. CASE ~Accepted(a)
    <3>1. tally' = [tally EXCEPT ![l].failure = @ + 1] BY <2>3 DEF AddToLogin
    <3>. QED BY <1>2, <2>1, <2>3, <3>1 DEF Fields
  <2>. QED BY <2>2, <2>3
<1>6. \A f \in Fields : /\ a \notin Done(f)
                        /\ Done(f)' = IF f = e THEN Done(f) \cup {a} ELSE Done(f)
  BY <1>3 DEF Done, FinishedIn, FinishedOut, Fields
<1>7. ASSUME NEW f \in Fields
      PROVE  /\ Cardinality(Done(f)) \in Nat
             /\ Cardinality(Done(f)') = IF f = e THEN Cardinality(Done(f)) + 1
                                                ELSE Cardinality(Done(f))
  BY <1>6, DoneType, FS_AddElement
<1>. HIDE DEF o, l, e
<1>8. TalliesTyped /\ TalliesTyped' BY <1>1, TallyTyped, PTL
<1>9. \A h \in Hosts \ {o} : logins[h] # l
  BY <1>2, AttemptsAssumption DEF LInv, Base, LoginOwner
<1>10. ASSUME NEW f \in Fields
       PROVE  /\ IsFiniteSet(Units(TallyOf(f)'))
              /\ SumOf(TallyOf(f)') =
                    IF f = e /\ logins[o] = l THEN SumOf(TallyOf(f)) + 1
                                             ELSE SumOf(TallyOf(f))
  <2>1. Registered' = Registered BY <1>1 DEF Registered
  <2>2. \A h \in Registered : logins[h] \in Attempts /\ h \in Hosts
    BY <1>1, TallyType
  <2>3. IsFiniteSet(Units(TallyOf(f))) BY DEF LInv, SumsBehind
  <2>4. \A h \in Registered : TallyOf(f)'[h] = tally'[logins[h]][f]
                            /\ TallyOf(f)[h] = tally[logins[h]][f]
    BY <1>1, <2>1 DEF TallyOf
  <2>. DEFINE g == TallyOf(f)'
  <2>5. /\ TallyOf(f) \in [Registered -> Nat] /\ g \in [Registered -> Nat]
    BY <1>8, <2>1 DEF TalliesTyped
  <2>6. CASE f = e /\ logins[o] = l
    <3>1. o \in Registered
      BY <1>2, <2>6, AttemptsAssumption DEF Registered
    <3>2. g[o] = TallyOf(f)[o] + 1 BY <1>5, <2>4, <2>6, <3>1
    <3>3. \A h \in Registered \ {o} : g[h] = TallyOf(f)[h]
      BY <1>5, <1>9, <2>2, <2>4
    <3>. HIDE DEF g
    <3>4. IsFiniteSet(Units(g)) /\ SumOf(g) = SumOf(TallyOf(f)) + 1
      BY <2>3, <2>5, <3>1, <3>2, <3>3, UnitsMore
    <3>. QED BY <2>6, <3>4 DEF g
  <2>7. CASE ~(f = e /\ logins[o] = l)
    <3>1. \A h \in Registered : g[h] = TallyOf(f)[h]
      <4>. SUFFICES ASSUME NEW h \in Registered PROVE g[h] = TallyOf(f)[h] OBVIOUS
      <4>1. CASE logins[h] = l
        <5>1. h = o BY <1>9, <2>2, <4>1
        <5>2. f # e BY <2>7, <4>1, <5>1
        <5>. QED BY <1>5, <2>4, <4>1, <5>2
      <4>2. CASE logins[h] # l BY <1>5, <2>2, <2>4, <4>2
      <4>. QED BY <4>1, <4>2
    <3>. HIDE DEF g
    <3>2. g = TallyOf(f) BY <2>5, <3>1
    <3>3. IsFiniteSet(Units(g)) /\ SumOf(g) = SumOf(TallyOf(f)) BY <2>3, <3>2
    <3>. QED BY <2>7, <3>3 DEF g
  <2>. QED BY <2>6, <2>7
<1>11. SumsBehind'
  <2>. SUFFICES ASSUME NEW f \in Fields
                PROVE  /\ IsFiniteSet(Units(TallyOf(f)'))
                       /\ SumOf(TallyOf(f)') <= Cardinality(Done(f)')
    BY DEF SumsBehind
  <2>1. SumOf(TallyOf(f)) \in Nat /\ SumOf(TallyOf(f)) <= Cardinality(Done(f))
    BY SumNat DEF LInv, SumsBehind
  <2>. QED BY <1>7, <1>10, <2>1
<1>12. Grows
  <2>1. counters.logins <= counters'.logins
    BY <1>1 DEF LInv, Base, LoginsTypeOK
  <2>2. \A f \in Fields : Cardinality(Done(f)) <= Cardinality(Done(f)') BY <1>7
  <2>3. \A f \in Fields : SumOf(TallyOf(f)) \in Nat BY SumNat DEF LInv
  <2>4. \A f \in Fields : SumOf(TallyOf(f)) <= SumOf(TallyOf(f)') BY <1>10, <2>3
  <2>. QED BY <1>1, <2>1, <2>2, <2>4 DEF Grows
<1>13. ASSUME NEW h \in Hosts \ raced PROVE RaceOf(h)'
  <2>1. RaceOf(h) BY DEF LInv
  <2>2. Creating(h)' = Creating(h) BY <1>1 DEF Creating, Alone
  <2>3. OfHost(h)' = OfHost(h) BY DEF OfHost
  <2>4. \A b \in Attempts : pc'[b] \in {"lock", "outcome", "add"} =>
           pc[b] \in {"lock", "outcome", "add"} /\ login'[b] = login[b]
    BY <1>1 DEF Alone
  <2>5. ASSUME logins[h] # NoLogin, NEW f \in Fields
        PROVE  tally'[logins[h]][f] = Cardinality(Done(f)' \cap OfHost(h))
    <3>1. tally[logins[h]][f] = Cardinality(Done(f) \cap OfHost(h))
      BY <2>1, <2>5 DEF RaceOf
    <3>2. logins[h] \in Attempts BY <2>5 DEF LInv, Base, LoginsTypeOK
    <3>3. CASE h = o
      <4>1. logins[h] = l BY <1>1, <2>1, <3>3 DEF RaceOf, o, l
      <4>2. a \in OfHost(h) BY <3>3 DEF OfHost, o
      <4>3. CASE f = e
        <5>1. Done(f)' \cap OfHost(h) = (Done(f) \cap OfHost(h)) \cup {a}
          BY <1>6, <4>2, <4>3
        <5>2. /\ IsFiniteSet(Done(f) \cap OfHost(h)) /\ a \notin Done(f) \cap OfHost(h)
          BY <1>6, DoneType, FS_Intersection
        <5>3. Cardinality(Done(f)' \cap OfHost(h)) = Cardinality(Done(f) \cap OfHost(h)) + 1
          BY <5>1, <5>2, FS_AddElement
        <5>. QED BY <1>5, <3>1, <4>1, <4>3, <5>3
      <4>4. CASE f # e BY <1>5, <1>6, <3>1, <4>1, <4>4
      <4>. QED BY <4>3, <4>4
    <3>4. CASE h # o
      <4>1. a \notin OfHost(h) BY <3>4 DEF OfHost, o
      <4>2. Done(f)' \cap OfHost(h) = Done(f) \cap OfHost(h) BY <1>6, <4>1
      <4>3. logins[h] # l BY <1>9, <3>4
      <4>. QED BY <1>5, <3>1, <3>2, <4>2, <4>3
    <3>. QED BY <3>3, <3>4
  <2>. QED BY <1>1, <2>1, <2>2, <2>3, <2>4, <2>5 DEF RaceOf
<1>. QED BY <1>1, <1>4, <1>11, <1>12, <1>13 DEF LInv

\* Any step of an attempt.
LEMMA HandleInv ==
    ASSUME LInv, NEW a \in Attempts, Handle(a)
    PROVE  LInv' /\ Grows
<1>1. Base BY DEF LInv
<1>2. CASE Look(a) BY <1>1, <1>2, LookBase, QuietStep
<1>3. CASE Collect(a) BY <1>1, <1>3, CollectBase, QuietStep
<1>4. CASE GetHas(a) BY <1>4, GetHasInv
<1>5. CASE GetCreate(a) BY <1>5, GetCreateInv
<1>6. CASE GetReturn(a) BY <1>6, GetReturnInv
<1>7. CASE CountLogin(a) BY <1>7, CountLoginInv
<1>8. CASE CountOutcome(a) BY <1>8, CountOutcomeInv
<1>9. CASE AddToLogin(a) BY <1>9, AddToLoginInv
<1>. QED
  BY <1>2, <1>3, <1>4, <1>5, <1>6, <1>7, <1>8, <1>9 DEF Handle, Look

LEMMA BeginInv ==
    ASSUME LInv, NEW a \in Attempts, Begin(a)
    PROVE  LInv' /\ Grows
<1>1. Base BY DEF LInv
<1>. QED BY <1>1, BeginBase, QuietStep

\* While the map is locked, nobody replaces a Login, and a Login only grows.
OnlyGrows ==
    /\ logins' = logins
    /\ \A b \in Attempts, f \in Fields : /\ tally[b][f] \in Nat /\ tally'[b][f] \in Nat
                                        /\ tally[b][f] <= tally'[b][f]

LEMMA SameOnlyGrows ==
    ASSUME LInv, UNCHANGED <<logins, tally>>
    PROVE  OnlyGrows
<1>1. \A b \in Attempts, f \in Fields : tally[b][f] \in Nat
  BY DEF LInv, Base, LoginsTypeOK, Fields
<1>. QED BY <1>1 DEF OnlyGrows

LEMMA LockedGrows ==
    ASSUME LInv, counting, NEW a \in Attempts, Handle(a)
    PROVE  OnlyGrows
<1>1. CASE UNCHANGED <<logins, tally>> BY <1>1, SameOnlyGrows
<1>2. CASE AddToLogin(a)
  <2>1. pc[a] = "add" /\ logins' = logins BY <1>2 DEF AddToLogin
  <2>2. login[a] \in Attempts BY <2>1 DEF LInv, Base, ControlOf
  <2>3. tally \in [Attempts -> [failure : Nat, success : Nat]]
    BY DEF LInv, Base, LoginsTypeOK
  <2>4. \/ tally' = [tally EXCEPT ![login[a]].success = @ + 1]
        \/ tally' = [tally EXCEPT ![login[a]].failure = @ + 1]
    BY <1>2 DEF AddToLogin
  <2>5. \A b \in Attempts : /\ tally[b].success \in Nat /\ tally[b].failure \in Nat
                            /\ tally'[b].success \in {tally[b].success, tally[b].success + 1}
                            /\ tally'[b].failure \in {tally[b].failure, tally[b].failure + 1}
    BY <2>2, <2>3, <2>4
  <2>6. \A b \in Attempts, f \in Fields :
           tally[b][f] \in Nat /\ tally'[b][f] \in {tally[b][f], tally[b][f] + 1}
    BY <2>5 DEF Fields
  <2>. QED BY <2>1, <2>6 DEF OnlyGrows
<1>. QED
  BY <1>1, <1>2
  DEF Handle, CheckHost, CheckPair, CheckOne, RollDice, CheckKey, SaveKey, Collect,
      GetHas, GetCreate, GetReturn, CountLogin, CountOutcome

\* Before any handler has run.
LEMMA LoginsInitInv ==
    ASSUME NEW coming \in SUBSET Attempts, LoginsInit(coming)
    PROVE  LInv
<1>. USE DEF LoginsInit
<1>1. Base
  <2>1. LoginsTypeOK
    <3>1. Undecided \in Reasons BY DEF Reasons
    <3>2. "offered" \in Locations /\ "absent" \in Locations BY DEF Locations
    <3>3. counters \in [logins : Nat, failed : Nat, successful : Nat] OBVIOUS
    <3>4. tally \in [Attempts -> [failure : Nat, success : Nat]] OBVIOUS
    <3>5. pc \in [Attempts -> Locations] BY <3>2
    <3>6. via \in [Attempts -> Reasons] BY <3>1
    <3>7. /\ logins \in [Hosts -> Attempts \cup {NoLogin}]
          /\ login \in [Attempts -> Attempts \cup {NoLogin}]
      OBVIOUS
    <3>. QED BY <3>3, <3>4, <3>5, <3>6, <3>7 DEF LoginsTypeOK, Reasons
  <2>2. \A a \in Attempts : ControlOf(a) BY DEF ControlOf
  <2>. QED BY <2>1, <2>2 DEF Base, LoginOwner
<1>2. Counted = {} BY DEF Counted
<1>3. /\ SettledIn = {} /\ SettledOut = {} /\ FinishedIn = {} /\ FinishedOut = {}
  BY <1>2 DEF Settled, Finished, SettledIn, SettledOut, FinishedIn, FinishedOut
<1>4. Exact BY <1>2, <1>3, FS_EmptySet DEF Exact
<1>5. Registered = {} BY DEF Registered
<1>6. ASSUME NEW f \in Fields
      PROVE  Units(TallyOf(f)) = {} /\ SumOf(TallyOf(f)) = 0
  BY <1>5, UnitsEmpty DEF TallyOf
<1>7. SumsBehind
  <2>1. \A f \in Fields : Cardinality(Done(f)) = 0 BY <1>3, FS_EmptySet DEF Done
  <2>. QED BY ONLY <1>6, <2>1, FS_EmptySet DEF SumsBehind
<1>8. \A h \in Hosts : RaceOf(h) BY DEF RaceOf, Creating
<1>. QED BY <1>1, <1>4, <1>7, <1>8 DEF LInv

\* What the run checks of the Logins.
LEMMA LInvImplies ==
    LInv => LoginsTypeOK /\ NothingNewStaysOut /\ CountersExact /\ LostOnlyInRace
<1>. SUFFICES ASSUME LInv
              PROVE  LoginsTypeOK /\ NothingNewStaysOut /\ CountersExact /\ LostOnlyInRace
  OBVIOUS
<1>1. LoginsTypeOK BY DEF LInv, Base
<1>2. NothingNewStaysOut BY DEF LInv, Base, StaleOf, NothingNewStaysOut
<1>3. CountersExact BY ExactSets DEF LInv
<1>4. ASSUME NEW h \in Hosts \ raced
      PROVE  LET done == {a \in Finished : HostOf[a] = h}
             IN IF logins[h] = NoLogin THEN done = {}
                ELSE tally[logins[h]] =
                       [failure |-> Cardinality({a \in done : ~Accepted(a)}),
                        success |-> Cardinality({a \in done : Accepted(a)})]
  <2>. DEFINE done == {a \in Finished : HostOf[a] = h}
  <2>1. CASE logins[h] = NoLogin
    <3>1. \A a \in Finished : pc[a] = "done" /\ HostOf[a] \notin Whitelisted /\ a \in Attempts
      BY DEF Finished, Settled, Counted
    <3>2. done = {} BY <2>1, <3>1 DEF LInv, Base, ControlOf
    <3>. QED BY <2>1, <3>2
  <2>2. CASE logins[h] # NoLogin
    <3>1. /\ {a \in done : Accepted(a)} = Done("success") \cap OfHost(h)
          /\ {a \in done : ~Accepted(a)} = Done("failure") \cap OfHost(h)
      BY DEF Done, FinishedIn, FinishedOut, OfHost, Finished, Settled, Counted
    <3>2. /\ tally[logins[h]].success = Cardinality(Done("success") \cap OfHost(h))
          /\ tally[logins[h]].failure = Cardinality(Done("failure") \cap OfHost(h))
      BY <2>2 DEF LInv, RaceOf, Fields
    <3>3. tally[logins[h]] \in [failure : Nat, success : Nat]
      BY <1>1, <2>2 DEF LoginsTypeOK
    <3>. HIDE DEF done
    <3>4. tally[logins[h]] = [failure |-> Cardinality({a \in done : ~Accepted(a)}),
                              success |-> Cardinality({a \in done : Accepted(a)})]
      BY <3>1, <3>2, <3>3
    <3>. QED BY <2>2, <3>4 DEF done
  <2>. QED BY <2>1, <2>2
<1>. QED BY <1>1, <1>2, <1>3, <1>4 DEF LostOnlyInRace

-----------------------------------------------------------------------------
(* Snapshots, peers and totals                                             *)

\* The types of what NodeStats adds.
StatsTypes ==
    /\ reading \in {"attempted", "more", "successful", "failed", "push"}
    /\ part \in StatsRecords /\ total \in Nat
    /\ stats \in [PeerHosts -> Nat \cup {None, Nil}]
    /\ at \in [Peers -> 0..MaxLogins] /\ peak \in [Peers -> 0..MaxLogins]
    /\ mail \in [Peers -> SUBSET (0..MaxLogins)]
    /\ up \subseteq Peers /\ restarts \in Nat /\ died \in BOOLEAN

\* What GetSuccesses or GetFailures has read of the map: no Login shows more
\* than it has by now.
ReadSoFar ==
    /\ counting \in BOOLEAN
    /\ DOMAIN got \subseteq Registered
    /\ \A h \in DOMAIN got : got[h] \in Nat /\ got[h] <= TallyOf(Outcome)[h]
    /\ ~counting => got = Unread
    /\ counting => reading # "push"

\* What the sum would be if the Logins still to be read stayed as they are.
View == [h \in Registered |-> IF h \in DOMAIN got THEN got[h] ELSE TallyOf(Outcome)[h]]

\* A snapshot shows no more than was finished when its fields were read.
Within ==
    /\ part.attempted <= Cardinality(Done("success")) + Cardinality(Done("failure"))
    /\ part.successful <= Cardinality(Done("success"))
    /\ part.failed <= Cardinality(Done("failure"))
    /\ reading = "more" => part.attempted <= Cardinality(Done("success"))
    /\ reading = "attempted" => part = NoStats

\* As long as no Login is lost, what is read later covers what was read.
Covered ==
    raced = {} =>
        /\ reading = "more" => part.attempted <= SumOf(TallyOf("success"))
        /\ reading = "successful" => part.attempted <= SumOf(View)
                                                     + SumOf(TallyOf("failure"))
        /\ reading = "failed" => part.attempted <= part.successful + SumOf(View)
        /\ reading = "push" => part.attempted <= part.successful + part.failed

\* What is reported of a host, now or late, one of its peers has counted.
PeersHonest ==
    /\ \A p \in Peers : at[p] <= peak[p] /\ mail[p] \subseteq 0..peak[p]
    /\ \A h \in PeerHosts :
          stats[h] \in {None, Nil} \/ \E p \in Peers : /\ PeerHost[p] = h
                                                     /\ stats[h] \in 0..peak[p]

Snapshots == StatsTypes /\ ReadSoFar /\ Within /\ Covered

IInv == LInv /\ Snapshots /\ PeersHonest /\ TotalBehind

\* The numbers that the inequalities are about.
Nums == /\ Cardinality(Done("success")) \in Nat /\ Cardinality(Done("failure")) \in Nat
        /\ SumOf(TallyOf("success")) \in Nat /\ SumOf(TallyOf("failure")) \in Nat
        /\ SumOf(TallyOf("success")) <= Cardinality(Done("success"))
        /\ SumOf(TallyOf("failure")) <= Cardinality(Done("failure"))
        /\ counters.logins \in Nat

LEMMA Numbers == LInv => Nums
<1>. SUFFICES ASSUME LInv PROVE Nums OBVIOUS
<1>1. "success" \in Fields /\ "failure" \in Fields BY DEF Fields
<1>. QED BY <1>1, DoneType, SumNat DEF LInv, SumsBehind, Base, LoginsTypeOK, Nums

\* A sum in the making is at most the sum of what the Logins hold by now.
ViewFits ==
    /\ Outcome \in Fields /\ View \in [Registered -> Nat]
    /\ IsFiniteSet(Units(View)) /\ SumOf(View) \in Nat
    /\ SumOf(View) <= SumOf(TallyOf(Outcome))
    /\ ~counting => View = TallyOf(Outcome)

LEMMA Viewed == LInv /\ ReadSoFar => ViewFits
<1>. SUFFICES ASSUME LInv, ReadSoFar PROVE ViewFits OBVIOUS
<1>. DEFINE t == TallyOf(Outcome)
<1>1. Outcome \in Fields BY DEF Outcome, Fields
<1>2. t \in [Registered -> Nat] BY <1>1, TallyType DEF LInv
<1>3. IsFiniteSet(Units(t)) BY <1>1 DEF LInv, SumsBehind
<1>4. \A h \in DOMAIN got : got[h] \in Nat /\ got[h] <= t[h] BY DEF ReadSoFar
<1>5. View = [h \in Registered |-> IF h \in DOMAIN got THEN got[h] ELSE t[h]] BY DEF View
<1>6. ~counting => DOMAIN got = {} BY DEF ReadSoFar, Unread
<1>. HIDE DEF t
<1>7. View \in [Registered -> Nat] /\ \A h \in Registered : View[h] <= t[h]
  BY <1>2, <1>4, <1>5
<1>8. IsFiniteSet(Units(View)) /\ SumOf(View) <= SumOf(t)
  BY <1>2, <1>3, <1>7, SumGrows
<1>9. SumOf(View) \in Nat BY <1>8, FS_CardinalityType DEF SumOf
<1>10. ~counting => View = t BY <1>2, <1>5, <1>6
<1>. QED BY <1>1, <1>7, <1>8, <1>9, <1>10 DEF ViewFits, t

\* Every attempt that has finished is counted.
LEMMA FinishedCounted ==
    ASSUME LInv
    PROVE  /\ Cardinality(Done("success")) <= counters.successful
           /\ Cardinality(Done("failure")) <= counters.failed
           /\ Cardinality(Done("success")) + Cardinality(Done("failure"))
                <= counters.logins
<1>1. Done("success") = FinishedIn /\ Done("failure") = FinishedOut BY DEF Done
<1>2. /\ counters.logins = Cardinality(Counted)
      /\ counters.failed = Cardinality(SettledOut)
      /\ counters.successful = Cardinality(SettledIn)
  BY DEF LInv, Exact
<1>3. /\ IsFiniteSet(SettledIn) /\ IsFiniteSet(SettledOut) /\ IsFiniteSet(Counted)
      /\ IsFiniteSet(FinishedIn) /\ IsFiniteSet(FinishedOut)
      /\ FinishedIn \subseteq SettledIn /\ FinishedOut \subseteq SettledOut
  BY SetsType, AttemptsFinite
<1>4. /\ FinishedIn \cup FinishedOut \subseteq Counted
      /\ FinishedIn \cap FinishedOut = {}
  BY DEF FinishedIn, FinishedOut, Finished, Settled
<1>5. /\ Cardinality(FinishedIn) <= Cardinality(SettledIn)
      /\ Cardinality(FinishedOut) <= Cardinality(SettledOut)
  BY <1>3, FS_Subset
<1>6. Cardinality(FinishedIn \cup FinishedOut)
        = Cardinality(FinishedIn) + Cardinality(FinishedOut) - 0
  BY <1>3, <1>4, FS_Union, FS_EmptySet
<1>7. Cardinality(FinishedIn \cup FinishedOut) <= Cardinality(Counted)
  BY <1>3, <1>4, FS_Subset
<1>8. Cardinality(FinishedIn) \in Nat /\ Cardinality(FinishedOut) \in Nat
  BY <1>3, FS_CardinalityType
<1>. QED BY <1>1, <1>2, <1>5, <1>6, <1>7, <1>8

\* What the peers have ever counted can be summed up.
PeaksCount == IsFiniteSet(Units(peak)) /\ SumOf(peak) \in Nat

LEMMA PeaksFinite == StatsTypes => PeaksCount
<1>. SUFFICES ASSUME StatsTypes PROVE PeaksCount OBVIOUS
<1>1. Units(peak) \subseteq Peers \X (0..MaxLogins)
  <2>. SUFFICES ASSUME NEW u \in Units(peak) PROVE u \in Peers \X (0..MaxLogins)
    OBVIOUS
  <2>1. PICK p \in DOMAIN peak : \E k \in 1..peak[p] : u = <<p, k>> BY UnitsOf
  <2>2. PICK k \in 1..peak[p] : u = <<p, k>> BY <2>1
  <2>3. p \in Peers /\ k \in 0..MaxLogins
    BY <2>1, <2>2, PeersAssumption DEF StatsTypes
  <2>. QED BY <2>2, <2>3
<1>2. IsFiniteSet(0..MaxLogins) BY PeersAssumption, FS_Interval
<1>3. IsFiniteSet(Peers \X (0..MaxLogins)) BY <1>2, PeersAssumption, FS_Product
<1>. QED BY <1>1, <1>3, FS_Subset, FS_CardinalityType DEF SumOf, PeaksCount

\* What is reported is at most what the peers have ever counted, as each host
\* counts once.
LEMMA ReportsBehind ==
    ASSUME IInv, \A h \in Reported : stats[h] \notin {Nil, None}
    PROVE  /\ SumOf([h \in Reported |-> stats[h]]) \in Nat
           /\ SumOf([h \in Reported |-> stats[h]]) <= SumOf(peak)
<1>. DEFINE g == [h \in Reported |-> stats[h]]
            w(h) == CHOOSE p \in Peers : PeerHost[p] = h /\ stats[h] \in 0..peak[p]
            F == [u \in Units(g) |-> <<w(u[1]), u[2]>>]
<1>1. \A h \in Reported : /\ w(h) \in Peers /\ PeerHost[w(h)] = h
                          /\ stats[h] \in 0..peak[w(h)]
  BY DEF Reported, IInv, PeersHonest
<1>2. peak \in [Peers -> 0..MaxLogins] BY DEF IInv, Snapshots, StatsTypes
<1>3. ASSUME NEW u \in Units(g)
      PROVE  \E h \in Reported : \E k \in 1..stats[h] : u = <<h, k>>
  BY UnitsOf
<1>4. ASSUME NEW u \in Units(g) PROVE <<w(u[1]), u[2]>> \in Units(peak)
  <2>1. PICK h \in Reported : \E k \in 1..stats[h] : u = <<h, k>> BY <1>3
  <2>2. PICK k \in 1..stats[h] : u = <<h, k>> BY <2>1
  <2>3. w(h) \in Peers /\ stats[h] \in 0..peak[w(h)] /\ peak[w(h)] \in 0..MaxLogins
    BY <1>1, <1>2
  <2>4. k \in 1..peak[w(h)] BY <2>3, PeersAssumption
  <2>5. \E p \in DOMAIN peak : \E j \in 1..peak[p] : <<w(h), k>> = <<p, j>>
    BY <1>2, <2>3, <2>4
  <2>6. <<w(h), k>> \in Units(peak) BY <2>5, UnitsOf
  <2>. QED BY <2>2, <2>6
<1>5. ASSUME NEW u \in Units(g), NEW v \in Units(g),
             <<w(u[1]), u[2]>> = <<w(v[1]), v[2]>>
      PROVE  u = v
  <2>1. PICK h \in Reported : \E k \in 1..stats[h] : u = <<h, k>> BY <1>3
  <2>2. PICK k \in 1..stats[h] : u = <<h, k>> BY <2>1
  <2>3. PICK i \in Reported : \E j \in 1..stats[i] : v = <<i, j>> BY <1>3
  <2>4. PICK j \in 1..stats[i] : v = <<i, j>> BY <2>3
  <2>5. w(u[1]) = w(v[1]) /\ u[2] = v[2] BY <1>5
  <2>6. u[1] = h /\ u[2] = k /\ v[1] = i /\ v[2] = j BY <2>2, <2>4
  <2>7. w(h) = w(i) BY <2>5, <2>6
  <2>8. h = i BY <1>1, <2>7
  <2>. QED BY <2>2, <2>4, <2>5, <2>6, <2>8
<1>. HIDE DEF g, w
<1>6. F \in Injection(Units(g), Units(peak))
  <2>1. F \in [Units(g) -> Units(peak)] BY <1>4
  <2>2. \A u, v \in Units(g) : F[u] = F[v] => u = v BY <1>5
  <2>. QED BY <2>1, <2>2 DEF Injection, IsInjective
<1>. HIDE DEF F
<1>7. IsFiniteSet(Units(peak)) BY PeaksFinite DEF IInv, Snapshots, PeaksCount
<1>8. IsFiniteSet(Units(g)) /\ Cardinality(Units(g)) <= Cardinality(Units(peak))
  BY <1>6, <1>7, FS_Injection
<1>9. SumOf(g) \in Nat /\ SumOf(g) <= SumOf(peak)
  BY <1>8, FS_CardinalityType DEF SumOf
<1>. QED BY <1>9 DEF g

\* While handlers go on, a snapshot already taken stays behind.
LEMMA GrowsKeeps ==
    ASSUME IInv, LInv', Grows, counting => OnlyGrows,
           UNCHANGED <<svars, stats, total, died, pvars>>
    PROVE  IInv'
<1>1. LInv /\ StatsTypes /\ ReadSoFar /\ Within /\ Covered BY DEF IInv, Snapshots
<1>. USE DEF svars
<1>2. "success" \in Fields /\ "failure" \in Fields BY DEF Fields
<1>3. /\ Cardinality(Done("success")) <= Cardinality(Done("success")')
      /\ Cardinality(Done("failure")) <= Cardinality(Done("failure")')
      /\ counters.logins <= counters'.logins
      /\ raced' = {} => /\ raced = {}
                        /\ SumOf(TallyOf("success")) <= SumOf(TallyOf("success")')
                        /\ SumOf(TallyOf("failure")) <= SumOf(TallyOf("failure")')
  BY <1>2 DEF Grows
<1>4. /\ Cardinality(Done("success")) \in Nat /\ Cardinality(Done("failure")) \in Nat
      /\ SumOf(TallyOf("success")) \in Nat /\ SumOf(TallyOf("failure")) \in Nat
      /\ counters.logins \in Nat
  BY <1>1, Numbers DEF Nums
<1>5. Nums' BY Numbers, PTL
<1>6. part.attempted \in Nat /\ part.successful \in Nat /\ part.failed \in Nat
  BY <1>1 DEF StatsTypes, StatsRecords
<1>7. StatsTypes' BY <1>1 DEF StatsTypes, pvars
<1>8. Within'
  BY <1>1, <1>3, <1>4, <1>5, <1>6 DEF Within, Nums
<1>9. ReadSoFar' /\ Covered'
  <2>1. Outcome' = Outcome /\ Outcome \in Fields BY DEF Outcome, Fields
  <2>2. ASSUME counting
        PROVE  /\ Registered' = Registered
               /\ \A h \in Registered : /\ TallyOf(Outcome)[h] \in Nat
                                        /\ TallyOf(Outcome)'[h] \in Nat
                                        /\ TallyOf(Outcome)[h] <= TallyOf(Outcome)'[h]
    <3>1. OnlyGrows BY <2>2
    <3>2. Registered' = Registered BY <3>1 DEF OnlyGrows, Registered
    <3>3. \A h \in Registered : /\ logins[h] \in Attempts
                                /\ TallyOf(Outcome)[h] = tally[logins[h]][Outcome]
                                /\ TallyOf(Outcome)'[h] = tally'[logins[h]][Outcome]
      BY <1>1, <2>1, <3>1, <3>2
      DEF OnlyGrows, Registered, TallyOf, LInv, Base, LoginsTypeOK
    <3>. QED BY <2>1, <3>1, <3>2, <3>3 DEF OnlyGrows
  <2>3. ReadSoFar'
    <3>1. CASE counting
      <4>1. \A h \in DOMAIN got' : got'[h] \in Nat /\ got'[h] <= TallyOf(Outcome)'[h]
        BY <1>1, <2>2, <3>1 DEF ReadSoFar
      <4>. QED BY <1>1, <2>2, <3>1, <4>1 DEF ReadSoFar
    <3>2. CASE ~counting BY <1>1, <3>2 DEF ReadSoFar, Unread
    <3>. QED BY <1>1, <3>1, <3>2 DEF ReadSoFar
  <2>4. ViewFits BY <1>1, Viewed
  <2>5. ViewFits' BY <2>3, Viewed, PTL
  <2>6. raced' = {} => SumOf(View) <= SumOf(View')
    <3>1. CASE counting
      <4>1. View \in [Registered -> Nat] /\ View' \in [Registered' -> Nat]
            /\ IsFiniteSet(Units(View'))
        BY <2>4, <2>5 DEF ViewFits, Units
      <4>2. \A h \in Registered : h \in Registered' /\ View[h] <= View'[h]
        <5>. SUFFICES ASSUME NEW h \in Registered
                      PROVE  h \in Registered' /\ View[h] <= View'[h]
          OBVIOUS
        <5>1. h \in Registered' BY <2>2, <3>1
        <5>2. /\ View[h] = IF h \in DOMAIN got THEN got[h] ELSE TallyOf(Outcome)[h]
              /\ View'[h] = IF h \in DOMAIN got THEN got[h] ELSE TallyOf(Outcome)'[h]
          BY <5>1 DEF View
        <5>3. View[h] \in Nat BY <4>1
        <5>. QED BY <2>2, <3>1, <5>1, <5>2, <5>3
      <4>. QED BY <4>1, <4>2, SumGrows
    <3>2. CASE ~counting
      <4>1. View = TallyOf(Outcome) BY <2>4, <3>2 DEF ViewFits
      <4>2. View' = TallyOf(Outcome)' BY <2>5, <3>2 DEF ViewFits
      <4>3. raced' = {} => SumOf(TallyOf(Outcome)) <= SumOf(TallyOf(Outcome)')
        <5>1. Outcome = "success" \/ Outcome = "failure" BY DEF Outcome
        <5>2. CASE Outcome = "success"
          <6>1. TallyOf(Outcome)' = TallyOf("success")' BY <2>1, <5>2
          <6>. QED BY <1>3, <5>2, <6>1
        <5>3. CASE Outcome = "failure"
          <6>1. TallyOf(Outcome)' = TallyOf("failure")' BY <2>1, <5>3
          <6>. QED BY <1>3, <5>3, <6>1
        <5>. QED BY <5>1, <5>2, <5>3
      <4>. QED BY <4>1, <4>2, <4>3
    <3>. QED BY <3>1, <3>2
  <2>7. SumOf(View) \in Nat /\ SumOf(View') \in Nat BY <2>4, <2>5 DEF ViewFits, SumOf, Units
  <2>8. Covered'
    BY <1>1, <1>3, <1>4, <1>5, <1>6, <2>6, <2>7 DEF Covered, Nums
  <2>. QED BY <2>3, <2>8
<1>10. PeersHonest' BY DEF IInv, PeersHonest, pvars
<1>11. TotalBehind'
  <2>1. SumOf(peak) \in Nat BY <1>1, PeaksFinite DEF PeaksCount
  <2>2. total \in Nat /\ counters'.logins \in Nat BY <1>1, <1>5 DEF StatsTypes, Nums
  <2>. QED BY <1>3, <1>4, <2>1, <2>2 DEF IInv, TotalBehind, pvars
<1>. QED BY <1>7, <1>8, <1>9, <1>10, <1>11 DEF IInv, Snapshots

\* A step that is not of a handler.
LEMMA LoginsStay ==
    ASSUME LInv, UNCHANGED lvars
    PROVE  /\ LInv' /\ raced' = raced /\ counters' = counters
           /\ Done("success")' = Done("success") /\ Done("failure")' = Done("failure")
           /\ TallyOf("success")' = TallyOf("success")
           /\ TallyOf("failure")' = TallyOf("failure")
<1>1. UNCHANGED <<loot, keys, logins, tally, counters, pc, via, login, stale, raced>>
  BY DEF lvars
<1>2. Base'
  <2>1. LoginsTypeOK' /\ LoginOwner'
    BY <1>1 DEF LInv, Base, LoginsTypeOK, LoginOwner
  <2>2. \A a \in Attempts : ControlOf(a)' BY <1>1 DEF LInv, Base, ControlOf
  <2>3. \A a \in stale : StaleOf(a)' BY <1>1 DEF LInv, Base, StaleOf, Accepted
  <2>. QED BY <1>1, <2>1, <2>2, <2>3 DEF Base
<1>3. UNCHANGED Sets
  BY <1>1
  DEF Sets, Counted, Settled, Finished, SettledIn, SettledOut, FinishedIn,
      FinishedOut, Accepted
<1>4. raced' \subseteq Hosts BY <1>1 DEF LInv, Base, LoginsTypeOK
<1>5. Exact' /\ SumsBehind' BY <1>1, <1>3, <1>4, SameCounts
<1>6. ASSUME NEW h \in Hosts \ raced PROVE RaceOf(h)'
  <2>1. RaceOf(h) BY DEF LInv
  <2>. QED BY <1>1, <1>3, <2>1, SameRace DEF RaceOf
<1>7. LInv' BY <1>1, <1>2, <1>5, <1>6 DEF LInv
<1>. QED BY <1>1, <1>3, <1>7 DEF Done, Sets, TallyOf, Registered

\* The map is locked, or one more Login is read: the sum in the making stays.
LEMMA ReadOn ==
    ASSUME IInv, ReadSoFar', View' = View,
           UNCHANGED <<lvars, reading, part, stats, total, died, pvars>>
    PROVE  IInv'
<1>1. LInv /\ StatsTypes /\ Within /\ Covered BY DEF IInv, Snapshots
<1>2. /\ LInv' /\ raced' = raced
      /\ Done("success")' = Done("success") /\ Done("failure")' = Done("failure")
      /\ TallyOf("success")' = TallyOf("success")
      /\ TallyOf("failure")' = TallyOf("failure")
  BY <1>1, LoginsStay
<1>3. Within' BY <1>1, <1>2 DEF Within
<1>4. Covered' BY <1>1, <1>2 DEF Covered
<1>5. StatsTypes' BY <1>1 DEF StatsTypes, pvars
<1>6. PeersHonest' /\ TotalBehind'
  BY DEF IInv, PeersHonest, TotalBehind, pvars, lvars
<1>. QED BY <1>2, <1>3, <1>4, <1>5, <1>6 DEF IInv, Snapshots

LEMMA LockLoginsInv ==
    ASSUME IInv, LockLogins
    PROVE  IInv'
<1>1. /\ ReadSoFar /\ reading # "push" /\ ~counting /\ counting' = TRUE
      /\ UNCHANGED <<lvars, reading, part, got, stats, total, died, pvars>>
  BY DEF IInv, Snapshots, LockLogins
<1>2. UNCHANGED <<logins, tally, reading, got>> BY <1>1 DEF lvars
<1>3. View' = View BY <1>2 DEF View, Registered, TallyOf, Outcome
<1>4. ReadSoFar' BY <1>1, <1>2 DEF ReadSoFar, Registered, TallyOf, Outcome
<1>. QED BY <1>1, <1>3, <1>4, ReadOn

LEMMA ReadLoginInv ==
    ASSUME IInv, NEW h \in Hosts, ReadLogin(h)
    PROVE  IInv'
<1>1. /\ LInv /\ ReadSoFar /\ counting /\ h \in Registered \ DOMAIN got
      /\ got' = [i \in DOMAIN got \cup {h} |->
                   IF i = h THEN tally[logins[h]][Outcome] ELSE got[i]]
      /\ UNCHANGED <<lvars, counting, reading, part, stats, total, died, pvars>>
  BY DEF IInv, Snapshots, ReadLogin
<1>2. UNCHANGED <<logins, tally, reading, counting>> BY <1>1 DEF lvars
<1>3. Outcome' = Outcome /\ Registered' = Registered /\ Outcome \in Fields
      /\ TallyOf(Outcome)' = TallyOf(Outcome)
  BY <1>2 DEF Outcome, Registered, TallyOf, Fields
<1>4. /\ TallyOf(Outcome) \in [Registered -> Nat]
      /\ TallyOf(Outcome)[h] = tally[logins[h]][Outcome]
      /\ TallyOf(Outcome)[h] \in Nat
  BY <1>1, <1>3, TallyType DEF LInv
<1>5. /\ DOMAIN got' = DOMAIN got \cup {h}
      /\ got'[h] = TallyOf(Outcome)[h]
      /\ \A i \in DOMAIN got : got'[i] = got[i]
  BY <1>1, <1>4
<1>6. ReadSoFar'
  <2>1. \A i \in DOMAIN got : got[i] \in Nat /\ got[i] <= TallyOf(Outcome)[i]
    BY <1>1 DEF ReadSoFar
  <2>2. \A i \in DOMAIN got' : got'[i] \in Nat /\ got'[i] <= TallyOf(Outcome)'[i]
    BY <1>3, <1>4, <1>5, <2>1
  <2>3. DOMAIN got' \subseteq Registered' BY <1>1, <1>3, <1>5 DEF ReadSoFar
  <2>4. counting' = TRUE /\ reading' # "push"
    BY <1>1, <1>2 DEF ReadSoFar
  <2>. QED BY <2>2, <2>3, <2>4 DEF ReadSoFar
<1>7. View' = View BY <1>1, <1>3, <1>5 DEF View
<1>. QED BY <1>1, <1>6, <1>7, ReadOn

\* All of the map is read: the snapshot's field is filled.
LEMMA ReadDoneInv ==
    ASSUME IInv, ReadDone
    PROVE  IInv'
<1>. DEFINE s == SumOf(View)
<1>1. /\ LInv /\ StatsTypes /\ ReadSoFar /\ Within /\ Covered /\ Nums /\ ViewFits
      /\ UNCHANGED <<lvars, stats, total, died, pvars>>
      /\ counting /\ counting' = FALSE /\ got' = Unread
  BY Numbers, Viewed DEF IInv, Snapshots, ReadDone
<1>2. LInv' BY <1>1, LoginsStay
<1>3. /\ Done("success")' = Done("success") /\ Done("failure")' = Done("failure")
      /\ TallyOf("success")' = TallyOf("success")
      /\ TallyOf("failure")' = TallyOf("failure") /\ raced' = raced
  BY <1>1, LoginsStay
<1>4. part.attempted \in Nat /\ part.successful \in Nat /\ part.failed \in Nat
      /\ part \in StatsRecords
  BY <1>1 DEF StatsTypes, StatsRecords
<1>5. SumOf(got) = s
  <2>1. DOMAIN got = Registered BY DEF ReadDone
  <2>2. \A h \in Registered : View[h] = got[h] BY <2>1 DEF View
  <2>3. DOMAIN View = Registered BY DEF View
  <2>. QED BY <2>1, <2>2, <2>3 DEF SumOf, Units
<1>6. reading \in {"attempted", "more", "successful", "failed"}
  BY <1>1 DEF ReadSoFar, StatsTypes
<1>7. s \in Nat /\ s <= SumOf(TallyOf(Outcome)) BY <1>1 DEF ViewFits
<1>8. /\ part' = CASE reading = "attempted"  -> [part EXCEPT !.attempted = s]
                   [] reading = "more"       -> [part EXCEPT !.attempted = @ + s]
                   [] reading = "successful" -> [part EXCEPT !.successful = s]
                   [] reading = "failed"     -> [part EXCEPT !.failed = s]
      /\ reading' = ReadOrder[reading]
  BY <1>5 DEF ReadDone
<1>9. ReadSoFar'
  BY <1>1 DEF ReadSoFar, Unread
<1>10. View' = TallyOf(Outcome)'
  <2>1. ViewFits' BY <1>2, <1>9, Viewed, PTL
  <2>. QED BY <1>1, <2>1 DEF ViewFits
<1>11. Covered <=> (raced = {} =>
          /\ reading = "more" => part.attempted <= SumOf(TallyOf("success"))
          /\ reading = "successful" => part.attempted <= s + SumOf(TallyOf("failure"))
          /\ reading = "failed" => part.attempted <= part.successful + s
          /\ reading = "push" => part.attempted <= part.successful + part.failed)
  BY DEF Covered
<1>. HIDE DEF s
<1>12. part' \in StatsRecords
       /\ reading' \in {"attempted", "more", "successful", "failed", "push"}
       /\ Within' /\ Covered'
  <2>1. CASE reading = "attempted"
    <3>1. part' = [part EXCEPT !.attempted = s] /\ reading' = "more"
      BY <1>8, <2>1 DEF ReadOrder
    <3>2. part.successful = 0 /\ part.failed = 0
      BY <1>1, <2>1 DEF Within, NoStats
    <3>3. /\ part'.attempted = s
          /\ part'.successful = 0 /\ part'.failed = 0 /\ part' \in StatsRecords
      BY <1>4, <1>7, <3>1, <3>2 DEF StatsRecords
    <3>4. s <= SumOf(TallyOf("success")) BY <1>7, <2>1 DEF Outcome
    <3>. QED BY <1>1, <1>3, <1>7, <3>1, <3>3, <3>4 DEF Within, Covered, Nums
  <2>2. CASE reading = "more"
    <3>1. /\ part' = [part EXCEPT !.attempted = part.attempted + s]
          /\ reading' = "successful"
      BY <1>8, <2>2 DEF ReadOrder
    <3>2. /\ part'.attempted = part.attempted + s
          /\ part'.successful = part.successful /\ part'.failed = part.failed
          /\ part' \in StatsRecords
      BY <1>4, <1>7, <3>1 DEF StatsRecords
    <3>3. s <= SumOf(TallyOf("failure")) BY <1>7, <2>2 DEF Outcome
    <3>4. View' = TallyOf("success")' BY <1>10, <3>1 DEF Outcome
    <3>5. Within'
      BY <1>1, <1>3, <1>4, <1>7, <2>2, <3>1, <3>2, <3>3 DEF Within, Nums
    <3>6. Covered'
      <4>1. SumOf(View') = SumOf(TallyOf("success")) BY <1>3, <3>4
      <4>2. SumOf(TallyOf("failure")') = SumOf(TallyOf("failure")) BY <1>3
      <4>3. raced = {} => part.attempted <= SumOf(TallyOf("success"))
        BY <1>1, <1>11, <2>2
      <4>4. raced = {} => part'.attempted <= SumOf(View') + SumOf(TallyOf("failure")')
        BY <1>1, <1>4, <1>7, <3>2, <3>3, <4>1, <4>2, <4>3 DEF Nums
      <4>. QED BY <1>3, <3>1, <4>4 DEF Covered
    <3>. QED BY <3>1, <3>2, <3>5, <3>6
  <2>3. CASE reading = "successful"
    <3>1. part' = [part EXCEPT !.successful = s] /\ reading' = "failed"
      BY <1>8, <2>3 DEF ReadOrder
    <3>2. /\ part'.attempted = part.attempted
          /\ part'.successful = s /\ part'.failed = part.failed
          /\ part' \in StatsRecords
      BY <1>4, <1>7, <3>1 DEF StatsRecords
    <3>3. s <= SumOf(TallyOf("success")) BY <1>7, <2>3 DEF Outcome
    <3>4. View' = TallyOf("failure")' BY <1>10, <3>1 DEF Outcome
    <3>5. Within'
      BY <1>1, <1>3, <1>4, <1>7, <2>3, <3>1, <3>2, <3>3 DEF Within, Nums
    <3>6. Covered'
      <4>1. SumOf(View') = SumOf(TallyOf("failure")) BY <1>3, <3>4
      <4>2. raced = {} => part.attempted <= s + SumOf(TallyOf("failure"))
        BY <1>1, <1>11, <2>3
      <4>. QED BY <1>3, <3>1, <3>2, <4>1, <4>2 DEF Covered
    <3>. QED BY <3>1, <3>2, <3>5, <3>6
  <2>4. CASE reading = "failed"
    <3>1. part' = [part EXCEPT !.failed = s] /\ reading' = "push"
      BY <1>8, <2>4 DEF ReadOrder
    <3>2. /\ part'.attempted = part.attempted /\ part'.successful = part.successful
          /\ part'.failed = s /\ part' \in StatsRecords
      BY <1>4, <1>7, <3>1 DEF StatsRecords
    <3>3. s <= SumOf(TallyOf("failure")) BY <1>7, <2>4 DEF Outcome
    <3>4. Within'
      BY <1>1, <1>3, <1>4, <1>7, <2>4, <3>1, <3>2, <3>3 DEF Within, Nums
    <3>5. Covered'
      <4>1. raced = {} => part.attempted <= part.successful + s
        BY <1>1, <1>11, <2>4
      <4>. QED BY <1>3, <3>1, <3>2, <4>1 DEF Covered
    <3>. QED BY <3>1, <3>2, <3>4, <3>5
  <2>. QED BY <1>6, <2>1, <2>2, <2>3, <2>4
<1>13. StatsTypes' BY <1>1, <1>12 DEF StatsTypes, pvars
<1>14. PeersHonest' /\ TotalBehind'
  BY <1>1 DEF IInv, PeersHonest, TotalBehind, pvars, lvars
<1>. QED BY <1>2, <1>9, <1>12, <1>13, <1>14 DEF IInv, Snapshots

LEMMA ReadFieldInv ==
    ASSUME IInv, ReadField
    PROVE  IInv'
BY LockLoginsInv, ReadLoginInv, ReadDoneInv DEF ReadField

\* A worker uses the snapshot and begins another one.
LEMMA TurnInv ==
    ASSUME IInv, reading = "push", NextTurn, died' \in BOOLEAN,
           \/ total' = total
           \/ /\ total' = Total(part)
              /\ \A h \in Reported : stats[h] \notin {Nil, None}
    PROVE  IInv'
<1>1. /\ LInv /\ StatsTypes /\ ReadSoFar /\ Within /\ Nums
      /\ reading' = "attempted" /\ part' = NoStats
      /\ UNCHANGED <<lvars, counting, got, stats, pvars>>
  BY Numbers DEF IInv, Snapshots, NextTurn, ReadOrder
<1>2. /\ LInv' /\ raced' = raced /\ counters' = counters
      /\ Done("success")' = Done("success") /\ Done("failure")' = Done("failure")
  BY <1>1, LoginsStay
<1>3. /\ part'.attempted = 0 /\ part'.successful = 0 /\ part'.failed = 0
      /\ part' \in StatsRecords
  BY <1>1 DEF NoStats, StatsRecords
<1>4. Within' /\ Covered' /\ ReadSoFar'
  <2>1. ReadSoFar' BY <1>1 DEF ReadSoFar, Unread
  <2>. QED BY <1>1, <1>2, <1>3, <2>1 DEF Within, Covered, Nums
<1>5. PeersHonest' BY <1>1 DEF IInv, PeersHonest, pvars
<1>6. total' \in Nat /\ TotalBehind'
  <2>1. SumOf(peak) \in Nat BY <1>1, PeaksFinite DEF PeaksCount
  <2>2. CASE total' = total
    BY <1>1, <1>2, <2>2 DEF StatsTypes, IInv, TotalBehind, pvars
  <2>3. CASE /\ total' = Total(part)
             /\ \A h \in Reported : stats[h] \notin {Nil, None}
    <3>. DEFINE r == SumOf([h \in Reported |-> stats[h]])
    <3>1. r \in Nat /\ r <= SumOf(peak) BY <2>3, ReportsBehind
    <3>2. part.attempted <= counters.logins /\ part.attempted \in Nat
      BY <1>1, FinishedCounted DEF Within, Nums, StatsTypes, StatsRecords
    <3>3. total' = part.attempted + r BY <2>3 DEF Total
    <3>4. counters.logins \in Nat /\ peak' = peak BY <1>1 DEF Nums, pvars
    <3>. HIDE DEF r
    <3>. QED BY <1>2, <2>1, <3>1, <3>2, <3>3, <3>4 DEF TotalBehind
  <2>. QED BY <2>2, <2>3
<1>7. StatsTypes'
  BY <1>1, <1>3, <1>6 DEF StatsTypes, pvars
<1>. QED BY <1>2, <1>4, <1>5, <1>6, <1>7 DEF IInv, Snapshots

LEMMA WorkerInv ==
    ASSUME IInv, Worker
    PROVE  IInv'
<1>1. CASE ReadField BY <1>1, ReadFieldInv
<1>2. died \in BOOLEAN BY DEF IInv, Snapshots, StatsTypes
<1>3. CASE UpdateStatsWorker BY <1>2, <1>3, TurnInv DEF UpdateStatsWorker
<1>4. CASE BroadcastStatsWorker BY <1>2, <1>4, TurnInv DEF BroadcastStatsWorker
<1>. QED BY <1>1, <1>3, <1>4 DEF Worker

\* A step of a peer or of a report changes neither the snapshot nor the total.
LEMMA PeerKeeps ==
    ASSUME IInv, UNCHANGED <<lvars, svars, total, died>>, StatsTypes',
           PeersHonest', \A p \in Peers : peak[p] <= peak'[p]
    PROVE  IInv'
<1>1. LInv /\ StatsTypes /\ Within /\ Covered /\ Nums
  BY Numbers DEF IInv, Snapshots
<1>2. /\ LInv' /\ raced' = raced /\ counters' = counters
      /\ Done("success")' = Done("success") /\ Done("failure")' = Done("failure")
      /\ TallyOf("success")' = TallyOf("success")
      /\ TallyOf("failure")' = TallyOf("failure")
  BY <1>1, LoginsStay
<1>3. Within' /\ Covered' /\ ReadSoFar'
  <2>1. UNCHANGED <<logins, tally, counting, reading, part, got>> BY DEF lvars, svars
  <2>2. View' = View BY <2>1 DEF View, Registered, TallyOf, Outcome
  <2>3. ReadSoFar'
    BY <2>1 DEF IInv, Snapshots, ReadSoFar, Registered, TallyOf, Outcome
  <2>. QED BY <1>1, <1>2, <2>1, <2>2, <2>3 DEF Within, Covered
<1>4. TotalBehind'
  <2>1. SumOf(peak) \in Nat BY <1>1, PeaksFinite DEF PeaksCount
  <2>2. PeaksCount' BY PeaksFinite, PTL
  <2>3. IsFiniteSet(Units(peak')) /\ SumOf(peak') \in Nat
    BY <2>2 DEF PeaksCount, Units, SumOf
  <2>4. peak \in [Peers -> Nat] /\ peak' \in [Peers -> Nat]
    BY <1>1, PeersAssumption DEF StatsTypes
  <2>5. SumOf(peak) <= SumOf(peak') BY <2>3, <2>4, SumGrows
  <2>6. total \in Nat /\ counters.logins \in Nat BY <1>1 DEF StatsTypes, Nums
  <2>. QED BY <1>2, <2>1, <2>3, <2>5, <2>6 DEF IInv, TotalBehind
<1>. QED BY <1>2, <1>3, <1>4 DEF IInv, Snapshots

\* A peer counts a login, restarts, reports; a report arrives or is lost.
LEMMA PeerLoginInv ==
    ASSUME IInv, NEW p \in Peers, PeerLogin(p)
    PROVE  IInv'
<1>1. /\ StatsTypes /\ PeersHonest /\ at[p] < MaxLogins
      /\ at' = [at EXCEPT ![p] = @ + 1]
      /\ peak' = [peak EXCEPT ![p] = IF at[p] = @ THEN @ + 1 ELSE @]
      /\ UNCHANGED <<lvars, svars, stats, total, died, mail, up, restarts>>
  BY DEF IInv, Snapshots, PeerLogin
<1>2. at \in [Peers -> 0..MaxLogins] /\ peak \in [Peers -> 0..MaxLogins]
      /\ MaxLogins \in Nat /\ at[p] <= peak[p]
  BY <1>1, PeersAssumption DEF StatsTypes, PeersHonest
<1>3. /\ at'[p] = at[p] + 1 /\ at[p] + 1 \in 0..MaxLogins
      /\ peak'[p] = IF at[p] = peak[p] THEN peak[p] + 1 ELSE peak[p]
      /\ peak'[p] \in 0..MaxLogins
      /\ \A q \in Peers \ {p} : at'[q] = at[q] /\ peak'[q] = peak[q]
  BY <1>1, <1>2
<1>4. at' \in [Peers -> 0..MaxLogins] /\ peak' \in [Peers -> 0..MaxLogins]
  BY <1>1, <1>2, <1>3
<1>5. \A q \in Peers : /\ peak[q] \in Nat /\ peak'[q] \in Nat /\ peak[q] <= peak'[q]
                       /\ at'[q] <= peak'[q]
  BY <1>1, <1>2, <1>3 DEF PeersHonest
<1>6. StatsTypes' BY <1>1, <1>4 DEF StatsTypes, svars
<1>7. \A q \in Peers : 0..peak[q] \subseteq 0..peak'[q] BY <1>5
<1>8. PeersHonest' BY <1>1, <1>5, <1>7 DEF PeersHonest
<1>. QED BY <1>1, <1>5, <1>6, <1>8, PeerKeeps

LEMMA PeerRestartInv ==
    ASSUME IInv, NEW p \in Peers, PeerRestart(p)
    PROVE  IInv'
<1>1. /\ StatsTypes /\ PeersHonest /\ restarts > 0 /\ restarts' = restarts - 1
      /\ at' = [at EXCEPT ![p] = 0]
      /\ UNCHANGED <<lvars, svars, stats, total, died, peak, mail, up>>
  BY DEF IInv, Snapshots, PeerRestart
<1>2. at' \in [Peers -> 0..MaxLogins] BY <1>1, PeersAssumption DEF StatsTypes
<1>3. restarts' \in Nat BY <1>1 DEF StatsTypes
<1>4. StatsTypes' BY <1>1, <1>2, <1>3 DEF StatsTypes, svars
<1>5. \A q \in Peers : peak[q] \in Nat BY <1>1, PeersAssumption DEF StatsTypes
<1>6. \A q \in Peers : at'[q] <= peak[q]
  BY <1>1, <1>5 DEF PeersHonest, StatsTypes
<1>7. PeersHonest' BY <1>1, <1>6 DEF PeersHonest
<1>8. \A q \in Peers : peak[q] <= peak'[q] BY <1>1, <1>5
<1>. QED BY <1>1, <1>4, <1>7, <1>8, PeerKeeps

\* The mail changes, and nothing else that is summed up.
LEMMA MailKeeps ==
    ASSUME IInv, NEW p \in Peers, NEW m \in SUBSET (0..peak[p]),
           mail' = [mail EXCEPT ![p] = m],
           UNCHANGED <<lvars, svars, total, died, at, peak, up, restarts>>,
           \/ UNCHANGED stats
           \/ \E n \in 0..peak[p] : stats' = [stats EXCEPT ![PeerHost[p]] = Decoded(p, n)]
    PROVE  IInv'
<1>1. StatsTypes /\ PeersHonest BY DEF IInv, Snapshots
<1>2. peak[p] \in 0..MaxLogins /\ MaxLogins \in Nat
  BY <1>1, PeersAssumption DEF StatsTypes
<1>3. 0..peak[p] \subseteq 0..MaxLogins BY <1>2
<1>4. mail' \in [Peers -> SUBSET (0..MaxLogins)] BY <1>1, <1>3 DEF StatsTypes
<1>5. \A q \in Peers : mail'[q] \subseteq 0..peak[q]
  BY <1>1 DEF StatsTypes, PeersHonest
<1>6. PeerHost[p] \in PeerHosts BY DEF PeerHosts
<1>7. /\ stats' \in [PeerHosts -> Nat \cup {None, Nil}]
      /\ \A h \in PeerHosts :
            stats'[h] \in {None, Nil} \/ \E q \in Peers : /\ PeerHost[q] = h
                                                       /\ stats'[h] \in 0..peak[q]
  <2>1. CASE UNCHANGED stats BY <1>1, <2>1 DEF StatsTypes, PeersHonest
  <2>2. CASE \E n \in 0..peak[p] : stats' = [stats EXCEPT ![PeerHost[p]] = Decoded(p, n)]
    <3>1. PICK n \in 0..peak[p] : stats' = [stats EXCEPT ![PeerHost[p]] = Decoded(p, n)]
      BY <2>2
    <3>2. Decoded(p, n) \in {n, Nil} /\ n \in Nat BY <1>2 DEF Decoded
    <3>3. stats \in [PeerHosts -> Nat \cup {None, Nil}] BY <1>1 DEF StatsTypes
    <3>4. stats' \in [PeerHosts -> Nat \cup {None, Nil}] BY <1>6, <3>1, <3>2, <3>3
    <3>5. \A h \in PeerHosts :
             stats'[h] = IF h = PeerHost[p] THEN Decoded(p, n) ELSE stats[h]
      BY <1>6, <3>1, <3>3
    <3>. QED BY <1>1, <3>2, <3>4, <3>5 DEF PeersHonest
  <2>. QED BY <2>1, <2>2
<1>8. StatsTypes' BY <1>1, <1>4, <1>7 DEF StatsTypes, svars
<1>9. PeersHonest' BY <1>1, <1>5, <1>7 DEF PeersHonest
<1>10. \A q \in Peers : peak[q] <= peak'[q] BY <1>1, PeersAssumption DEF StatsTypes
<1>. QED BY <1>8, <1>9, <1>10, PeerKeeps

LEMMA ReportInv ==
    ASSUME IInv, NEW p \in Peers,
           PeerReport(p) \/ \E n \in mail[p] : AddStats(p, n) \/ Lose(p, n)
    PROVE  IInv'
<1>1. /\ at[p] \in 0..peak[p] /\ mail[p] \subseteq 0..peak[p]
  BY PeersAssumption DEF IInv, Snapshots, StatsTypes, PeersHonest
<1>2. CASE PeerReport(p)
  <2>1. mail[p] \cup {at[p]} \in SUBSET (0..peak[p]) BY <1>1
  <2>. QED BY <1>2, <2>1, MailKeeps DEF PeerReport
<1>3. ASSUME NEW n \in mail[p], AddStats(p, n) \/ Lose(p, n) PROVE IInv'
  <2>1. mail[p] \ {n} \in SUBSET (0..peak[p]) /\ n \in 0..peak[p] BY <1>1
  <2>. QED BY <1>3, <2>1, MailKeeps DEF AddStats, Lose
<1>. QED BY <1>2, <1>3

-----------------------------------------------------------------------------
(* The theorems                                                            *)

LEMMA InitInv == Init => IInv
<1>. SUFFICES ASSUME Init PROVE IInv OBVIOUS
<1>1. PICK plan \in Plans :
          LoginsInit(plan.coming) /\ up = plan.up /\ restarts = plan.restarts
  BY DEF Init
<1>2. plan.coming \in SUBSET Attempts /\ plan.up \in SUBSET Peers /\ plan.restarts \in Nat
  BY PeersAssumption
<1>3. LInv BY <1>1, <1>2, LoginsInitInv
<1>4. Nums BY <1>3, Numbers
<1>5. /\ part.attempted = 0 /\ part.successful = 0 /\ part.failed = 0
      /\ part \in StatsRecords /\ part = NoStats /\ reading = "attempted"
      /\ got = Unread /\ counting = FALSE
  BY <1>1 DEF Init, NoStats, StatsRecords, ReadOrder, LoginsInit
<1>6. Within /\ Covered /\ ReadSoFar
  <2>1. ReadSoFar BY <1>5 DEF ReadSoFar, Unread
  <2>. QED BY <1>4, <1>5, <2>1 DEF Within, Covered, Nums
<1>7. StatsTypes
  <2>1. /\ at \in [Peers -> 0..MaxLogins] /\ peak \in [Peers -> 0..MaxLogins]
        /\ mail \in [Peers -> SUBSET (0..MaxLogins)]
        /\ stats \in [PeerHosts -> Nat \cup {None, Nil}]
    BY PeersAssumption DEF Init
  <2>. QED BY <1>1, <1>2, <1>5, <2>1 DEF Init, StatsTypes
<1>8. PeersHonest BY DEF Init, PeersHonest
<1>9. TotalBehind
  <2>1. SumOf(peak) \in Nat BY <1>7, PeaksFinite DEF PeaksCount
  <2>2. total = 0 BY DEF Init
  <2>. QED BY <1>4, <2>1, <2>2 DEF TotalBehind, Nums
<1>. QED BY <1>3, <1>6, <1>7, <1>8, <1>9 DEF IInv, Snapshots

\* A step that is not of a handler takes nothing back.
LEMMA StaysGrows ==
    ASSUME LInv, UNCHANGED lvars
    PROVE  LInv' /\ Grows
<1>1. LInv' /\ UNCHANGED <<logins, tally, counters, raced>>
  BY LoginsStay DEF lvars
<1>2. UNCHANGED Sets
  BY DEF lvars, Sets, Counted, Settled, Finished, SettledIn, SettledOut, FinishedIn,
         FinishedOut, Accepted
<1>3. raced' \subseteq Hosts BY <1>1 DEF LInv, Base, LoginsTypeOK
<1>. QED BY <1>1, <1>2, <1>3, SameCounts

\* The invariant is inductive.
LEMMA NextInv == IInv /\ [Next]_vars => IInv'
<1>. SUFFICES ASSUME IInv, [Next]_vars PROVE IInv' OBVIOUS
<1>1. LInv BY DEF IInv
<1>2. up \subseteq Peers BY DEF IInv, Snapshots, StatsTypes
<1>3. CASE Handlers
  <2>1. PICK a \in Attempts : Handle(a) BY <1>3 DEF Handlers
  <2>2. LInv' /\ Grows BY <1>1, <2>1, HandleInv
  <2>3. counting => OnlyGrows BY <1>1, <2>1, LockedGrows
  <2>. QED BY <1>3, <2>2, <2>3, GrowsKeeps DEF Handlers
<1>4. CASE Arrivals
  <2>1. LInv' /\ Grows BY <1>1, <1>4, BeginInv, SyncAddInv DEF Arrivals
  <2>2. OnlyGrows BY <1>1, <1>4, SameOnlyGrows DEF Arrivals, Begin, SyncAdd
  <2>. QED BY <1>4, <2>1, <2>2, GrowsKeeps DEF Arrivals
<1>5. CASE Worker BY <1>5, WorkerInv
<1>6. ASSUME NEW p \in up, PeerLogin(p) PROVE IInv' BY <1>2, <1>6, PeerLoginInv
<1>7. ASSUME NEW p \in up, PeerRestart(p) PROVE IInv' BY <1>2, <1>7, PeerRestartInv
<1>8. ASSUME NEW p \in up,
             PeerReport(p) \/ \E n \in mail[p] : AddStats(p, n) \/ Lose(p, n)
      PROVE  IInv'
  BY <1>2, <1>8, ReportInv
<1>9. CASE UNCHANGED vars
  <2>1. UNCHANGED <<lvars, svars, stats, total, died, pvars>> BY <1>9 DEF vars
  <2>2. LInv' /\ Grows BY <1>1, <2>1, StaysGrows
  <2>3. OnlyGrows BY <1>1, <2>1, SameOnlyGrows DEF lvars
  <2>. QED BY <2>1, <2>2, <2>3, GrowsKeeps
<1>. QED BY <1>3, <1>4, <1>5, <1>6, <1>7, <1>8, <1>9 DEF Next

\* So it always holds.
LEMMA AlwaysInv == Spec => []IInv
BY InitInv, NextInv, PTL DEF Spec

\* No step takes anything back.
LEMMA NextGrows == IInv /\ [Next]_vars => Grows
<1>. SUFFICES ASSUME IInv, [Next]_vars PROVE Grows OBVIOUS
<1>1. LInv BY DEF IInv
<1>2. CASE Handlers BY <1>1, <1>2, HandleInv DEF Handlers
<1>3. CASE Arrivals BY <1>1, <1>3, BeginInv, SyncAddInv DEF Arrivals
<1>4. CASE UNCHANGED lvars BY <1>1, <1>4, StaysGrows
<1>5. Worker => UNCHANGED lvars
  BY DEF Worker, ReadField, LockLogins, ReadLogin, ReadDone, UpdateStatsWorker,
         BroadcastStatsWorker, NextTurn
<1>6. ASSUME NEW p \in up,
             \/ PeerLogin(p) \/ PeerRestart(p) \/ PeerReport(p)
             \/ \E n \in mail[p] : AddStats(p, n) \/ Lose(p, n)
      PROVE  UNCHANGED lvars
  BY <1>6 DEF PeerLogin, PeerRestart, PeerReport, AddStats, Lose
<1>7. CASE UNCHANGED vars BY <1>4, <1>7 DEF vars
<1>. QED BY <1>2, <1>3, <1>4, <1>5, <1>6, <1>7 DEF Next

\* Loot, Logins, counters, snapshots, reports and peers keep their types.
THEOREM TypeCorrect == Spec => []TypeOK
<1>1. IInv => TypeOK
  BY LInvImplies DEF IInv, Snapshots, StatsTypes, ReadSoFar, TypeOK
<1>. QED BY <1>1, AlwaysInv, PTL

\* A bot whose user name and password were both known when authHandler was
\* called is refused, whoever collects what between its lookups, unless it is
\* whitelisted or its host is known and the dice let it back for more.
THEOREM NothingNewKeptOut == Spec => []NothingNewStaysOut
<1>1. IInv => NothingNewStaysOut BY LInvImplies DEF IInv
<1>. QED BY <1>1, AlwaysInv, PTL

\* The counters of AddFailure and AddSuccess count every attempt once, as what
\* the bot was told.
THEOREM CountersCountOnce == Spec => []CountersExact
<1>1. IInv => CountersExact BY LInvImplies DEF IInv
<1>. QED BY <1>1, AlwaysInv, PTL

\* A Login misses an attempt of its host only if two first logins of the host
\* have met inside Get.
THEOREM LostInRaceOnly == Spec => []LostOnlyInRace
<1>1. IInv => LostOnlyInRace BY LInvImplies DEF IInv
<1>. QED BY <1>1, AlwaysInv, PTL

\* What AddFailure, AddSuccess and the counters have counted is never taken
\* back, nor, until two first logins of a host meet inside Get, do the sums over
\* the map of Logins that stats reads ever shrink, although Get replaces Logins.
THEOREM NothingTakenBack == Spec => [][Grows]_vars
<1>1. IInv /\ [Next]_vars => [Grows]_vars BY NextGrows
<1>. QED BY <1>1, AlwaysInv, PTL DEF Spec

\* The fields that stats reads one by one, and each over Logins that go on
\* counting until their turn comes, never run ahead of the counters nor,
\* unless a Login was lost, the attempts ahead of their parts.
THEOREM SnapshotsBehind == Spec => []SnapshotBehind
<1>1. IInv => SnapshotBehind
  <2>. SUFFICES ASSUME IInv PROVE SnapshotBehind OBVIOUS
  <2>1. LInv /\ Nums /\ Within /\ Covered /\ part \in StatsRecords
    BY Numbers DEF IInv, Snapshots, StatsTypes
  <2>2. counters \in [logins : Nat, failed : Nat, successful : Nat]
    BY <2>1 DEF LInv, Base, LoginsTypeOK
  <2>. QED
    BY <2>1, <2>2, FinishedCounted
    DEF Within, Covered, Nums, StatsRecords, SnapshotBehind
<1>. QED BY <1>1, AlwaysInv, PTL

\* The total of GetStats never claims a login that did not happen, whatever is
\* reported late, twice, out of order or before a restart.
THEOREM TotalsBehind == Spec => []TotalBehind
<1>1. IInv => TotalBehind BY DEF IInv
<1>. QED BY <1>1, AlwaysInv, PTL
====
