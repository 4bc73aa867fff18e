------------------------------- MODULE Logins -------------------------------
(***************************************************************************)
(* Login attempts of the fake SSH server: authHandler and publicKeyHandler *)
(* of ossh_server.go decide, addLoginSuccess and addLoginFailure collect   *)
(* what was offered and count the attempt in ossh_logins.go and in the     *)
(* counters of metrics_server.go.                                          *)
(*                                                                         *)
(* An attempt is one call of a handler, in its own goroutine.  Every call  *)
(* of a Has... or Add... method is a step of its own, because each takes   *)
(* and releases its lock.  The locks of Loot and of the metrics are never  *)
(* held while another is waited for, so their holders are single steps;    *)
(* the lock of Logins is: GetSuccesses and GetFailures hold it while they  *)
(* wait for one Login after the other (NodeStats).  The dice (the current  *)
(* second modulo 3 and 7) are nondeterministic.  Sessions models what the  *)
(* handlers do to the session, Loot how an Add... checks and inserts and   *)
(* how the whitelist changes: here an Add... is one step, as the loot only *)
(* grows, and the whitelist is that of the behaviour.                      *)
(***************************************************************************)
EXTENDS Integers, FiniteSets

CONSTANTS Attempts,     \* calls of authHandler and publicKeyHandler
          HostOf,       \* attempt -> s.Host
          UserOf,       \* attempt -> ctx.User()
          PasswordOf,   \* attempt -> s.Password
          KeyOf,        \* attempt -> the SHA1 of its key, or NoKey
          NoKey,        \* the attempt offers a password
          Whitelisted,  \* whitelisted hosts
          Stored,       \* what AddUser and AddPassword make of an input
          Blank,        \* what TrimSpace leaves empty, never collected
          Learned,      \* items other nodes may send
          InitLoot,     \* items loaded at start
          NoLogin       \* no entry in the map of Logins

Hosts == {HostOf[a] : a \in Attempts}
Keys  == {KeyOf[a] : a \in Attempts} \ {NoKey}

ASSUME AttemptsAssumption ==
    /\ IsFiniteSet(Attempts) /\ NoLogin \notin Attempts
    /\ \A a \in Attempts : {UserOf[a], PasswordOf[a]} \subseteq DOMAIN Stored
    /\ Whitelisted \cap (Learned \cup InitLoot) = {}
    /\ Blank \notin Learned \cup InitLoot

VARIABLES
    loot,      \* users, passwords and hosts in the maps of Loot
    keys,      \* the files in captures/ssh-keys
    logins,    \* Logins.logins: host -> the Login, named by who made it
    counting,  \* GetSuccesses or GetFailures holds the lock of Logins
    tally,     \* the Login objects: failure and success
    counters,  \* the counters ossh_logins, ..._failed and ..._successful
    pc,        \* where each attempt is
    via,       \* the reason it was let in or refused for
    login,     \* the Login its Get returned
    stale,     \* history: passwords that were nothing new when offered
    raced      \* history: hosts whose first logins met inside Get

\* All but the lock, which only NodeStats takes over more than one step.
lvars == <<loot, keys, logins, tally, counters, pc, via, login, stale, raced>>

\* Reasons of addLoginSuccess and addLoginFailure.
Accepting == {"whitelisted", "back", "user", "password", "dodged", "key"}
Refusing  == {"nothing new", "dice", "known key"}
Undecided == "undecided"

Accepted(a) == via[a] \in Accepting

-----------------------------------------------------------------------------
(* Deciding                                                                *)

Goto(a, l) == pc' = [pc EXCEPT ![a] = l]

\* Call addLoginSuccess or addLoginFailure.  Both return early for a
\* whitelisted host: nothing is collected and nothing is counted.
Decide(a, reason) ==
    /\ via' = [via EXCEPT ![a] = reason]
    /\ Goto(a, IF HostOf[a] \in Whitelisted THEN "done" ELSE "add user")

\* A handler is called.  History: is the password it offers nothing new?
Begin(a) ==
    /\ pc[a] = "offered"
    /\ stale' = IF KeyOf[a] = NoKey /\ {UserOf[a], PasswordOf[a]} \subseteq loot
                THEN stale \cup {a} ELSE stale
    /\ \/ /\ HostOf[a] \in Whitelisted
          /\ Decide(a, "whitelisted")
       \/ /\ HostOf[a] \notin Whitelisted
          /\ Goto(a, IF KeyOf[a] = NoKey THEN "host" ELSE "key")
          /\ UNCHANGED via
    /\ UNCHANGED <<loot, keys, logins, tally, counters, login, raced>>

\* A known host is let in, unless the dice are against it.
CheckHost(a) ==
    /\ pc[a] = "host"
    /\ \/ HostOf[a] \in loot /\ Decide(a, "back")
       \/ Goto(a, "user") /\ UNCHANGED via
    /\ UNCHANGED <<loot, keys, logins, tally, counters, login, stale, raced>>

\* Mutant of CheckPair: a known user name alone lets the host in.
CheckPairUserFirst(a) ==
    /\ \/ /\ pc[a] = "user"
          /\ IF UserOf[a] \in loot THEN Decide(a, "user")
                                   ELSE Goto(a, "user only") /\ UNCHANGED via
       \/ /\ pc[a] = "password"
          /\ IF PasswordOf[a] \in loot THEN Decide(a, "nothing new")
             ELSE Goto(a, "user only") /\ UNCHANGED via
    /\ UNCHANGED <<loot, keys, logins, tally, counters, login, stale, raced>>

\* HasUser && HasPassword: the second is asked only if the first is true.
CheckPair(a) ==
    /\ \/ /\ pc[a] = "user"
          /\ Goto(a, IF UserOf[a] \in loot THEN "password" ELSE "user only")
          /\ UNCHANGED via
       \/ /\ pc[a] = "password"
          /\ IF PasswordOf[a] \in loot THEN Decide(a, "nothing new")
             ELSE Goto(a, "user only") /\ UNCHANGED via
    /\ UNCHANGED <<loot, keys, logins, tally, counters, login, stale, raced>>

\* HasUser again, then HasPassword again: one of them known is good enough.
CheckOne(a) ==
    /\ \/ /\ pc[a] = "user only"
          /\ IF UserOf[a] \in loot THEN Decide(a, "user")
             ELSE Goto(a, "password only") /\ UNCHANGED via
       \/ /\ pc[a] = "password only"
          /\ IF PasswordOf[a] \in loot THEN Decide(a, "password")
             ELSE Goto(a, "roll") /\ UNCHANGED via
    /\ UNCHANGED <<loot, keys, logins, tally, counters, login, stale, raced>>

RollDice(a) ==
    /\ pc[a] = "roll"
    /\ Decide(a, "dice") \/ Decide(a, "dodged")
    /\ UNCHANGED <<loot, keys, logins, tally, counters, login, stale, raced>>

\* publicKeyHandler: FileExists, then WriteFile, whose error is ignored.  No
\* dice are rolled for a known key.
CheckKey(a) ==
    /\ pc[a] = "key"
    /\ IF KeyOf[a] \in keys THEN Decide(a, "known key")
                            ELSE Goto(a, "save key") /\ UNCHANGED via
    /\ UNCHANGED <<loot, keys, logins, tally, counters, login, stale, raced>>

SaveKey(a) ==
    /\ pc[a] = "save key"
    /\ keys' \in {keys, keys \cup {KeyOf[a]}}
    /\ Decide(a, "key")
    /\ UNCHANGED <<loot, logins, tally, counters, login, stale, raced>>

-----------------------------------------------------------------------------
(* addLoginFailure and addLoginSuccess of a host that is not whitelisted   *)

\* Mutant of Collect: AddUser and AddPassword do not test for blanks.
CollectBlanks(a) ==
    /\ \E s \in {<<"add user", Stored[UserOf[a]], "add password">>,
                 <<"add password", Stored[PasswordOf[a]], "add host">>,
                 <<"add host", HostOf[a], "has">>} :
          /\ pc[a] = s[1]
          /\ loot' = loot \cup {s[2]}
          /\ Goto(a, s[3])
    /\ UNCHANGED <<keys, logins, tally, counters, via, login, stale, raced>>

\* AddUser, AddPassword and AddHost.  What is stored is not always what was
\* asked for: an empty password becomes a word, surrounding blanks go.
Collect(a) ==
    /\ \E s \in {<<"add user", Stored[UserOf[a]], "add password">>,
                 <<"add password", Stored[PasswordOf[a]], "add host">>,
                 <<"add host", HostOf[a], "has">>} :
          /\ pc[a] = s[1]
          /\ loot' = loot \cup ({s[2]} \ {Blank})
          /\ Goto(a, s[3])
    /\ UNCHANGED <<keys, logins, tally, counters, via, login, stale, raced>>

\* External: other nodes and their ADD-USER, ADD-PASSWORD, ADD-HOST.
SyncAdd(i) ==
    /\ i \in Learned \ loot
    /\ loot' = loot \cup {i}
    /\ UNCHANGED <<keys, logins, tally, counters, pc, via, login, stale, raced>>

\* Attempts for a host that have found no Login and not yet made one.
Creating(h) == {a \in Attempts : HostOf[a] = h /\ pc[a] = "create"}

\* Mutant of GetHas: every call makes a Login of its own.
GetHasNot(a) ==
    /\ pc[a] = "has" /\ ~counting
    /\ Goto(a, "create")
    /\ UNCHANGED <<loot, keys, logins, tally, counters, via, login, stale,
                   raced>>

\* Logins.Get, first critical section: Has.
GetHas(a) ==
    /\ pc[a] = "has" /\ ~counting
    /\ Goto(a, IF logins[HostOf[a]] = NoLogin THEN "create" ELSE "get")
    /\ raced' = raced \cup {h \in Hosts : Cardinality(Creating(h)') > 1}
    /\ UNCHANGED <<loot, keys, logins, tally, counters, via, login, stale>>

\* Second: a new Login, whatever the map holds by then.
GetCreate(a) ==
    /\ pc[a] = "create" /\ ~counting
    /\ logins' = [logins EXCEPT ![HostOf[a]] = a]
    /\ tally' = [tally EXCEPT ![a] = [failure |-> 0, success |-> 0]]
    /\ Goto(a, "get")
    /\ UNCHANGED <<loot, keys, counters, via, login, stale, raced>>

\* Third: the Login the map holds now.
GetReturn(a) ==
    /\ pc[a] = "get" /\ ~counting
    /\ login' = [login EXCEPT ![a] = logins[HostOf[a]]]
    /\ Goto(a, "lock")
    /\ UNCHANGED <<loot, keys, logins, tally, counters, via, stale, raced>>

\* AddFailure and AddSuccess: ls.lock is held over both counters.
Locked(l) == \E a \in Attempts : login[a] = l /\ pc[a] \in {"outcome", "add"}

CountLogin(a) ==
    /\ pc[a] = "lock"
    /\ ~Locked(login[a])
    /\ counters' = [counters EXCEPT !.logins = @ + 1]
    /\ Goto(a, "outcome")
    /\ UNCHANGED <<loot, keys, logins, tally, via, login, stale, raced>>

\* Mutant of CountOutcome: AddSuccess was copied from AddFailure.
CountOutcomeCopied(a) ==
    /\ pc[a] = "outcome"
    /\ counters' = [counters EXCEPT !.failed = @ + 1]
    /\ Goto(a, "add")
    /\ UNCHANGED <<loot, keys, logins, tally, via, login, stale, raced>>

CountOutcome(a) ==
    /\ pc[a] = "outcome"
    /\ IF Accepted(a) THEN counters' = [counters EXCEPT !.successful = @ + 1]
                      ELSE counters' = [counters EXCEPT !.failed = @ + 1]
    /\ Goto(a, "add")
    /\ UNCHANGED <<loot, keys, logins, tally, via, login, stale, raced>>

\* Mutant of AddToLogin: the log line, which asks the Logins for their number,
\* is printed before Unlock.
AddToLoginLogs(a) ==
    /\ pc[a] = "add" /\ ~counting
    /\ IF Accepted(a) THEN tally' = [tally EXCEPT ![login[a]].success = @ + 1]
                      ELSE tally' = [tally EXCEPT ![login[a]].failure = @ + 1]
    /\ Goto(a, "done")
    /\ login' = [login EXCEPT ![a] = NoLogin]
    /\ UNCHANGED <<loot, keys, logins, counters, via, stale, raced>>

\* The field of the Login, and Unlock.  The log line that follows reads it
\* through Get and GetAttempts, which take one lock after the other.
AddToLogin(a) ==
    /\ pc[a] = "add"
    /\ IF Accepted(a) THEN tally' = [tally EXCEPT ![login[a]].success = @ + 1]
                      ELSE tally' = [tally EXCEPT ![login[a]].failure = @ + 1]
    /\ Goto(a, "done")
    /\ login' = [login EXCEPT ![a] = NoLogin]
    /\ UNCHANGED <<loot, keys, logins, counters, via, stale, raced>>

-----------------------------------------------------------------------------
\* coming: the attempts of this behaviour.
LoginsInit(coming) ==
    /\ loot = InitLoot
    /\ keys = {}
    /\ logins = [h \in Hosts |-> NoLogin] /\ counting = FALSE
    /\ tally = [a \in Attempts |-> [failure |-> 0, success |-> 0]]
    /\ counters = [logins |-> 0, failed |-> 0, successful |-> 0]
    /\ pc = [a \in Attempts |-> IF a \in coming THEN "offered" ELSE "absent"]
    /\ via = [a \in Attempts |-> Undecided]
    /\ login = [a \in Attempts |-> NoLogin]
    /\ stale = {}
    /\ raced = {}

\* A step of the goroutine of an attempt that has begun.
Handle(a) ==
    \/ CheckHost(a) \/ CheckPair(a) \/ CheckOne(a) \/ RollDice(a)
    \/ CheckKey(a) \/ SaveKey(a) \/ Collect(a)
    \/ GetHas(a) \/ GetCreate(a) \/ GetReturn(a)
    \/ CountLogin(a) \/ CountOutcome(a) \/ AddToLogin(a)

-----------------------------------------------------------------------------
(* Properties                                                              *)

Locations == {"absent", "offered", "host", "user", "password", "user only",
              "password only", "roll", "key", "save key", "add user",
              "add password", "add host", "has", "create", "get", "lock",
              "outcome", "add", "done"}

LoginsTypeOK ==
    /\ loot \subseteq ((Hosts \cup {Stored[i] : i \in DOMAIN Stored}) \ {Blank})
                    \cup Learned \cup InitLoot
    /\ keys \subseteq Keys
    /\ logins \in [Hosts -> Attempts \cup {NoLogin}]
    /\ tally \in [Attempts -> [failure : Nat, success : Nat]]
    /\ counters \in [logins : Nat, failed : Nat, successful : Nat]
    /\ pc \in [Attempts -> Locations]
    /\ via \in [Attempts -> Accepting \cup Refusing \cup {Undecided}]
    /\ login \in [Attempts -> Attempts \cup {NoLogin}]
    /\ stale \subseteq Attempts /\ raced \subseteq Hosts

\* A bot whose user name and password were both known when authHandler was
\* called is refused, although others collect items between the handler's four
\* lookups, unless it is whitelisted or its host is known and the dice let it
\* back for more.  ("come back when you have something we don't know yet!")
NothingNewStaysOut ==
    \A a \in stale : Accepted(a) => via[a] \in {"whitelisted", "back"}

\* Attempts that have passed CountLogin, CountOutcome and AddToLogin.
Counted  == {a \in Attempts : /\ HostOf[a] \notin Whitelisted
                              /\ pc[a] \in {"outcome", "add", "done"}}
Settled  == {a \in Counted : pc[a] # "outcome"}
Finished == {a \in Settled : pc[a] = "done"}

\* The three counters count every attempt of a host that is not whitelisted
\* exactly once, as what the bot was told, although each is incremented in a
\* critical section of its own.
CountersExact ==
    /\ counters.logins = Cardinality(Counted)
    /\ counters.failed = Cardinality({a \in Settled : ~Accepted(a)})
    /\ counters.successful = Cardinality({a \in Settled : Accepted(a)})

\* The Login of a host knows every attempt of that host, unless two first
\* logins met inside Get: only there does a Login that has counted get lost.
LostOnlyInRace ==
    \A h \in Hosts \ raced :
        LET done == {a \in Finished : HostOf[a] = h}
        IN IF logins[h] = NoLogin THEN done = {}
           ELSE tally[logins[h]] =
                  [failure |-> Cardinality({a \in done : ~Accepted(a)}),
                   success |-> Cardinality({a \in done : Accepted(a)})]

\* Every call of a handler returns, although Get takes the lock of Logins up
\* to three times, stats holds that lock while it waits for each Login, and a
\* handler holds its Login while it counts.  There are finitely many calls, so
\* from some time on none is under way.
HandlersReturn ==
    <>[](\A a \in Attempts : pc[a] \in {"absent", "offered", "done"})
====
