--------------------------- MODULE FakeShellProofs ---------------------------
(***************************************************************************)
(* Proofs of the invariants of FakeShell for any number of shells, any     *)
(* sessions and any tree.                                                  *)
(***************************************************************************)
EXTENDS FakeShell, FakeFSProofs, FiniteSetTheorems

-----------------------------------------------------------------------------
(* The inductive invariant                                                 *)

Nul == [t |-> "nul"]

\* The locations where a header of a file has been acknowledged: before its
\* contents have been read, and after.
Awaiting == {"mkdir", "open", "data"}
Storing  == {"write", "check", "capture", "save", "done"}

\* The types of the variables but for the trees.
Typed ==
    /\ plan \in Plans
    /\ sh \in [Shells -> ShellState]
    /\ client \in [Shells -> [sent : Nat, acks : Nat, end : {"open", "eof", "cut"}]]
    /\ wire \in [Shells -> Seq(Token)]
    /\ failed \subseteq Paths /\ (failed # {} => plan \in DiskFails)
    /\ \A h \in payloads : h \in Seq(Lines)

\* What has been run, the rest of the lines and the inputs not yet read make
\* up the script.  The acknowledgements begin with a line that has been run.
OnScript(s) ==
    /\ (sh[s].history \o sh[s].lines) \o FlattenSeq(sh[s].queue) = Script(s)
    /\ plan[s].exec => sh[s].queue = <<>>
    /\ At(s, "read") => sh[s].lines = <<>> /\ ~ plan[s].exec
    /\ sh[s].target.from \in {"root", "cwd"}
    /\ client[s].acks > 0 => \E i \in DOMAIN sh[s].history : IsSink(sh[s].history[i])

Scripted == \A s \in Shells : OnScript(s)

\* A client sends no more than its upload and waits for acknowledgements; one
\* that has hung up has nothing more to say.
Waits(s) ==
    LET c == client[s]
        u == plan[s].upload
    IN /\ c.sent <= c.acks /\ c.sent <= Len(u) /\ c.acks <= Len(u) + 1
       /\ c.acks <= c.sent + 2
       /\ c.acks = 0 => wire[s] = <<>>
       /\ c.end = "eof" => IF plan[s].exec THEN c.acks = Len(u) + 1
                                           ELSE sh[s].queue = <<>>

Paced == \A s \in Shells : Waits(s)

\* When cmdScp is about to read a message, all headers but the next have been
\* acknowledged.  The zero byte after a file may be still under way, and after
\* an empty one the client may not even have sent it.
BetweenFiles(s) ==
    LET c   == client[s]
        u   == plan[s].upload
        w   == wire[s]
        cut == c.end = "cut"
    IN /\ c.acks >= 1 /\ sh[s].dirs = Dirs(s, c.acks - 1)
       /\ sh[s].from = From(s, c.acks - 1)
       /\ c.acks > 1 => u[c.acks - 1].t # "C"
       /\ \/ /\ c.sent = c.acks - 2 /\ w = <<>>
             /\ u[c.acks - 1].t = "data"
             /\ cut \/ Part(u[c.acks - 1]) = <<Nul>>
          \/ c.sent = c.acks - 1 /\ w \in {<<>>, <<Nul>>}
          \/ c.sent = c.acks /\ w \in {<<u[c.acks]>>, <<Nul, u[c.acks]>>}
          \/ c.sent = c.acks /\ cut /\ w \in {<<>>, <<Nul>>}

InStepAtType == \A s \in Shells : At(s, "type") => BetweenFiles(s)

\* The header that was acknowledged last is that of the file in hand.
OnHeader(s) ==
    LET n == client[s].acks - 1
    IN /\ n \in 1..Len(plan[s].upload) /\ plan[s].upload[n].t = "C"
       /\ sh[s].left = plan[s].upload[n].length
       /\ sh[s].dirs = Dirs(s, n) /\ sh[s].from = From(s, n)
       /\ sh[s].key = Name(s, n)
       /\ sh[s].path = Base(s) \o sh[s].key

Expecting(s) ==
    LET c == client[s]
        p == Part(plan[s].upload[c.acks])
    IN /\ OnHeader(s)
       /\ \/ c.sent = c.acks - 1 /\ wire[s] = <<>>
          \/ c.sent = c.acks /\ wire[s] = p
          \/ c.sent = c.acks /\ c.end = "cut" /\ wire[s] \in Prefixes(p)

InStepAwaiting == \A s \in Shells : sh[s].pc \in Awaiting => Expecting(s)

Holding(s) ==
    LET c == client[s]
    IN /\ OnHeader(s)
       /\ sh[s].data \in Sent(s, c.acks - 1)
       /\ \/ c.sent = c.acks - 1 /\ wire[s] = <<>> /\ (c.end = "cut" \/ sh[s].left = 0)
          \/ c.sent = c.acks /\ wire[s] = <<Nul>>
          \/ c.sent = c.acks /\ c.end = "cut" /\ wire[s] = <<>>

InStepStoring == \A s \in Shells : sh[s].pc \in Storing => Holding(s)

\* The trees, the file that is open, and what rm has tested.
Grown ==
    /\ IsTree(tree) /\ IsTree(captures)
    /\ \A s \in Shells :
          /\ sh[s].file # NoFile => /\ FileExists(tree, sh[s].file)
                                    /\ sh[s].pc \in Storing \cup {"data"}
          /\ At(s, "unlink") => sh[s].args # <<>> /\ ToAbs(s, Head(sh[s].args)) # Outside

\* No line is run after one that exits; whoever is closing is through with his
\* script, has been told to, or was cut off.
Records(s) ==
    LET h == sh[s].history
    IN /\ \A i \in DOMAIN h : Rule(h[i]) = "exit" =>
             i = Len(h) /\ sh[s].pc \in {"close", "ended", "panicked"}
       /\ sh[s].pc \in {"close", "ended"} =>
             \/ client[s].end = "cut"
             \/ sh[s].lines = <<>> /\ sh[s].queue = <<>>
             \/ h # <<>> /\ Rule(Last(h)) = "exit"

Recording ==
    /\ \A s \in Shells : Records(s)
    /\ LET counted == UNION {{s} \X Counted(sh[s].history) : s \in Shells}
       IN IsFiniteSet(counted) /\ executed = Cardinality(counted)

\* Whoever made a file in the captures has been offered its name, and has got
\* at least as far as to make it.
Owned ==
    \A k \in DOMAIN captures : FileExists(captures, k) =>
        \E r \in Shells : \E m \in Offers(r) :
            /\ Name(r, m) = k
            /\ \/ client[r].acks > m + 1
               \/ client[r].acks = m + 1 /\ sh[r].pc \in {"save", "done"}

\* From the test for a captured copy to the acknowledgement.
Captures(s) ==
    LET k == sh[s].key
        n == client[s].acks - 1
    IN /\ At(s, "capture") /\ Alone(s, k) => ~ FileExists(captures, k)
       /\ At(s, "save") =>
             /\ FileExists(captures, k)
             /\ Alone(s, k) /\ k \notin failed => captures[k] = <<>> /\ First(s, k, n)
       /\ At(s, "done") => Captured(s, n)

Capturing == \A s \in Shells : Captures(s)

InStep == InStepAtType /\ InStepAwaiting /\ InStepStoring

IndInv == /\ Typed /\ Scripted /\ Paced /\ InStep /\ Grown /\ Recording
          /\ Owned /\ Capturing /\ UploadCaptured /\ CapturedWhole

-----------------------------------------------------------------------------
(* Steps of one shell                                                      *)

Fields == {"pc", "cwd", "queue", "lines", "history", "args", "path",
           "target", "from", "dirs", "file", "left", "key", "data"}

Kind(x) == CASE x = "pc"      -> Locations
             [] x = "cwd"     -> Paths
             [] x = "queue"   -> Seq(Seq(Lines))
             [] x = "lines"   -> Seq(Lines)
             [] x = "history" -> Seq(Lines)
             [] x = "args"    -> Seq(Args)
             [] x = "path"    -> Paths
             [] x = "target"  -> Args
             [] x = "from"    -> {"root", "cwd"}
             [] x = "dirs"    -> Seq(Paths)
             [] x = "file"    -> Paths \cup {NoFile}
             [] x = "left"    -> Nat
             [] x = "key"     -> Paths
             [] x = "data"    -> Seq(Bytes)

\* A shell's state is a function on its fields.
LEMMA StateKinds ==
    ASSUME NEW r
    PROVE  r \in ShellState <=> /\ r = [x \in Fields |-> r[x]]
                                /\ \A x \in Fields : r[x] \in Kind(x)
<1>1. ASSUME r \in ShellState PROVE r = [x \in Fields |-> r[x]]
  BY <1>1 DEF ShellState, Fields
<1>2. ASSUME r \in ShellState PROVE \A x \in Fields : r[x] \in Kind(x)
  BY <1>2 DEF ShellState, Fields, Kind
<1>3. ASSUME r = [x \in Fields |-> r[x]], \A x \in Fields : r[x] \in Kind(x)
      PROVE  r \in ShellState
  <2>1. /\ r["pc"] \in Locations /\ r["cwd"] \in Paths
        /\ r["queue"] \in Seq(Seq(Lines)) /\ r["lines"] \in Seq(Lines)
        /\ r["history"] \in Seq(Lines)
        /\ r["args"] \in Seq(Args) /\ r["path"] \in Paths /\ r["target"] \in Args
        /\ r["from"] \in {"root", "cwd"}
        /\ r["dirs"] \in Seq(Paths) /\ r["file"] \in Paths \cup {NoFile}
        /\ r["left"] \in Nat /\ r["key"] \in Paths /\ r["data"] \in Seq(Bytes)
    BY <1>3 DEF Fields, Kind
  <2>. QED
    BY <1>3, <2>1 DEF ShellState, Fields
<1>. QED
  BY <1>1, <1>2, <1>3

\* What Go changes of a shell, and that it leaves it one.
LEMMA GoStep ==
    ASSUME sh \in [Shells -> ShellState], NEW s \in Shells, NEW f, Go(s, f),
           DOMAIN f \subseteq Fields, \A x \in DOMAIN f : f[x] \in Kind(x)
    PROVE  /\ sh' \in [Shells -> ShellState]
           /\ \A r \in Shells \ {s} : sh'[r] = sh[r]
           /\ \A x \in DOMAIN f : sh'[s][x] = f[x]
           /\ \A x \in Fields \ DOMAIN f : sh'[s][x] = sh[s][x]
<1>. DEFINE g == Put(sh[s], f)
<1>1. /\ sh[s] = [x \in Fields |-> sh[s][x]]
      /\ \A x \in Fields : sh[s][x] \in Kind(x)
  BY StateKinds
<1>2. DOMAIN sh[s] = Fields
  BY <1>1
<1>3. /\ g = [x \in Fields |-> g[x]]
      /\ \A x \in DOMAIN f : g[x] = f[x]
      /\ \A x \in Fields \ DOMAIN f : g[x] = sh[s][x]
  BY <1>2 DEF Put
<1>. HIDE DEF g
<1>4. \A x \in Fields : g[x] \in Kind(x)
  BY <1>1, <1>3
<1>5. g \in ShellState
  BY <1>3, <1>4, StateKinds
<1>6. sh' = [sh EXCEPT ![s] = g]
  BY DEF Go, g
<1>. QED
  BY <1>3, <1>5, <1>6

\* A line that is run is recorded, whatever else the step does to the shell.
LEMMA RecordedStep ==
    ASSUME sh \in [Shells -> ShellState], NEW s \in Shells, sh[s].lines # <<>>,
           NEW g, Go(s, Put(Recorded(s, Head(sh[s].lines)), g)),
           DOMAIN g \subseteq Fields \ {"history", "lines"},
           \A x \in DOMAIN g : g[x] \in Kind(x)
    PROVE  /\ sh' \in [Shells -> ShellState]
           /\ \A r \in Shells \ {s} : sh'[r] = sh[r]
           /\ \A x \in DOMAIN g : sh'[s][x] = g[x]
           /\ sh'[s].history = Append(sh[s].history, Head(sh[s].lines))
           /\ sh'[s].lines = Tail(sh[s].lines)
           /\ \A x \in Fields \ ({"history", "lines"} \cup DOMAIN g) :
                 sh'[s][x] = sh[s][x]
<1>. DEFINE l == Head(sh[s].lines)
            e == Recorded(s, l)
            f == Put(e, g)
<1>1. /\ sh[s].lines \in Seq(Lines) /\ sh[s].history \in Seq(Lines)
  BY DEF ShellState
<1>2. l \in Lines /\ Tail(sh[s].lines) \in Seq(Lines)
  BY <1>1, HeadTailProperties
<1>. HIDE DEF l
<1>3. /\ DOMAIN e = {"history", "lines"}
      /\ e["history"] = Append(sh[s].history, l)
      /\ e["lines"] = Tail(sh[s].lines)
  BY DEF Recorded
<1>4. /\ e["history"] \in Seq(Lines)
      /\ e["lines"] \in Seq(Lines)
  BY <1>1, <1>2, <1>3, AppendProperties
<1>. HIDE DEF e
<1>5. /\ DOMAIN f = {"history", "lines"} \cup DOMAIN g
      /\ \A x \in DOMAIN g : f[x] = g[x]
      /\ \A x \in {"history", "lines"} : f[x] = e[x]
  BY <1>3 DEF Put
<1>. HIDE DEF f
<1>6. DOMAIN f \subseteq Fields
  BY <1>5 DEF Fields
<1>7. \A x \in DOMAIN f : f[x] \in Kind(x)
  BY <1>4, <1>5 DEF Kind
<1>8. Go(s, f)
  BY DEF f, e, l
<1>9. /\ sh' \in [Shells -> ShellState]
      /\ \A r \in Shells \ {s} : sh'[r] = sh[r]
      /\ \A x \in DOMAIN f : sh'[s][x] = f[x]
      /\ \A x \in Fields \ DOMAIN f : sh'[s][x] = sh[s][x]
  BY <1>6, <1>7, <1>8, GoStep
<1>. QED
  BY <1>3, <1>5, <1>9 DEF l

\* What a step that runs a line does, seen from the proofs.
LineRun(s) ==
    LET l == Head(sh[s].lines)
    IN /\ At(s, "line") /\ sh[s].lines # <<>>
       /\ sh' \in [Shells -> ShellState]
       /\ \A r \in Shells \ {s} : sh'[r] = sh[r]
       /\ sh'[s].history = Append(sh[s].history, l)
       /\ sh'[s].lines = Tail(sh[s].lines)
       /\ \A x \in {"queue", "file", "left", "key", "data"} : sh'[s][x] = sh[s][x]
       /\ Count(l)
       /\ UNCHANGED <<plan, wire, captures, failed, payloads>>
       /\ sh'[s].pc \in {"line", "close", "panicked", "rm", "cat", "touch", "type"}
       /\ sh'[s].pc = "close" <=> Rule(l) = "exit"
       /\ IF sh'[s].pc = "type"
          THEN /\ IsSink(l) /\ l.args # <<>> /\ sh'[s].cwd = sh[s].cwd
               /\ sh'[s].target = l.args[1] /\ sh'[s].from = l.args[1].from
               /\ sh'[s].dirs = <<l.args[1].path>> /\ Ack(s)
          ELSE /\ sh'[s].target = sh[s].target /\ sh'[s].from = sh[s].from
               /\ sh'[s].dirs = sh[s].dirs
               /\ UNCHANGED client
       /\ \/ UNCHANGED tree
          \/ \E p \in Paths \ {Root} : tree' = MkdirAll(tree, Front(p))
       /\ sh'[s].pc \in {"cat", "touch"} => sh'[s].path \in Paths \ {Root}

\* Without the trees and the sessions, what a step on s may rely on.
LEMMA LineTyped ==
    ASSUME sh \in [Shells -> ShellState], NEW s \in Shells, sh[s].lines # <<>>
    PROVE  /\ Head(sh[s].lines) \in Lines
           /\ Head(sh[s].lines).args \in Seq(Args)
           /\ Head(sh[s].lines).args # <<>> => Head(sh[s].lines).args[1] \in Args
<1>1. sh[s].lines \in Seq(Lines)
  BY DEF ShellState
<1>2. Head(sh[s].lines) \in Lines
  BY <1>1, HeadTailProperties
<1>3. Head(sh[s].lines).args \in Seq(Args)
  BY <1>2 DEF Lines
<1>4. Head(sh[s].lines).args # <<>> => 1 \in 1..Len(Head(sh[s].lines).args)
  BY <1>3, EmptySeq
<1>. QED
  BY <1>2, <1>3, <1>4, ElementOfSeq

\* Where an argument leads.
LEMMA ToAbsPath ==
    ASSUME sh \in [Shells -> ShellState], NEW s \in Shells, NEW a \in Args
    PROVE  /\ ToAbs(s, a) \in Paths \cup {Outside}
           /\ a.from # "outside" => ToAbs(s, a) \in Paths
<1>1. /\ sh[s].cwd \in Seq(Names) /\ User[s] \in Seq(Names) /\ a.path \in Seq(Names)
      /\ a.from \in {"root", "home", "cwd", "outside"}
  BY PlansAssumption DEF ShellState, Args, Paths
<1>2. User[s] \o a.path \in Seq(Names) /\ sh[s].cwd \o a.path \in Seq(Names)
  BY <1>1, ConcatProperties
<1>. QED
  BY <1>1, <1>2 DEF ToAbs, Paths

\* The steps that run a line.
Running(s) == \/ Exec(s) \/ CmdCd(s) \/ CmdLs(s) \/ CmdRm(s) \/ CmdOpen(s) \/ CmdScp(s)

\* A line that is run by a built-in command, or not, has what LineRun says.
LEMMA RunningStep ==
    ASSUME sh \in [Shells -> ShellState], IsTree(tree), NEW s \in Shells, Running(s),
           sh[s].lines # <<>> /\ IsSink(Head(sh[s].lines)) =>
              /\ Head(sh[s].lines).args # <<>>
              /\ Head(sh[s].lines).args[1].from \in {"root", "cwd"}
    PROVE  LineRun(s)
<1>. DEFINE l == Head(sh[s].lines)
<1>1. At(s, "line") /\ sh[s].lines # <<>>
  BY DEF Running, Exec, CmdCd, CmdLs, CmdRm, CmdOpen, CmdScp, Runs
<1>2. /\ l \in Lines /\ l.args \in Seq(Args)
      /\ l.args # <<>> => l.args[1] \in Args
  BY <1>1, LineTyped
<1>. HIDE DEF l
<1>3. ASSUME NEW g, Go(s, Put(Recorded(s, l), g)),
             DOMAIN g \subseteq Fields \ {"history", "lines"},
             \A x \in DOMAIN g : g[x] \in Kind(x)
      PROVE  /\ sh' \in [Shells -> ShellState]
             /\ \A r \in Shells \ {s} : sh'[r] = sh[r]
             /\ \A x \in DOMAIN g : sh'[s][x] = g[x]
             /\ sh'[s].history = Append(sh[s].history, l)
             /\ sh'[s].lines = Tail(sh[s].lines)
             /\ \A x \in Fields \ ({"history", "lines"} \cup DOMAIN g) :
                   sh'[s][x] = sh[s][x]
  BY <1>1, <1>3, RecordedStep DEF l
<1>4. ASSUME Go(s, Put(Recorded(s, l), <<>>))
      PROVE  /\ sh' \in [Shells -> ShellState]
             /\ \A r \in Shells \ {s} : sh'[r] = sh[r]
             /\ sh'[s].history = Append(sh[s].history, l)
             /\ sh'[s].lines = Tail(sh[s].lines)
             /\ \A x \in Fields \ {"history", "lines"} : sh'[s][x] = sh[s][x]
  <2>1. DOMAIN <<>> = {}
    OBVIOUS
  <2>. QED
    BY <1>3, <1>4, <2>1
<1>5. ASSUME Go(s, Recorded(s, l))
      PROVE  Go(s, Put(Recorded(s, l), <<>>))
  <2>1. Put(Recorded(s, l), <<>>) = Recorded(s, l)
    BY DEF Put, Recorded
  <2>2. Put(sh[s], Put(Recorded(s, l), <<>>)) = Put(sh[s], Recorded(s, l))
    BY <2>1
  <2>. QED
    BY <1>5, <2>2 DEF Go
<1>6. CASE Exec(s)
  <2>1. /\ Rule(l) # "builtin" /\ Count(l)
        /\ Go(s, Put(Recorded(s, l), IF Rule(l) = "exit" THEN [pc |-> "close"] ELSE <<>>))
        /\ UNCHANGED <<plan, client, wire, tree, captures, failed, payloads>>
    BY <1>6 DEF Exec, l
  <2>2. CASE Rule(l) = "exit"
    <3>. DEFINE g == [pc |-> "close"]
    <3>1. DOMAIN g = {"pc"} /\ g["pc"] = "close"
      OBVIOUS
    <3>2. DOMAIN g \subseteq Fields \ {"history", "lines"}
      BY <3>1 DEF Fields
    <3>3. \A x \in DOMAIN g : g[x] \in Kind(x)
      BY <3>1 DEF Kind, Locations
    <3>4. Go(s, Put(Recorded(s, l), g))
      BY <2>1, <2>2
    <3>. HIDE DEF g
    <3>. QED
      BY <1>1, <1>3, <2>1, <2>2, <3>1, <3>2, <3>3, <3>4 DEF LineRun, Fields, l
  <2>3. CASE Rule(l) # "exit"
    <3>1. Go(s, Put(Recorded(s, l), <<>>))
      BY <2>1, <2>3
    <3>. QED
      BY <1>1, <1>4, <2>1, <2>3, <3>1 DEF LineRun, Fields, At, l
  <2>. QED
    BY <2>2, <2>3
<1>7. CASE CmdCd(s)
  <2>. DEFINE path == IF l.args = <<>> THEN User[s] ELSE ToAbs(s, l.args[1])
  <2>1. /\ Rule(l) = "builtin" /\ Count(l)
        /\ UNCHANGED <<plan, client, wire, tree, captures, failed, payloads>>
        /\ Go(s, Put(Recorded(s, l),
                     IF DirExists(tree, path) THEN [cwd |-> path] ELSE <<>>))
    BY <1>7 DEF CmdCd, Runs, l
  <2>2. CASE DirExists(tree, path) /\ path \in Paths
    <3>. DEFINE g == [cwd |-> path]
    <3>1. DOMAIN g = {"cwd"} /\ g["cwd"] = path
      OBVIOUS
    <3>2. DOMAIN g \subseteq Fields \ {"history", "lines"}
      BY <3>1 DEF Fields
    <3>. HIDE DEF path
    <3>3. \A x \in DOMAIN g : g[x] \in Kind(x)
      BY <2>2, <3>1 DEF Kind
    <3>4. Go(s, Put(Recorded(s, l), g))
      BY <2>1, <2>2
    <3>. HIDE DEF g
    <3>5. /\ sh' \in [Shells -> ShellState]
          /\ \A r \in Shells \ {s} : sh'[r] = sh[r]
          /\ sh'[s].history = Append(sh[s].history, l)
          /\ sh'[s].lines = Tail(sh[s].lines)
          /\ \A x \in {"queue", "file", "left", "key", "data", "target", "from", "dirs"} :
                sh'[s][x] = sh[s][x]
          /\ sh'[s].pc = sh[s].pc
      BY <1>3, <3>1, <3>2, <3>3, <3>4 DEF Fields
    <3>. QED
      BY <1>1, <2>1, <3>5 DEF LineRun, At, l
  <2>3. CASE ~ DirExists(tree, path)
    <3>1. Go(s, Put(Recorded(s, l), <<>>))
      BY <2>1, <2>3
    <3>. QED
      BY <1>1, <1>4, <2>1, <3>1 DEF LineRun, Fields, At, l
  <2>4. DirExists(tree, path) => path \in Paths
    BY DEF DirExists, IsTree
  <2>. QED
    BY <2>2, <2>3, <2>4
<1>8. CASE CmdLs(s)
  <2>1. /\ Rule(l) = "builtin" /\ Count(l)
        /\ UNCHANGED <<plan, client, wire, tree, captures, failed, payloads>>
        /\ \/ Go(s, Put(Recorded(s, l), [pc |-> "panicked"]))
           \/ Go(s, Recorded(s, l))
    BY <1>8 DEF CmdLs, Runs, l
  <2>2. CASE Go(s, Put(Recorded(s, l), [pc |-> "panicked"]))
    <3>. DEFINE g == [pc |-> "panicked"]
    <3>1. DOMAIN g = {"pc"} /\ g["pc"] = "panicked"
      OBVIOUS
    <3>2. DOMAIN g \subseteq Fields \ {"history", "lines"}
      BY <3>1 DEF Fields
    <3>3. \A x \in DOMAIN g : g[x] \in Kind(x)
      BY <3>1 DEF Kind, Locations
    <3>4. Go(s, Put(Recorded(s, l), g))
      BY <2>2
    <3>. HIDE DEF g
    <3>. QED
      BY <1>1, <1>3, <2>1, <3>1, <3>2, <3>3, <3>4 DEF LineRun, Fields, l
  <2>3. CASE Go(s, Recorded(s, l))
    BY <1>1, <1>4, <1>5, <2>1, <2>3 DEF LineRun, Fields, At, l
  <2>. QED
    BY <2>1, <2>2, <2>3
<1>9. CASE CmdRm(s)
  <2>. DEFINE g == [pc |-> "rm", args |-> l.args]
  <2>1. /\ Rule(l) = "builtin" /\ Count(l)
        /\ UNCHANGED <<plan, client, wire, tree, captures, failed, payloads>>
        /\ Go(s, Put(Recorded(s, l), g))
    BY <1>9 DEF CmdRm, Runs, l
  <2>2. DOMAIN g = {"pc", "args"} /\ g["pc"] = "rm" /\ g["args"] = l.args
    OBVIOUS
  <2>. HIDE DEF g
  <2>3. DOMAIN g \subseteq Fields \ {"history", "lines"}
    BY <2>2 DEF Fields
  <2>4. \A x \in DOMAIN g : g[x] \in Kind(x)
    BY <1>2, <2>2 DEF Kind, Locations
  <2>. QED
    BY <1>1, <1>3, <2>1, <2>2, <2>3, <2>4 DEF LineRun, Fields, l
<1>10. CASE CmdOpen(s)
  <2>. DEFINE p == ToAbs(s, l.args[1])
  <2>1. /\ Rule(l) = "builtin" /\ Count(l) /\ l.cmd \in {"cat", "touch"}
        /\ UNCHANGED <<plan, client, wire, captures, failed, payloads>>
        /\ \/ /\ Go(s, Put(Recorded(s, l), IF l.bare THEN <<>> ELSE [pc |-> "panicked"]))
              /\ UNCHANGED tree
           \/ Go(s, Recorded(s, l)) /\ UNCHANGED tree
           \/ /\ l.args # <<>> /\ p \notin {Outside, Root}
              /\ tree' = MkdirAll(tree, Front(p))
              /\ Go(s, Put(Recorded(s, l), [pc |-> l.cmd, path |-> p]))
    BY <1>10 DEF CmdOpen, Runs, l
  <2>2. CASE Go(s, Put(Recorded(s, l), [pc |-> "panicked"])) /\ UNCHANGED tree
    <3>. DEFINE g == [pc |-> "panicked"]
    <3>1. DOMAIN g = {"pc"} /\ g["pc"] = "panicked"
      OBVIOUS
    <3>2. DOMAIN g \subseteq Fields \ {"history", "lines"}
      BY <3>1 DEF Fields
    <3>3. \A x \in DOMAIN g : g[x] \in Kind(x)
      BY <3>1 DEF Kind, Locations
    <3>4. Go(s, Put(Recorded(s, l), g))
      BY <2>2
    <3>. HIDE DEF g, p
    <3>5. /\ Count(l) /\ Rule(l) # "exit"
          /\ UNCHANGED <<plan, client, wire, tree, captures, failed, payloads>>
      BY <2>1, <2>2
    <3>6. /\ sh' \in [Shells -> ShellState]
          /\ \A r \in Shells \ {s} : sh'[r] = sh[r]
          /\ sh'[s].history = Append(sh[s].history, l)
          /\ sh'[s].lines = Tail(sh[s].lines)
          /\ sh'[s].pc = "panicked"
          /\ \A x \in {"queue", "file", "left", "key", "data", "target", "from", "dirs", "cwd"} :
                sh'[s][x] = sh[s][x]
      BY <1>3, <3>1, <3>2, <3>3, <3>4 DEF Fields
    <3>. HIDE DEF l
    <3>. QED
      BY <1>1, <2>2, <3>5, <3>6 DEF LineRun, l
  <2>3. CASE (Go(s, Recorded(s, l)) \/ Go(s, Put(Recorded(s, l), <<>>))) /\ UNCHANGED tree
    <3>. HIDE DEF p
    <3>. QED
      BY <1>1, <1>4, <1>5, <2>1, <2>3 DEF LineRun, Fields, At, l
  <2>4. CASE /\ l.args # <<>> /\ p \notin {Outside, Root}
             /\ tree' = MkdirAll(tree, Front(p))
             /\ Go(s, Put(Recorded(s, l), [pc |-> l.cmd, path |-> p]))
    <3>1. p \in Paths \ {Root}
      BY <1>2, <2>4, ToAbsPath
    <3>. HIDE DEF p
    <3>. DEFINE g == [pc |-> l.cmd, path |-> p]
    <3>2. DOMAIN g = {"pc", "path"} /\ g["pc"] = l.cmd /\ g["path"] = p
      OBVIOUS
    <3>3. DOMAIN g \subseteq Fields \ {"history", "lines"}
      BY <3>2 DEF Fields
    <3>4. \A x \in DOMAIN g : g[x] \in Kind(x)
      BY <2>1, <3>1, <3>2 DEF Kind, Locations
    <3>5. Go(s, Put(Recorded(s, l), g))
      BY <2>4
    <3>. HIDE DEF g
    <3>6. /\ sh' \in [Shells -> ShellState]
          /\ \A r \in Shells \ {s} : sh'[r] = sh[r]
          /\ sh'[s].history = Append(sh[s].history, l)
          /\ sh'[s].lines = Tail(sh[s].lines)
          /\ \A x \in {"queue", "file", "left", "key", "data", "target", "from", "dirs"} :
                sh'[s][x] = sh[s][x]
          /\ sh'[s].pc = l.cmd /\ sh'[s].path = p
      BY <1>3, <3>2, <3>3, <3>4, <3>5 DEF Fields
    <3>7. sh'[s].pc \in {"cat", "touch"} /\ sh'[s].path \in Paths \ {Root}
      BY <2>1, <3>1, <3>6
    <3>8. \E x \in Paths \ {Root} : tree' = MkdirAll(tree, Front(x))
      BY <2>4, <3>1
    <3>. HIDE DEF l
    <3>9. /\ Count(l) /\ Rule(l) # "exit"
          /\ UNCHANGED <<plan, client, wire, captures, failed, payloads>>
      BY <2>1, <2>4
    <3>. QED
      BY <1>1, <3>6, <3>7, <3>8, <3>9 DEF LineRun, l
  <2>. HIDE DEF p
  <2>. QED
    BY <2>1, <2>2, <2>3, <2>4
<1>11. CASE CmdScp(s)
  <2>1. /\ Rule(l) = "builtin" /\ Count(l) /\ l.cmd = "scp"
        /\ UNCHANGED <<plan, wire, tree, captures, failed, payloads>>
        /\ IF l.sink THEN /\ Ack(s)
                          /\ Go(s, Put(Recorded(s, l),
                                       [pc |-> "type", target |-> l.args[1],
                                        from |-> l.args[1].from,
                                        dirs |-> <<l.args[1].path>>]))
                     ELSE Go(s, Recorded(s, l)) /\ UNCHANGED client
    BY <1>11 DEF CmdScp, l
  <2>2. CASE l.sink
    <3>. DEFINE g == [pc |-> "type", target |-> l.args[1], from |-> l.args[1].from,
                      dirs |-> <<l.args[1].path>>]
    <3>1. /\ IsSink(l) /\ l.args # <<>> /\ l.args[1] \in Args
          /\ l.args[1].from \in {"root", "cwd"}
      BY <1>1, <1>2, <2>1, <2>2 DEF IsSink, l
    <3>2. <<l.args[1].path>> \in Seq(Paths)
      BY <3>1 DEF Args
    <3>3. /\ DOMAIN g = {"pc", "target", "from", "dirs"} /\ g["pc"] = "type"
          /\ g["target"] = l.args[1] /\ g["from"] = l.args[1].from
          /\ g["dirs"] = <<l.args[1].path>>
      OBVIOUS
    <3>4. DOMAIN g \subseteq Fields \ {"history", "lines"}
      BY <3>3 DEF Fields
    <3>5. Go(s, Put(Recorded(s, l), g)) /\ Ack(s)
      BY <2>1, <2>2
    <3>. HIDE DEF g
    <3>6. \A x \in DOMAIN g : g[x] \in Kind(x)
      BY <3>1, <3>2, <3>3 DEF Kind, Locations
    <3>. HIDE DEF l
    <3>7. /\ sh' \in [Shells -> ShellState]
          /\ \A r \in Shells \ {s} : sh'[r] = sh[r]
          /\ sh'[s].history = Append(sh[s].history, l)
          /\ sh'[s].lines = Tail(sh[s].lines)
          /\ \A x \in {"queue", "file", "left", "key", "data", "cwd"} : sh'[s][x] = sh[s][x]
          /\ sh'[s].pc = "type" /\ sh'[s].target = l.args[1]
          /\ sh'[s].from = l.args[1].from /\ sh'[s].dirs = <<l.args[1].path>>
      <4>1. /\ sh' \in [Shells -> ShellState]
            /\ \A r \in Shells \ {s} : sh'[r] = sh[r]
            /\ sh'[s].history = Append(sh[s].history, l)
            /\ sh'[s].lines = Tail(sh[s].lines)
            /\ \A x \in DOMAIN g : sh'[s][x] = g[x]
            /\ \A x \in Fields \ (DOMAIN g \cup {"history", "lines"}) :
                  sh'[s][x] = sh[s][x]
        BY <1>3, <3>4, <3>5, <3>6
      <4>2. /\ sh'[s].pc = "type" /\ sh'[s].target = l.args[1]
            /\ sh'[s].from = l.args[1].from /\ sh'[s].dirs = <<l.args[1].path>>
        BY <3>3, <4>1
      <4>3. {"queue", "file", "left", "key", "data", "cwd"}
               \subseteq Fields \ (DOMAIN g \cup {"history", "lines"})
        BY <3>3 DEF Fields
      <4>. QED
        BY <4>1, <4>2, <4>3
    <3>8. sh'[s].cwd = sh[s].cwd
      BY <3>7
    <3>9. /\ Count(l) /\ Rule(l) # "exit"
          /\ UNCHANGED <<plan, wire, tree, captures, failed, payloads>>
      BY <2>1
    <3>. QED
      BY <1>1, <3>1, <3>5, <3>7, <3>8, <3>9 DEF LineRun, l
  <2>3. CASE ~ l.sink
    <3>1. /\ sh' \in [Shells -> ShellState]
          /\ \A r \in Shells \ {s} : sh'[r] = sh[r]
          /\ sh'[s].history = Append(sh[s].history, l)
          /\ sh'[s].lines = Tail(sh[s].lines)
          /\ \A x \in Fields \ {"history", "lines"} : sh'[s][x] = sh[s][x]
      BY <1>4, <1>5, <2>1, <2>3
    <3>2. /\ \A x \in {"queue", "file", "left", "key", "data"} : sh'[s][x] = sh[s][x]
          /\ sh'[s].pc = "line" /\ sh'[s].target = sh[s].target
          /\ sh'[s].from = sh[s].from /\ sh'[s].dirs = sh[s].dirs
      BY <1>1, <3>1 DEF Fields, At
    <3>3. /\ Count(l) /\ Rule(l) # "exit"
          /\ UNCHANGED <<plan, client, wire, tree, captures, failed, payloads>>
      BY <2>1, <2>3
    <3>. HIDE DEF l
    <3>. QED
      BY <1>1, <3>1, <3>2, <3>3 DEF LineRun, l
  <2>. QED
    BY <2>2, <2>3
<1>. QED
  BY <1>6, <1>7, <1>8, <1>9, <1>10, <1>11 DEF Running

-----------------------------------------------------------------------------
(* Plans, uploads and what is on the wire                                  *)

\* A header is sent as it is; the contents of a file are bytes and a zero.
LEMMA HeaderPart ==
    ASSUME NEW h \in Header
    PROVE  /\ h.t \in {"C", "D", "E", "T"} /\ h \in Token
           /\ h.t \in {"C", "D"} => h.name \in Names
           /\ h.t = "C" => h.length \in Nat
           /\ Part(h) = <<h>>
BY DEF Header, FileHeader, Token, Part

\* The contents of a file, as they are sent.
LEMMA DataPart ==
    ASSUME NEW d \in FileData
    PROVE  /\ d.t = "data" /\ d.v \in Seq(Bytes) /\ Len(d.v) \in Nat
           /\ Part(d) \in Seq(Token) /\ Len(Part(d)) = Len(d.v) + 1
           /\ \A i \in 1..Len(d.v) : Part(d)[i].v = d.v[i]
           /\ Part(d)[Len(d.v) + 1] = Nul
<1>. DEFINE n     == Len(d.v)
            bytes == [j \in 1..n |-> [t |-> "byte", v |-> d.v[j]]]
<1>1. d.t = "data" /\ d.v \in Seq(Bytes) /\ n \in Nat
  BY DEF FileData
<1>2. \A j \in 1..n : d.v[j] \in Bytes
  BY <1>1, ElementOfSeq
<1>3. \A j \in 1..n : [t |-> "byte", v |-> d.v[j]] \in Token
  BY <1>2 DEF Token
<1>4. bytes \in Seq(Token) /\ Len(bytes) = n /\ \A j \in 1..n : bytes[j].v = d.v[j]
  BY <1>1, <1>3
<1>5. Part(d) = bytes \o <<Nul>>
  BY <1>1 DEF Part, Nul
<1>. HIDE DEF bytes, n
<1>6. <<Nul>> \in Seq(Token) /\ Len(<<Nul>>) = 1
  BY DEF Token, Nul
<1>7. /\ bytes \o <<Nul>> \in Seq(Token)
      /\ Len(bytes \o <<Nul>>) = n + 1
      /\ \A i \in 1..(n + 1) :
            (bytes \o <<Nul>>)[i] = IF i <= n THEN bytes[i] ELSE <<Nul>>[i - n]
  BY <1>4, <1>6, ConcatProperties
<1>8. \A i \in 1..n : (bytes \o <<Nul>>)[i].v = d.v[i]
  BY <1>1, <1>4, <1>7 DEF n
<1>9. (bytes \o <<Nul>>)[n + 1] = Nul
  BY <1>1, <1>7 DEF n
<1>. QED
  BY <1>1, <1>5, <1>7, <1>8, <1>9 DEF n

\* What the assumption on the sessions says of one of them.
LEMMA PlanFacts ==
    ASSUME plan \in Plans, NEW s \in Shells
    PROVE  /\ plan[s].inputs \in Seq(Seq(Lines)) /\ Script(s) \in Seq(Lines)
           /\ plan[s].exec => Len(plan[s].inputs) = 1
           /\ ~ plan[s].exec => plan[s].upload = <<>>
           /\ \A i, j \in DOMAIN Script(s) :
                 IsSink(Script(s)[i]) /\ IsSink(Script(s)[j]) => i = j
           /\ \A i \in DOMAIN Script(s) : IsSink(Script(s)[i]) =>
                 /\ Script(s)[i].args # <<>>
                 /\ Script(s)[i].args[1].from \in {"root", "cwd"}
<1>1. IsPlan(plan[s])
  BY PlansAssumption
<1>2. plan[s].inputs \in Seq(Seq(Lines))
  BY <1>1 DEF IsPlan
<1>3. Script(s) \in Seq(Lines)
  BY <1>2, FlattenType DEF Script
<1>. QED
  BY <1>1, <1>2, <1>3 DEF IsPlan, Script

\* Each part of an upload is a header or the contents after a file's header.
LEMMA UploadFacts ==
    ASSUME plan \in Plans, NEW s \in Shells
    PROVE  /\ Len(plan[s].upload) \in Nat /\ DOMAIN plan[s].upload = 1..Len(plan[s].upload)
           /\ \A i \in 1..Len(plan[s].upload) :
                 /\ plan[s].upload[i] \in Header \cup FileData
                 /\ plan[s].upload[i].t # "data" => plan[s].upload[i] \in Header
                 /\ plan[s].upload[i].t = "data" =>
                       /\ plan[s].upload[i] \in FileData
                       /\ i > 1 /\ plan[s].upload[i - 1].t = "C"
                 /\ plan[s].upload[i].t = "C" =>
                       /\ i + 1 \in 1..Len(plan[s].upload)
                       /\ plan[s].upload[i + 1] \in FileData
                       /\ Len(plan[s].upload[i + 1].v) = plan[s].upload[i].length
<1>. DEFINE u == plan[s].upload
<1>1. IsUpload(u)
  BY PlansAssumption DEF IsPlan
<1>. HIDE DEF u
<1>2. u \in Seq(Header \cup FileData) /\ Len(u) \in Nat /\ DOMAIN u = 1..Len(u)
  BY <1>1 DEF IsUpload
<1>3. ASSUME NEW i \in 1..Len(u)
      PROVE  /\ u[i] \in Header \cup FileData
             /\ u[i].t # "data" => u[i] \in Header
             /\ u[i].t = "data" => u[i] \in FileData
  BY <1>2, ElementOfSeq DEF FileData, Header, FileHeader
<1>4. ASSUME NEW i \in 1..Len(u)
      PROVE  /\ u[i].t = "data" => i > 1 /\ u[i - 1].t = "C"
             /\ u[i].t = "C" => /\ i + 1 \in 1..Len(u) /\ u[i + 1].t = "data"
                                /\ Len(u[i + 1].v) = u[i].length
  BY <1>1, <1>2 DEF IsUpload
<1>. QED
  BY <1>2, <1>3, <1>4 DEF u

\* f has the directories a sender is in after each of the first k parts.
IsWalk(f, target, u, k) ==
    f = [n \in 0..k |-> IF n = 0 THEN <<target>> ELSE Turn(f[n - 1], u[n])]

\* The sender's view is a function of the parts that satisfies its recursion.
LEMMA WalkExists ==
    ASSUME NEW target, NEW u, NEW n \in Nat
    PROVE  \E f : IsWalk(f, target, u, n)
<1>. DEFINE T == {k \in Nat : ~ \E f : IsWalk(f, target, u, k)}
<1>1. SUFFICES ASSUME T # {} PROVE FALSE
  OBVIOUS
<1>2. PICK k \in T : \A m \in T : k <= m
  BY <1>1, LeastNatural
<1>3. CASE k = 0
  <2>. DEFINE g == [i \in 0..0 |-> <<target>>]
  <2>1. IsWalk(g, target, u, 0)
    BY DEF IsWalk
  <2>. QED
    BY <1>3, <2>1
<1>4. CASE k > 0
  <2>1. k - 1 \in Nat /\ k - 1 \notin T
    BY <1>2, <1>4
  <2>2. PICK f : IsWalk(f, target, u, k - 1)
    BY <2>1
  <2>. DEFINE g == [i \in 0..k |-> IF i < k THEN f[i] ELSE Turn(f[i - 1], u[i])]
  <2>3. \A i \in 0..(k - 1) : f[i] = IF i = 0 THEN <<target>> ELSE Turn(f[i - 1], u[i])
    BY <2>2 DEF IsWalk
  <2>4. \A i \in 0..k : g[i] = IF i = 0 THEN <<target>> ELSE Turn(g[i - 1], u[i])
    BY <1>4, <2>1, <2>3
  <2>5. g = [i \in 0..k |-> g[i]]
    OBVIOUS
  <2>. HIDE DEF g
  <2>6. IsWalk(g, target, u, k)
    BY <2>4, <2>5 DEF IsWalk
  <2>. QED
    BY <2>6
<1>. QED
  BY <1>2, <1>3, <1>4

\* The directories a sender is in, part by part.
LEMMA WalkStep ==
    ASSUME NEW target, NEW u, Len(u) \in Nat
    PROVE  /\ Walk(target, u)[0] = <<target>>
           /\ \A n \in 1..Len(u) : Walk(target, u)[n] = Turn(Walk(target, u)[n - 1], u[n])
<1>1. PICK f : IsWalk(f, target, u, Len(u))
  BY WalkExists
<1>2. Walk(target, u) = CHOOSE g : g = [n \in 0..Len(u) |->
                           IF n = 0 THEN <<target>> ELSE Turn(g[n - 1], u[n])]
  BY DEF Walk
<1>3. IsWalk(Walk(target, u), target, u, Len(u))
  BY <1>1, <1>2, Zenon DEF IsWalk
<1>. QED
  BY <1>3 DEF IsWalk

\* So the directories after a part follow from those before it.
LEMMA DirsStep ==
    ASSUME plan \in Plans, NEW s \in Shells
    PROVE  /\ Dirs(s, 0) = <<sh[s].target.path>>
           /\ \A n \in 1..Len(plan[s].upload) :
                 Dirs(s, n) = Turn(Dirs(s, n - 1), plan[s].upload[n])
BY UploadFacts, WalkStep DEF Dirs

\* Where names start changes only when the target is left.
LEMMA FromStep ==
    ASSUME plan \in Plans, NEW s \in Shells
    PROVE  /\ From(s, 0) = sh[s].target.from
           /\ \A n \in 1..Len(plan[s].upload) :
                 /\ From(s, n) = IF Dirs(s, n) = <<>> THEN "cwd" ELSE From(s, n - 1)
                 /\ Dirs(s, n) = Dirs(s, n - 1) => From(s, n) = From(s, n - 1)
<1>1. From(s, 0) = sh[s].target.from
  <2>1. Dirs(s, 0) # <<>>
    BY DirsStep
  <2>2. \A m \in 0..0 : m = 0
    OBVIOUS
  <2>. QED
    BY <2>1, <2>2 DEF From
<1>2. ASSUME NEW n \in 1..Len(plan[s].upload)
      PROVE  /\ From(s, n) = IF Dirs(s, n) = <<>> THEN "cwd" ELSE From(s, n - 1)
             /\ Dirs(s, n) = Dirs(s, n - 1) => From(s, n) = From(s, n - 1)
  <2>1. Len(plan[s].upload) \in Nat
    BY UploadFacts
  <2>2. /\ n \in Nat \ {0} /\ n - 1 \in Nat /\ n \in 0..n /\ n - 1 \in 0..(n - 1)
        /\ \A m \in 0..n : m \in 0..(n - 1) \/ m = n
        /\ \A m \in 0..(n - 1) : m \in 0..n
    BY <2>1
  <2>3. (\E m \in 0..n : Dirs(s, m) = <<>>) <=>
           Dirs(s, n) = <<>> \/ \E m \in 0..(n - 1) : Dirs(s, m) = <<>>
    BY <2>2
  <2>4. From(s, n) = IF Dirs(s, n) = <<>> THEN "cwd" ELSE From(s, n - 1)
    BY <2>3 DEF From
  <2>5. Dirs(s, n - 1) = <<>> => From(s, n - 1) = "cwd"
    BY <2>2 DEF From
  <2>. QED
    BY <2>4, <2>5
<1>. QED
  BY <1>1, <1>2

-----------------------------------------------------------------------------
(* Steps that run no line                                                  *)

\* What reading and running lines changes, and what an upload changes.
ScriptFields == {"cwd", "queue", "lines", "history", "target"}
UploadFields == {"from", "dirs", "left", "key", "path", "data"}

Others(s)   == sh' \in [Shells -> ShellState] /\ \A r \in Shells \ {s} : sh'[r] = sh[r]
Keeps(r, X) == \A x \in X : sh'[r][x] = sh[r][x]

\* Go only moves on.
LEMMA PcStep ==
    ASSUME sh \in [Shells -> ShellState], NEW s \in Shells, NEW p \in Locations,
           Go(s, [pc |-> p])
    PROVE  /\ Others(s) /\ sh'[s].pc = p
           /\ Keeps(s, ScriptFields) /\ Keeps(s, UploadFields)
           /\ Keeps(s, {"args", "file"})
<1>. DEFINE f == [pc |-> p]
<1>1. DOMAIN f = {"pc"} /\ f["pc"] = p /\ Go(s, f)
  OBVIOUS
<1>. HIDE DEF f
<1>2. DOMAIN f \subseteq Fields /\ \A x \in DOMAIN f : f[x] \in Kind(x)
  BY <1>1 DEF Fields, Kind
<1>3. /\ sh' \in [Shells -> ShellState]
      /\ \A r \in Shells \ {s} : sh'[r] = sh[r]
      /\ \A x \in DOMAIN f : sh'[s][x] = f[x]
      /\ \A x \in Fields \ DOMAIN f : sh'[s][x] = sh[s][x]
  BY <1>1, <1>2, GoStep
<1>. QED
  BY <1>1, <1>3 DEF Others, Keeps, ScriptFields, UploadFields, Fields

\* Go moves on and sets fields of an upload, or the file.
LEMMA UploadGoStep ==
    ASSUME sh \in [Shells -> ShellState], NEW s \in Shells, NEW f, Go(s, f),
           DOMAIN f \subseteq UploadFields \cup {"pc", "file"},
           \A x \in DOMAIN f : f[x] \in Kind(x)
    PROVE  /\ Others(s) /\ Keeps(s, ScriptFields) /\ Keeps(s, {"args"})
           /\ \A x \in DOMAIN f : sh'[s][x] = f[x]
           /\ Keeps(s, (UploadFields \cup {"pc", "file"}) \ DOMAIN f)
<1>1. DOMAIN f \subseteq Fields
  BY DEF Fields, UploadFields
<1>2. /\ sh' \in [Shells -> ShellState]
      /\ \A r \in Shells \ {s} : sh'[r] = sh[r]
      /\ \A x \in DOMAIN f : sh'[s][x] = f[x]
      /\ \A x \in Fields \ DOMAIN f : sh'[s][x] = sh[s][x]
  BY <1>1, GoStep
<1>. QED
  BY <1>2 DEF Others, Keeps, ScriptFields, UploadFields, Fields

\* Reading an input sets its lines.
LEMMA ReadStep ==
    ASSUME sh \in [Shells -> ShellState], NEW s \in Shells, ReadLine(s)
    PROVE  /\ Others(s) /\ At(s, "read")
           /\ Keeps(s, {"cwd", "history", "target"} \cup UploadFields \cup {"args", "file"})
           /\ UNCHANGED <<plan, client, wire, tree, captures, failed, executed, payloads>>
           /\ \/ /\ sh[s].queue # <<>> /\ client[s].end = "open" /\ sh'[s].pc = "line"
                 /\ sh'[s].lines = Head(sh[s].queue) /\ sh'[s].queue = Tail(sh[s].queue)
              \/ /\ sh'[s].lines = sh[s].lines /\ sh'[s].queue = sh[s].queue
                 /\ \/ sh'[s].pc = "close" /\ client[s].end # "open"
                    \/ sh'[s].pc = "panicked"
<1>1. CASE /\ sh[s].queue # <<>> /\ client[s].end = "open"
           /\ Go(s, [pc |-> "line", lines |-> Head(sh[s].queue), queue |-> Tail(sh[s].queue)])
  <2>. DEFINE f == [pc |-> "line", lines |-> Head(sh[s].queue), queue |-> Tail(sh[s].queue)]
  <2>1. /\ DOMAIN f = {"pc", "lines", "queue"} /\ f["pc"] = "line"
        /\ f["lines"] = Head(sh[s].queue) /\ f["queue"] = Tail(sh[s].queue)
    OBVIOUS
  <2>2. Go(s, f)
    BY <1>1
  <2>. HIDE DEF f
  <2>3. sh[s].queue \in Seq(Seq(Lines))
    BY DEF ShellState
  <2>4. Head(sh[s].queue) \in Seq(Lines) /\ Tail(sh[s].queue) \in Seq(Seq(Lines))
    BY <1>1, <2>3, HeadTailProperties
  <2>5. DOMAIN f \subseteq Fields /\ \A x \in DOMAIN f : f[x] \in Kind(x)
    BY <2>1, <2>4 DEF Fields, Kind, Locations
  <2>6. /\ sh' \in [Shells -> ShellState]
        /\ \A r \in Shells \ {s} : sh'[r] = sh[r]
        /\ \A x \in DOMAIN f : sh'[s][x] = f[x]
        /\ \A x \in Fields \ DOMAIN f : sh'[s][x] = sh[s][x]
    BY <2>2, <2>5, GoStep
  <2>7. /\ sh'[s].pc = "line" /\ sh'[s].lines = Head(sh[s].queue)
        /\ sh'[s].queue = Tail(sh[s].queue)
    BY <2>1, <2>6
  <2>8. Keeps(s, {"cwd", "history", "target"} \cup UploadFields \cup {"args", "file"})
    BY <2>1, <2>6 DEF Keeps, UploadFields, Fields
  <2>. QED
    BY <1>1, <2>6, <2>7, <2>8 DEF ReadLine, Others
<1>2. ASSUME NEW p \in {"close", "panicked"}, Go(s, [pc |-> p])
      PROVE  /\ Others(s) /\ sh'[s].pc = p
             /\ sh'[s].lines = sh[s].lines /\ sh'[s].queue = sh[s].queue
             /\ Keeps(s, {"cwd", "history", "target"} \cup UploadFields \cup {"args", "file"})
  <2>1. p \in Locations
    BY DEF Locations
  <2>2. /\ Others(s) /\ sh'[s].pc = p
        /\ Keeps(s, ScriptFields) /\ Keeps(s, UploadFields) /\ Keeps(s, {"args", "file"})
    BY <1>2, <2>1, PcStep
  <2>. QED
    BY <2>2 DEF Keeps, ScriptFields
<1>. QED
  BY <1>1, <1>2 DEF ReadLine, Panic

\* Removing a file takes its name from whoever has it open.
LEMMA UnlinkStep ==
    ASSUME sh \in [Shells -> ShellState], NEW s \in Shells, RmUnlink(s),
           sh[s].args # <<>>
    PROVE  /\ sh' \in [Shells -> ShellState]
           /\ sh'[s].pc = "rm" /\ Keeps(s, ScriptFields \cup UploadFields \cup {"file"})
           /\ \A r \in Shells \ {s} :
                 /\ Keeps(r, ScriptFields \cup UploadFields \cup {"pc", "args"})
                 /\ \/ sh'[r].file = NoFile
                    \/ /\ sh'[r].file = sh[r].file
                       /\ sh[r].file # ToAbs(s, Head(sh[s].args)) \/ sh[r].file \in DOMAIN tree'
<1>. DEFINE p == ToAbs(s, Head(sh[s].args))
            f == [pc |-> "rm", args |-> Tail(sh[s].args)]
            g == Put(sh[s], f)
<1>1. /\ sh[s] = [x \in Fields |-> sh[s][x]]
      /\ \A x \in Fields : sh[s][x] \in Kind(x)
  BY StateKinds
<1>2. sh[s].args \in Seq(Args)
  BY DEF ShellState
<1>3. Tail(sh[s].args) \in Seq(Args)
  BY <1>2, HeadTailProperties
<1>4. DOMAIN f = {"pc", "args"} /\ f["pc"] = "rm" /\ f["args"] = Tail(sh[s].args)
  OBVIOUS
<1>5. sh' = [r \in Shells |-> IF r = s THEN g
                              ELSE IF sh[r].file = p /\ p \notin DOMAIN tree'
                              THEN [sh[r] EXCEPT !.file = NoFile]
                              ELSE sh[r]]
  BY DEF RmUnlink
<1>. HIDE DEF f
<1>6. /\ g = [x \in Fields |-> g[x]]
      /\ \A x \in DOMAIN f : g[x] = f[x]
      /\ \A x \in Fields \ DOMAIN f : g[x] = sh[s][x]
  BY <1>1, <1>4 DEF Put, Fields
<1>. HIDE DEF g, p
<1>7. \A x \in Fields : g[x] \in Kind(x)
  <2>1. f["pc"] \in Kind("pc") /\ f["args"] \in Kind("args")
    BY <1>3, <1>4 DEF Kind, Locations
  <2>. QED
    BY <1>1, <1>4, <1>6, <2>1
<1>8. g \in ShellState
  BY <1>6, <1>7, StateKinds
<1>9. ASSUME NEW r \in Shells PROVE [sh[r] EXCEPT !.file = NoFile] \in ShellState
  <2>1. sh[r] \in ShellState
    OBVIOUS
  <2>. QED
    BY <2>1 DEF ShellState
<1>10. sh' \in [Shells -> ShellState]
  BY <1>5, <1>8, <1>9
<1>11. sh'[s].pc = "rm" /\ Keeps(s, ScriptFields \cup UploadFields \cup {"file"})
  BY <1>4, <1>5, <1>6 DEF Keeps, ScriptFields, UploadFields, Fields
<1>12. ASSUME NEW r \in Shells \ {s}
       PROVE  /\ Keeps(r, ScriptFields \cup UploadFields \cup {"pc", "args"})
              /\ \/ sh'[r].file = NoFile
                 \/ sh'[r].file = sh[r].file /\ (sh[r].file # p \/ sh[r].file \in DOMAIN tree')
  <2>1. CASE sh[r].file = p /\ p \notin DOMAIN tree'
    <3>1. sh'[r] = [sh[r] EXCEPT !.file = NoFile]
      BY <1>5, <2>1
    <3>2. DOMAIN sh[r] = Fields
      BY StateKinds
    <3>. QED
      BY <3>1, <3>2 DEF Keeps, ScriptFields, UploadFields, Fields
  <2>2. CASE ~ (sh[r].file = p /\ p \notin DOMAIN tree')
    BY <1>5, <2>2 DEF Keeps
  <2>. QED
    BY <2>1, <2>2
<1>. QED
  BY <1>10, <1>11, <1>12 DEF p

\* A header of a file: its size, and its names.
LEMMA FileStep ==
    ASSUME sh \in [Shells -> ShellState], wire \in [Shells -> Seq(Token)],
           NEW s \in Shells, ScpFile(s), Base(s) \in Paths
    PROVE  /\ Others(s) /\ Keeps(s, ScriptFields) /\ Keeps(s, {"args", "from", "dirs", "data", "file"})
           /\ sh'[s].pc = "mkdir" /\ sh'[s].left = Head(wire[s]).length
           /\ sh'[s].key = Append(FlattenSeq(sh[s].dirs), Head(wire[s]).name)
           /\ sh'[s].path = Base(s) \o sh'[s].key
<1>. DEFINE c   == Head(wire[s])
            key == Append(FlattenSeq(sh[s].dirs), c.name)
            f   == [pc |-> "mkdir", left |-> c.length, key |-> key, path |-> Base(s) \o key]
<1>1. Go(s, f) /\ wire[s] # <<>> /\ c.t = "C"
  BY DEF ScpFile, Message
<1>2. wire[s] \in Seq(Token)
  OBVIOUS
<1>3. c \in Token
  BY <1>1, <1>2, HeadTailProperties
<1>4. c.name \in Names /\ c.length \in Nat
  BY <1>1, <1>3 DEF Token, Header, FileHeader
<1>5. sh[s].dirs \in Seq(Seq(Names))
  BY DEF ShellState, Paths
<1>6. FlattenSeq(sh[s].dirs) \in Seq(Names)
  BY <1>5, FlattenType
<1>. HIDE DEF c
<1>7. key \in Seq(Names)
  BY <1>4, <1>6, AppendProperties
<1>. HIDE DEF key
<1>8. Base(s) \o key \in Seq(Names)
  BY <1>7, ConcatProperties DEF Paths
<1>9. /\ DOMAIN f = {"pc", "left", "key", "path"} /\ f["pc"] = "mkdir"
      /\ f["left"] = c.length /\ f["key"] = key /\ f["path"] = Base(s) \o key
  OBVIOUS
<1>. HIDE DEF f
<1>10. /\ DOMAIN f \subseteq UploadFields \cup {"pc", "file"}
       /\ \A x \in DOMAIN f : f[x] \in Kind(x)
  BY <1>4, <1>7, <1>8, <1>9 DEF UploadFields, Kind, Locations, Paths
<1>11. /\ Others(s) /\ Keeps(s, ScriptFields) /\ Keeps(s, {"args"})
       /\ \A x \in DOMAIN f : sh'[s][x] = f[x]
       /\ Keeps(s, (UploadFields \cup {"pc", "file"}) \ DOMAIN f)
  BY <1>1, <1>10, UploadGoStep
<1>. QED
  BY <1>9, <1>11 DEF Keeps, UploadFields, c, key

\* A directory is entered.
LEMMA DirsGoStep ==
    ASSUME sh \in [Shells -> ShellState], NEW s \in Shells, NEW d \in Seq(Paths),
           Go(s, [dirs |-> d])
    PROVE  /\ Others(s) /\ Keeps(s, ScriptFields)
           /\ Keeps(s, {"pc", "args", "from", "left", "key", "path", "data", "file"})
           /\ sh'[s].dirs = d
<1>. DEFINE f == [dirs |-> d]
<1>1. DOMAIN f = {"dirs"} /\ f["dirs"] = d /\ Go(s, f)
  OBVIOUS
<1>. HIDE DEF f
<1>2. /\ DOMAIN f \subseteq UploadFields \cup {"pc", "file"}
      /\ \A x \in DOMAIN f : f[x] \in Kind(x)
  BY <1>1 DEF UploadFields, Kind
<1>3. /\ Others(s) /\ Keeps(s, ScriptFields) /\ Keeps(s, {"args"})
      /\ \A x \in DOMAIN f : sh'[s][x] = f[x]
      /\ Keeps(s, (UploadFields \cup {"pc", "file"}) \ DOMAIN f)
  BY <1>1, <1>2, UploadGoStep
<1>. QED
  BY <1>1, <1>3 DEF Keeps, UploadFields

\* A directory is left.
LEMMA LeaveGoStep ==
    ASSUME sh \in [Shells -> ShellState], NEW s \in Shells, NEW d \in Seq(Paths),
           NEW g \in {"root", "cwd"}, Go(s, [dirs |-> d, from |-> g])
    PROVE  /\ Others(s) /\ Keeps(s, ScriptFields)
           /\ Keeps(s, {"pc", "args", "left", "key", "path", "data", "file"})
           /\ sh'[s].dirs = d /\ sh'[s].from = g
<1>. DEFINE f == [dirs |-> d, from |-> g]
<1>1. DOMAIN f = {"dirs", "from"} /\ f["dirs"] = d /\ f["from"] = g /\ Go(s, f)
  OBVIOUS
<1>. HIDE DEF f
<1>2. /\ DOMAIN f \subseteq UploadFields \cup {"pc", "file"}
      /\ \A x \in DOMAIN f : f[x] \in Kind(x)
  BY <1>1 DEF UploadFields, Kind
<1>3. /\ Others(s) /\ Keeps(s, ScriptFields) /\ Keeps(s, {"args"})
      /\ \A x \in DOMAIN f : sh'[s][x] = f[x]
      /\ Keeps(s, (UploadFields \cup {"pc", "file"}) \ DOMAIN f)
  BY <1>1, <1>2, UploadGoStep
<1>. QED
  BY <1>1, <1>3 DEF Keeps, UploadFields

\* Go moves on and sets the file that is open.
LEMMA FileGoStep ==
    ASSUME sh \in [Shells -> ShellState], NEW s \in Shells, NEW p \in Locations,
           NEW q \in Paths \cup {NoFile}, Go(s, [pc |-> p, file |-> q])
    PROVE  /\ Others(s) /\ Keeps(s, ScriptFields) /\ Keeps(s, UploadFields)
           /\ Keeps(s, {"args"}) /\ sh'[s].pc = p /\ sh'[s].file = q
<1>. DEFINE f == [pc |-> p, file |-> q]
<1>1. DOMAIN f = {"pc", "file"} /\ f["pc"] = p /\ f["file"] = q /\ Go(s, f)
  OBVIOUS
<1>. HIDE DEF f
<1>2. /\ DOMAIN f \subseteq UploadFields \cup {"pc", "file"}
      /\ \A x \in DOMAIN f : f[x] \in Kind(x)
  BY <1>1 DEF UploadFields, Kind
<1>3. /\ Others(s) /\ Keeps(s, ScriptFields) /\ Keeps(s, {"args"})
      /\ \A x \in DOMAIN f : sh'[s][x] = f[x]
      /\ Keeps(s, (UploadFields \cup {"pc", "file"}) \ DOMAIN f)
  BY <1>1, <1>2, UploadGoStep
<1>. QED
  BY <1>1, <1>3 DEF Keeps, UploadFields

\* Go moves on with the contents that have been read.
LEMMA DataGoStep ==
    ASSUME sh \in [Shells -> ShellState], NEW s \in Shells, NEW d \in Seq(Bytes),
           Go(s, [pc |-> "write", data |-> d])
    PROVE  /\ Others(s) /\ Keeps(s, ScriptFields)
           /\ Keeps(s, {"args", "from", "dirs", "left", "key", "path", "file"})
           /\ sh'[s].pc = "write" /\ sh'[s].data = d
<1>. DEFINE f == [pc |-> "write", data |-> d]
<1>1. DOMAIN f = {"pc", "data"} /\ f["pc"] = "write" /\ f["data"] = d /\ Go(s, f)
  OBVIOUS
<1>. HIDE DEF f
<1>2. /\ DOMAIN f \subseteq UploadFields \cup {"pc", "file"}
      /\ \A x \in DOMAIN f : f[x] \in Kind(x)
  BY <1>1 DEF UploadFields, Kind, Locations
<1>3. /\ Others(s) /\ Keeps(s, ScriptFields) /\ Keeps(s, {"args"})
      /\ \A x \in DOMAIN f : sh'[s][x] = f[x]
      /\ Keeps(s, (UploadFields \cup {"pc", "file"}) \ DOMAIN f)
  BY <1>1, <1>2, UploadGoStep
<1>. QED
  BY <1>1, <1>3 DEF Keeps, UploadFields

-----------------------------------------------------------------------------
(* The steps by what they leave alone                                      *)

Filing(s)    == RmTest(s) \/ RmUnlink(s) \/ Open(s)
Receiving(s) == ScpEnd(s) \/ ScpFile(s) \/ ScpDir(s) \/ ScpLeave(s) \/ ScpOther(s)
Saving(s)    == \/ ScpMkdir(s) \/ ScpOpen(s) \/ ScpData(s) \/ ScpWrite(s)
                \/ ScpCheck(s) \/ ScpCapture(s) \/ ScpSave(s) \/ ScpDone(s)
Sending(s)   == Send(s) \/ HangUp(s) \/ Cut(s)

\* No line is read or run.
Steady(s) ==
    /\ sh' \in [Shells -> ShellState]
    /\ UNCHANGED <<plan, executed, payloads>>
    /\ \A r \in Shells : Keeps(r, ScriptFields)
    /\ \A r \in Shells \ {s} : Keeps(r, UploadFields \cup {"pc", "args"})

\* The commands on files have nothing to do with uploads.
LEMMA FilingStep ==
    ASSUME Typed, Grown, NEW s \in Shells, Filing(s)
    PROVE  /\ Steady(s) /\ Keeps(s, UploadFields)
           /\ UNCHANGED <<client, wire, captures, failed>>
           /\ sh[s].pc \in {"rm", "unlink", "touch", "cat"}
           /\ sh'[s].pc \in {"unlink", "line", "rm"}
           /\ At(s, "unlink")' => /\ sh[s].args # <<>> /\ sh'[s].args = sh[s].args
                                  /\ ToAbs(s, Head(sh[s].args)) # Outside
<1>. sh \in [Shells -> ShellState]
  BY DEF Typed
<1>1. ASSUME NEW p \in {"unlink", "line"}, Go(s, [pc |-> p])
      PROVE  /\ Others(s) /\ sh'[s].pc = p /\ Keeps(s, ScriptFields)
             /\ Keeps(s, UploadFields) /\ Keeps(s, {"args", "file"})
  <2>1. p \in Locations
    BY DEF Locations
  <2>. QED
    BY <1>1, <2>1, PcStep
<1>2. ASSUME Others(s), Keeps(s, ScriptFields)
      PROVE  /\ sh' \in [Shells -> ShellState]
             /\ \A r \in Shells : Keeps(r, ScriptFields)
             /\ \A r \in Shells \ {s} : Keeps(r, UploadFields \cup {"pc", "args"})
  BY <1>2 DEF Others, Keeps
<1>3. CASE RmTest(s)
  <2>1. /\ At(s, "rm")
        /\ UNCHANGED <<plan, client, wire, tree, captures, failed, executed, payloads>>
        /\ \/ Go(s, [pc |-> "line"])
           \/ /\ Go(s, [pc |-> "unlink"]) /\ sh[s].args # <<>>
              /\ ToAbs(s, Head(sh[s].args)) \in DOMAIN tree
    BY <1>3 DEF RmTest, DirExists, FileExists
  <2>2. Outside \notin DOMAIN tree
    BY FSAssumption DEF Grown, IsTree
  <2>3. CASE Go(s, [pc |-> "line"])
    BY <1>1, <1>2, <2>1, <2>3 DEF Steady, At
  <2>4. CASE /\ Go(s, [pc |-> "unlink"]) /\ sh[s].args # <<>>
             /\ ToAbs(s, Head(sh[s].args)) \in DOMAIN tree
    <3>1. /\ Others(s) /\ sh'[s].pc = "unlink" /\ Keeps(s, ScriptFields)
          /\ Keeps(s, UploadFields) /\ sh'[s].args = sh[s].args
      BY <1>1, <2>4 DEF Keeps
    <3>2. ToAbs(s, Head(sh[s].args)) # Outside
      BY <2>2, <2>4
    <3>. QED
      BY <1>2, <2>1, <2>4, <3>1, <3>2 DEF Steady, At
  <2>. QED
    BY <2>1, <2>3, <2>4
<1>4. CASE RmUnlink(s)
  <2>1. /\ At(s, "unlink") /\ UNCHANGED <<plan, client, wire, captures, failed, executed, payloads>>
    BY <1>4 DEF RmUnlink
  <2>2. sh[s].args # <<>>
    BY <2>1 DEF Grown
  <2>3. /\ sh' \in [Shells -> ShellState]
        /\ sh'[s].pc = "rm" /\ Keeps(s, ScriptFields \cup UploadFields \cup {"file"})
        /\ \A r \in Shells \ {s} : Keeps(r, ScriptFields \cup UploadFields \cup {"pc", "args"})
    BY <1>4, <2>2, UnlinkStep
  <2>. QED
    BY <2>1, <2>3 DEF Steady, Keeps, At
<1>5. CASE Open(s)
  <2>1. /\ sh[s].pc \in {"touch", "cat"} /\ Go(s, [pc |-> "line"])
        /\ UNCHANGED <<plan, client, wire, captures, failed, executed, payloads>>
    BY <1>5 DEF Open, At
  <2>. QED
    BY <1>1, <1>2, <2>1 DEF Steady, At
<1>. QED
  BY <1>3, <1>4, <1>5 DEF Filing

\* Where names start is a path.
LEMMA BasePath ==
    ASSUME Typed, Scripted, NEW s \in Shells
    PROVE  Base(s) \in Paths
<1>. DEFINE a == [from |-> sh[s].from, path |-> <<>>]
<1>1. sh[s].from \in {"root", "cwd"} /\ Root \in Paths
  BY DEF Typed, ShellState, Root, Paths
<1>2. a \in Args /\ a.from # "outside"
  BY <1>1 DEF Args, Root
<1>3. Base(s) = IF sh[s].dirs = <<>> THEN Root ELSE ToAbs(s, a)
  BY DEF Base
<1>. HIDE DEF a
<1>4. ToAbs(s, a) \in Paths
  BY <1>2, ToAbsPath DEF Typed
<1>. QED
  BY <1>1, <1>3, <1>4

\* What becomes of an acknowledgement.
LEMMA AckStep ==
    ASSUME Typed, NEW s \in Shells, Ack(s)
    PROVE  /\ client' \in [Shells -> [sent : Nat, acks : Nat, end : {"open", "eof", "cut"}]]
           /\ client'[s].acks = client[s].acks + 1
           /\ client'[s].sent = client[s].sent /\ client'[s].end = client[s].end
           /\ \A r \in Shells \ {s} : client'[r] = client[r]
<1>1. client[s] \in [sent : Nat, acks : Nat, end : {"open", "eof", "cut"}]
  BY DEF Typed
<1>. DEFINE c == [client[s] EXCEPT !.acks = @ + 1]
<1>2. /\ c.acks = client[s].acks + 1 /\ c.sent = client[s].sent /\ c.end = client[s].end
      /\ c \in [sent : Nat, acks : Nat, end : {"open", "eof", "cut"}]
  BY <1>1
<1>3. client' = [client EXCEPT ![s] = c]
  BY DEF Ack
<1>. HIDE DEF c
<1>. QED
  BY <1>2, <1>3 DEF Typed

\* A message that is acknowledged, and what is done with it.
Entering(s, c) == /\ c.t = "D" /\ Keeps(s, {"pc", "from", "left", "key", "path"})
                  /\ sh'[s].dirs = Append(sh[s].dirs, <<c.name>>)
                  /\ FlattenSeq(sh'[s].dirs) \in Paths
                  /\ tree' = MkdirAll(tree, FlattenSeq(sh'[s].dirs))
Leaving(s, c)  == /\ c.t = "E" /\ Keeps(s, {"pc", "left", "key", "path"})
                  /\ sh[s].dirs # <<>> /\ sh'[s].dirs = Front(sh[s].dirs)
                  /\ sh'[s].from = IF sh'[s].dirs = <<>> THEN "cwd" ELSE sh[s].from
                  /\ UNCHANGED tree
Naming(s, c)   == /\ c.t = "C" /\ sh'[s].pc = "mkdir" /\ sh'[s].left = c.length
                  /\ sh'[s].key = Append(FlattenSeq(sh[s].dirs), c.name)
                  /\ sh'[s].path = Base(s) \o sh'[s].key
                  /\ sh'[s].dirs = sh[s].dirs /\ sh'[s].from = sh[s].from
                  /\ UNCHANGED tree
Passing(s, c)  == c.t = "T" /\ UNCHANGED <<sh, tree>>

\* What is not.
Ending(s)      == /\ wire[s] = <<>> /\ client[s].end # "open" /\ UNCHANGED <<wire, tree>>
                  /\ sh'[s].pc = "line" /\ Keeps(s, UploadFields)
Leftover(s, c) == c.t \in {"nul", "byte"} /\ UNCHANGED <<sh, tree>>
Failing(s, c)  == /\ c.t = "E" /\ sh[s].dirs = <<>> /\ sh'[s].pc = "panicked"
                  /\ Keeps(s, UploadFields) /\ UNCHANGED tree

\* What a step that reads a message does, seen from the proofs.
LEMMA ReceivingStep ==
    ASSUME Typed, Scripted, NEW s \in Shells, Receiving(s)
    PROVE  /\ Steady(s) /\ At(s, "type") /\ Keeps(s, {"args", "file", "data"})
           /\ UNCHANGED <<captures, failed>>
           /\ wire' \in [Shells -> Seq(Token)]
           /\ \A r \in Shells \ {s} : wire'[r] = wire[r]
           /\ \/ Ending(s) /\ UNCHANGED client
              \/ /\ wire[s] # <<>> /\ Head(wire[s]) \in Token /\ wire'[s] = Tail(wire[s])
                 /\ \/ UNCHANGED client /\ (Leftover(s, Head(wire[s])) \/ Failing(s, Head(wire[s])))
                    \/ /\ Ack(s)
                       /\ \/ Entering(s, Head(wire[s])) \/ Leaving(s, Head(wire[s]))
                          \/ Naming(s, Head(wire[s])) \/ Passing(s, Head(wire[s]))
<1>. sh \in [Shells -> ShellState] /\ wire \in [Shells -> Seq(Token)]
  BY DEF Typed
<1>. DEFINE c == Head(wire[s])
<1>1. ASSUME Others(s), Keeps(s, ScriptFields), UNCHANGED <<plan, executed, payloads>>
      PROVE  Steady(s)
  BY <1>1 DEF Others, Keeps, Steady
<1>2. ASSUME UNCHANGED sh
      PROVE  /\ Others(s) /\ Keeps(s, ScriptFields) /\ Keeps(s, {"args", "file", "data"})
  BY <1>2 DEF Others, Keeps
<1>3. ASSUME NEW types, Message(s, types)
      PROVE  /\ At(s, "type") /\ UNCHANGED <<plan, captures, failed, executed, payloads>>
             /\ wire[s] # <<>> /\ c.t \in types
             /\ c \in Token /\ wire'[s] = Tail(wire[s])
             /\ wire' \in [Shells -> Seq(Token)]
             /\ \A r \in Shells \ {s} : wire'[r] = wire[r]
  <2>1. wire[s] \in Seq(Token) /\ wire[s] # <<>>
    BY <1>3 DEF Message
  <2>2. c \in Token /\ Tail(wire[s]) \in Seq(Token)
    BY <2>1, HeadTailProperties
  <2>. HIDE DEF c
  <2>3. wire' = [wire EXCEPT ![s] = Tail(wire[s])]
    BY <1>3 DEF Message
  <2>. QED
    BY <1>3, <2>1, <2>2, <2>3 DEF Message, c
<1>. HIDE DEF c
<1>4. CASE ScpEnd(s)
  <2>1. /\ At(s, "type") /\ wire[s] = <<>> /\ client[s].end # "open"
        /\ Go(s, [pc |-> "line"])
        /\ UNCHANGED <<plan, client, wire, tree, captures, failed, executed, payloads>>
    BY <1>4 DEF ScpEnd
  <2>2. "line" \in Locations
    BY DEF Locations
  <2>3. /\ Others(s) /\ sh'[s].pc = "line" /\ Keeps(s, ScriptFields)
        /\ Keeps(s, UploadFields) /\ Keeps(s, {"args", "file"})
    BY <2>1, <2>2, PcStep
  <2>4. Keeps(s, {"args", "file", "data"})
    BY <2>3 DEF Keeps, UploadFields
  <2>. QED
    BY <1>1, <2>1, <2>3, <2>4 DEF Ending
<1>5. CASE ScpFile(s)
  <2>1. Message(s, {"C"}) /\ Ack(s) /\ UNCHANGED tree
    BY <1>5 DEF ScpFile
  <2>2. Base(s) \in Paths
    BY BasePath
  <2>3. /\ Others(s) /\ Keeps(s, ScriptFields) /\ Keeps(s, {"args", "from", "dirs", "data", "file"})
        /\ sh'[s].pc = "mkdir" /\ sh'[s].left = c.length
        /\ sh'[s].key = Append(FlattenSeq(sh[s].dirs), c.name)
        /\ sh'[s].path = Base(s) \o sh'[s].key
    BY <1>5, <2>2, FileStep DEF c
  <2>4. /\ Keeps(s, {"args", "file", "data"}) /\ sh'[s].dirs = sh[s].dirs
        /\ sh'[s].from = sh[s].from
    BY <2>3 DEF Keeps
  <2>5. Naming(s, c)
    BY <1>3, <2>1, <2>3, <2>4 DEF Naming
  <2>. QED
    BY <1>1, <1>3, <2>1, <2>3, <2>4, <2>5 DEF c
<1>6. CASE ScpDir(s)
  <2>. DEFINE d == Append(sh[s].dirs, <<c.name>>)
  <2>1. /\ Message(s, {"D"}) /\ Ack(s)
        /\ Go(s, [dirs |-> d]) /\ tree' = MkdirAll(tree, FlattenSeq(d))
    BY <1>6 DEF ScpDir, c
  <2>2. c \in Token /\ c.t = "D"
    BY <1>3, <2>1
  <2>3. <<c.name>> \in Seq(Names)
    BY <2>2 DEF Token, Header, FileHeader
  <2>4. sh[s].dirs \in Seq(Seq(Names))
    BY DEF ShellState, Paths
  <2>5. d \in Seq(Seq(Names))
    BY <2>3, <2>4, AppendProperties
  <2>. HIDE DEF d
  <2>6. FlattenSeq(d) \in Paths /\ d \in Seq(Paths)
    BY <2>5, FlattenType DEF Paths
  <2>7. /\ Others(s) /\ Keeps(s, ScriptFields)
        /\ Keeps(s, {"pc", "args", "from", "left", "key", "path", "data", "file"})
        /\ sh'[s].dirs = d
    BY <2>1, <2>6, DirsGoStep
  <2>8. Keeps(s, {"args", "file", "data"}) /\ Keeps(s, {"pc", "from", "left", "key", "path"})
    BY <2>7 DEF Keeps
  <2>9. Entering(s, c)
    BY <2>1, <2>2, <2>6, <2>7, <2>8 DEF Entering, d
  <2>. QED
    BY <1>1, <1>3, <2>1, <2>7, <2>8, <2>9 DEF c
<1>7. CASE ScpLeave(s)
  <2>1. /\ Message(s, {"E"}) /\ UNCHANGED tree
        /\ IF sh[s].dirs = <<>> THEN Go(s, [pc |-> "panicked"]) /\ UNCHANGED client
           ELSE LET dirs == Front(sh[s].dirs)
                IN Ack(s) /\ Go(s, [dirs |-> dirs,
                                    from |-> IF dirs = <<>> THEN "cwd" ELSE sh[s].from])
    BY <1>7 DEF ScpLeave, Panic
  <2>2. CASE sh[s].dirs = <<>>
    <3>1. "panicked" \in Locations
      BY DEF Locations
    <3>2. /\ Others(s) /\ sh'[s].pc = "panicked" /\ Keeps(s, ScriptFields)
          /\ Keeps(s, UploadFields) /\ Keeps(s, {"args", "file"})
      BY <2>1, <2>2, <3>1, PcStep
    <3>3. Keeps(s, {"args", "file", "data"})
      BY <3>2 DEF Keeps, UploadFields
    <3>4. Failing(s, c)
      BY <1>3, <2>1, <2>2, <3>2 DEF Failing
    <3>. QED
      BY <1>1, <1>3, <2>1, <2>2, <3>2, <3>3, <3>4 DEF c
  <2>3. CASE sh[s].dirs # <<>>
    <3>1. sh[s].dirs \in Seq(Paths) /\ Len(sh[s].dirs) \in Nat /\ Len(sh[s].dirs) >= 1
      BY <2>3, EmptySeq, LenProperties DEF ShellState
    <3>2. Front(sh[s].dirs) \in Seq(Paths)
      BY <3>1, SubSeqProperties DEF Front
    <3>. DEFINE d == Front(sh[s].dirs)
                g == IF d = <<>> THEN "cwd" ELSE sh[s].from
    <3>5. /\ d \in Seq(Paths) /\ g \in {"root", "cwd"} /\ Ack(s)
          /\ Go(s, [dirs |-> d, from |-> g])
      BY <2>1, <2>3, <3>2 DEF ShellState
    <3>. HIDE DEF g, d
    <3>3. /\ Others(s) /\ Keeps(s, ScriptFields)
          /\ Keeps(s, {"pc", "args", "left", "key", "path", "data", "file"})
          /\ sh'[s].dirs = d /\ sh'[s].from = g
      BY <3>5, LeaveGoStep
    <3>4. Keeps(s, {"args", "file", "data"}) /\ Keeps(s, {"pc", "left", "key", "path"})
      BY <3>3 DEF Keeps
    <3>6. Leaving(s, c)
      BY <1>3, <2>1, <2>3, <3>3, <3>4 DEF Leaving, d, g
    <3>. QED
      BY <1>1, <1>3, <2>1, <2>3, <3>3, <3>4, <3>5, <3>6 DEF c
  <2>. QED
    BY <2>2, <2>3
<1>8. CASE ScpOther(s)
  <2>1. /\ Message(s, {"T", "nul", "byte"})
        /\ IF c.t = "T" THEN Ack(s) ELSE UNCHANGED client
        /\ UNCHANGED <<tree, sh>>
    BY <1>8 DEF ScpOther, c
  <2>2. (Passing(s, c) /\ Ack(s)) \/ (Leftover(s, c) /\ UNCHANGED client)
    <3>1. c.t \in {"T", "nul", "byte"}
      BY <1>3, <2>1
    <3>2. CASE c.t = "T"
      BY <2>1, <3>2 DEF Passing
    <3>3. CASE c.t # "T"
      <4>1. UNCHANGED client
        BY <2>1, <3>3
      <4>. QED
        BY <2>1, <3>1, <3>3, <4>1 DEF Leftover
    <3>. QED
      BY <3>2, <3>3
  <2>. QED
    BY <1>1, <1>2, <1>3, <2>1, <2>2 DEF c
<1>. QED
  BY <1>4, <1>5, <1>6, <1>7, <1>8 DEF Receiving

\* The smaller of two numbers.
LEMMA MinOfTwo ==
    ASSUME NEW a \in Nat, NEW b \in Nat
    PROVE  Min({a, b}) = IF a <= b THEN a ELSE b
<1>. DEFINE m == IF a <= b THEN a ELSE b
<1>1. m \in {a, b} /\ \A y \in {a, b} : m <= y
  OBVIOUS
<1>2. \A x \in {a, b} : (\A y \in {a, b} : x <= y) => x = m
  OBVIOUS
<1>. HIDE DEF m
<1>3. Min({a, b}) = m
  BY <1>1, <1>2 DEF Min
<1>. QED
  BY <1>3 DEF m

\* Reading the contents of a file off what has arrived of it.
LEMMA PartRead ==
    ASSUME NEW d \in FileData, NEW m \in 0..(Len(d.v) + 1)
    PROVE  LET w == SubSeq(Part(d), 1, m)
               n == IF Len(d.v) <= m THEN Len(d.v) ELSE m
           IN /\ n \in 0..Len(d.v) /\ Len(w) = m
              /\ [i \in 1..n |-> w[i].v] = SubSeq(d.v, 1, n)
              /\ SubSeq(w, n + 1, Len(w)) = IF m = Len(d.v) + 1 THEN <<Nul>> ELSE <<>>
<1>. DEFINE k == Len(d.v)
            p == Part(d)
            w == SubSeq(p, 1, m)
            n == IF k <= m THEN k ELSE m
            e == [i \in 1..n |-> w[i].v]
<1>. /\ n = IF k <= m THEN k ELSE m
     /\ w = SubSeq(p, 1, m)
  OBVIOUS
<1>. HIDE DEF w, n
<1>1. /\ d.v \in Seq(Bytes) /\ k \in Nat /\ p \in Seq(Token) /\ Len(p) = k + 1
      /\ \A i \in 1..k : p[i].v = d.v[i]
      /\ p[k + 1] = Nul
  BY DataPart
<1>2. n \in 0..k /\ n <= m
  BY <1>1
<1>. HIDE DEF p
<1>3. m \in 0..Len(p) /\ w = SubSeq(p, 1, m)
  BY <1>1
<1>4. /\ w \in Seq(Token) /\ Len(w) = m
      /\ \A i \in 1..m : w[i] = p[i]
  BY <1>1, <1>3, PrefixIsSeq
<1>5. ASSUME NEW i \in 1..n PROVE w[i].v = d.v[i]
  <2>1. i \in 1..k /\ i \in 1..m
    BY <1>1, <1>2
  <2>. QED
    BY <1>1, <1>4, <2>1
<1>6. \A i \in 1..n : d.v[i] \in Bytes
  BY <1>1, <1>2, ElementOfSeq
<1>7. e \in Seq(Bytes) /\ Len(e) = n /\ \A i \in 1..n : e[i] = d.v[i]
  <2>1. \A i \in 1..n : w[i].v \in Bytes
    BY <1>5, <1>6
  <2>2. e \in [1..n -> Bytes] /\ n \in Nat
    BY <1>1, <1>2, <2>1
  <2>3. \A i \in 1..n : e[i] = d.v[i]
    BY <1>5
  <2>. HIDE DEF e
  <2>4. e \in Seq(Bytes)
    BY <2>2
  <2>5. Len(e) = n
    BY <2>2
  <2>. QED
    BY <2>3, <2>4, <2>5
<1>8. /\ SubSeq(d.v, 1, n) \in Seq(Bytes) /\ Len(SubSeq(d.v, 1, n)) = n
      /\ \A i \in 1..n : SubSeq(d.v, 1, n)[i] = d.v[i]
  BY <1>1, <1>2, PrefixIsSeq
<1>. HIDE DEF e
<1>9. e = SubSeq(d.v, 1, n)
  BY <1>7, <1>8, SeqEqual
<1>10. CASE m = k + 1
  <2>1. n = k /\ Len(w) = k + 1
    BY <1>1, <1>4, <1>10
  <2>2. k + 1 \in 1..Len(w)
    BY <1>1, <2>1
  <2>3. SubSeq(w, k + 1, k + 1) = <<w[k + 1]>>
    <3>1. SubSeq(w, k + 1, k + 1) = <<w[k + 1]>> \o SubSeq(w, (k + 1) + 1, k + 1)
      <4>1. k + 1 \in (k + 1)..Len(w)
        BY <1>1, <2>1
      <4>. QED
        BY <1>4, <2>2, <4>1, SubSeqRecursiveFirst
    <3>2. SubSeq(w, (k + 1) + 1, k + 1) = <<>>
      BY <1>1, SubSeqEmpty
    <3>3. w[k + 1] \in Token
      BY <1>4, <2>2, ElementOfSeq
    <3>4. <<w[k + 1]>> \o <<>> = <<w[k + 1]>>
      BY <3>3, ConcatEmptySeq
    <3>. QED
      BY <3>1, <3>2, <3>4
  <2>4. w[k + 1] = Nul
    BY <1>1, <1>4, <1>10
  <2>5. SubSeq(w, n + 1, Len(w)) = <<Nul>>
    BY <2>1, <2>3, <2>4
  <2>. QED
    BY <1>2, <1>4, <1>9, <1>10, <2>5 DEF e, w, n, p
<1>11. CASE m # k + 1
  <2>1. n = m
    BY <1>1, <1>11
  <2>2. SubSeq(w, n + 1, Len(w)) = <<>>
    <3>1. n + 1 \in Int /\ Len(w) \in Int /\ Len(w) < n + 1
      BY <1>1, <1>2, <1>4, <2>1
    <3>. QED
      BY <3>1, SubSeqEmpty
  <2>. QED
    BY <1>2, <1>4, <1>9, <1>11, <2>2 DEF e, w, n, p
<1>. QED
  BY <1>10, <1>11

\* What a shell that has acknowledged the header of a file knows of it.
LEMMA HeaderFacts ==
    ASSUME Typed, NEW s \in Shells, OnHeader(s)
    PROVE  LET c == client[s]
               u == plan[s].upload
           IN /\ c.acks \in Nat /\ c.acks - 1 \in 1..Len(u) /\ c.acks \in 1..Len(u)
              /\ u[c.acks] \in FileData /\ Len(u[c.acks].v) = sh[s].left
              /\ sh[s].left \in Nat
              /\ Sent(s, c.acks - 1) =
                    IF c.end = "cut" \/ Name(s, c.acks - 1) \in failed
                    THEN Prefixes(u[c.acks].v) ELSE {u[c.acks].v}
<1>. DEFINE a == client[s].acks
            u == plan[s].upload
<1>1. a \in Nat /\ plan \in Plans /\ sh[s].left \in Nat
  BY DEF Typed, ShellState
<1>2. /\ a - 1 \in 1..Len(u) /\ u[a - 1].t = "C" /\ sh[s].left = u[a - 1].length
  BY DEF OnHeader
<1>3. /\ (a - 1) + 1 \in 1..Len(u) /\ u[(a - 1) + 1] \in FileData
      /\ Len(u[(a - 1) + 1].v) = u[a - 1].length
  BY <1>1, <1>2, UploadFacts
<1>4. (a - 1) + 1 = a
  BY <1>1
<1>. HIDE DEF a
<1>5. Sent(s, a - 1) = IF client[s].end = "cut" \/ Name(s, a - 1) \in failed
                       THEN Prefixes(u[a].v) ELSE {u[a].v}
  BY <1>4 DEF Sent
<1>. QED
  BY <1>1, <1>2, <1>3, <1>4, <1>5 DEF a

\* The contents are read: all that was announced, or up to where it was cut.
LEMMA DataStep ==
    ASSUME Typed, Paced, InStepAwaiting, NEW s \in Shells, ScpData(s)
    PROVE  LET c == client[s]
           IN /\ Others(s) /\ Keeps(s, ScriptFields)
              /\ Keeps(s, {"args", "from", "dirs", "left", "key", "path"})
              /\ At(s, "data") /\ OnHeader(s)
              /\ UNCHANGED <<plan, client, tree, captures, failed, executed, payloads>>
              /\ wire' \in [Shells -> Seq(Token)]
              /\ \A r \in Shells \ {s} : wire'[r] = wire[r]
              /\ \/ sh'[s].pc = "line" /\ sh'[s].file = NoFile
                 \/ /\ sh'[s].pc = "write" /\ sh'[s].file = sh[s].file
                    /\ sh'[s].data \in Sent(s, c.acks - 1)
                    /\ \/ /\ c.sent = c.acks - 1 /\ wire'[s] = <<>>
                          /\ c.end = "cut" \/ sh[s].left = 0
                       \/ c.sent = c.acks /\ wire'[s] = <<Nul>>
                       \/ c.sent = c.acks /\ c.end = "cut" /\ wire'[s] = <<>>
<1>. DEFINE c == client[s]
            u == plan[s].upload
            d == u[c.acks]
            w == wire[s]
            n == Min({sh[s].left, Len(w)})
            e == [i \in 1..n |-> w[i].v]
<1>1. /\ At(s, "data") /\ UNCHANGED <<plan, client, tree, captures, failed, executed, payloads>>
      /\ n = sh[s].left \/ c.end # "open"
      /\ \/ Go(s, [pc |-> "write", data |-> e])
         \/ c.end = "cut" /\ n < sh[s].left /\ Go(s, [pc |-> "line", file |-> NoFile])
      /\ wire' = [wire EXCEPT ![s] = SubSeq(w, n + 1, Len(w))]
  BY DEF ScpData
<1>2. /\ OnHeader(s)
      /\ \/ c.sent = c.acks - 1 /\ w = <<>>
         \/ c.sent = c.acks /\ w = Part(d)
         \/ c.sent = c.acks /\ c.end = "cut" /\ w \in Prefixes(Part(d))
  BY <1>1 DEF InStepAwaiting, Expecting, Awaiting, At
<1>3. /\ c.acks \in Nat /\ c.acks \in 1..Len(u) /\ d \in FileData /\ Len(d.v) = sh[s].left
      /\ sh[s].left \in Nat
      /\ Sent(s, c.acks - 1) = IF c.end = "cut" \/ Name(s, c.acks - 1) \in failed
                               THEN Prefixes(d.v) ELSE {d.v}
  BY <1>2, HeaderFacts
<1>4. /\ c.end \in {"open", "eof", "cut"} /\ w \in Seq(Token) /\ Len(w) \in Nat
      /\ wire \in [Shells -> Seq(Token)] /\ sh \in [Shells -> ShellState]
  BY DEF Typed
<1>5. n = IF sh[s].left <= Len(w) THEN sh[s].left ELSE Len(w)
  BY <1>3, <1>4, MinOfTwo
<1>6. /\ d.v \in Seq(Bytes) /\ Part(d) \in Seq(Token) /\ Len(Part(d)) = Len(d.v) + 1
  BY <1>3, DataPart
<1>7. PICK m \in 0..(Len(d.v) + 1) : w = SubSeq(Part(d), 1, m)
  <2>1. CASE w = <<>>
    <3>1. SubSeq(Part(d), 1, 0) = <<>>
      BY SubSeqEmpty
    <3>2. 0 \in 0..(Len(d.v) + 1)
      BY <1>3
    <3>. QED
      BY <2>1, <3>1, <3>2
  <2>2. CASE w = Part(d)
    <3>1. SubSeq(Part(d), 1, Len(Part(d))) = Part(d)
      BY <1>6, SubSeqFull
    <3>2. Len(Part(d)) \in 0..(Len(d.v) + 1)
      BY <1>3, <1>6
    <3>. QED
      BY <2>2, <3>1, <3>2
  <2>3. CASE w \in Prefixes(Part(d))
    <3>. HIDE DEF w, d
    <3>1. PICK m \in 0..Len(Part(d)) : w = SubSeq(Part(d), 1, m)
      BY <2>3 DEF Prefixes
    <3>. QED
      BY <1>6, <3>1
  <2>. QED
    BY <1>2, <2>1, <2>2, <2>3
<1>8. n = IF Len(d.v) <= m THEN Len(d.v) ELSE m
  <2>1. m \in 0..Len(Part(d))
    BY <1>6
  <2>2. Len(w) = m
    BY <1>6, <1>7, <2>1, PrefixIsSeq
  <2>. QED
    BY <1>3, <1>5, <2>2
<1>. HIDE DEF n
<1>9. /\ n \in 0..Len(d.v) /\ Len(w) = m /\ e = SubSeq(d.v, 1, n)
      /\ SubSeq(w, n + 1, Len(w)) = IF m = Len(d.v) + 1 THEN <<Nul>> ELSE <<>>
  <2>. HIDE DEF d, w
  <2>. QED
    <3>. DEFINE W == SubSeq(Part(d), 1, m)
                N == IF Len(d.v) <= m THEN Len(d.v) ELSE m
    <3>1. /\ N \in 0..Len(d.v) /\ Len(W) = m
          /\ [i \in 1..N |-> W[i].v] = SubSeq(d.v, 1, N)
          /\ SubSeq(W, N + 1, Len(W)) = IF m = Len(d.v) + 1 THEN <<Nul>> ELSE <<>>
      BY <1>3, PartRead
    <3>2. w = W /\ n = N
      BY <1>7, <1>8
    <3>. HIDE DEF W, N
    <3>. QED
      BY <3>1, <3>2
<1>. HIDE DEF e
<1>10. e \in Seq(Bytes) /\ e \in Prefixes(d.v)
  BY <1>6, <1>9, PrefixIsSeq
<1>11. wire'[s] = IF m = Len(d.v) + 1 THEN <<Nul>> ELSE <<>>
  BY <1>1, <1>4, <1>9
<1>12. /\ wire' \in [Shells -> Seq(Token)] /\ \A r \in Shells \ {s} : wire'[r] = wire[r]
  <2>1. <<>> \in Seq(Token) /\ <<Nul>> \in Seq(Token)
    BY DEF Token, Nul
  <2>. HIDE DEF w, d
  <2>2. SubSeq(w, n + 1, Len(w)) \in Seq(Token)
    BY <1>9, <2>1
  <2>. QED
    BY <1>1, <1>4, <2>2
<1>13. CASE Go(s, [pc |-> "line", file |-> NoFile])
  <2>1. "line" \in Locations /\ NoFile \in Paths \cup {NoFile}
    BY DEF Locations
  <2>2. /\ Others(s) /\ Keeps(s, ScriptFields) /\ Keeps(s, UploadFields)
        /\ Keeps(s, {"args"}) /\ sh'[s].pc = "line" /\ sh'[s].file = NoFile
    BY <1>4, <1>13, <2>1, FileGoStep
  <2>3. Keeps(s, {"args", "from", "dirs", "left", "key", "path"})
    BY <2>2 DEF Keeps, UploadFields
  <2>. HIDE DEF c, w
  <2>. QED
    BY <1>1, <1>2, <1>12, <2>2, <2>3
<1>14. CASE Go(s, [pc |-> "write", data |-> e])
  <2>1. /\ Others(s) /\ Keeps(s, ScriptFields)
        /\ Keeps(s, {"args", "from", "dirs", "left", "key", "path", "file"})
        /\ sh'[s].pc = "write" /\ sh'[s].data = e
    BY <1>4, <1>10, <1>14, DataGoStep
  <2>2. Keeps(s, {"args", "from", "dirs", "left", "key", "path"}) /\ sh'[s].file = sh[s].file
    BY <2>1 DEF Keeps
  <2>3. e \in Sent(s, c.acks - 1)
    <3>1. CASE c.end = "cut"
      BY <1>3, <1>10, <3>1
    <3>2. CASE n = sh[s].left
      <4>1. SubSeq(d.v, 1, Len(d.v)) = d.v
        BY <1>6, SubSeqFull
      <4>2. e = d.v
        BY <1>3, <1>9, <3>2, <4>1
      <4>. QED
        BY <1>3, <1>10, <4>2
    <3>3. c.end # "eof"
      <4>1. c.end = "eof" => c.acks = Len(u) + 1 \/ (u = <<>>)
        BY <1>1, PlanFacts DEF Paced, Waits, Typed
      <4>. QED
        BY <1>3, <4>1
    <3>. QED
      BY <1>1, <1>4, <3>1, <3>2, <3>3
  <2>4. \/ /\ c.sent = c.acks - 1 /\ wire'[s] = <<>>
           /\ c.end = "cut" \/ sh[s].left = 0
        \/ c.sent = c.acks /\ wire'[s] = <<Nul>>
        \/ c.sent = c.acks /\ c.end = "cut" /\ wire'[s] = <<>>
    <3>1. c.end # "eof"
      <4>1. c.end = "eof" => c.acks = Len(u) + 1 \/ (u = <<>>)
        BY <1>1, PlanFacts DEF Paced, Waits, Typed
      <4>. QED
        BY <1>3, <4>1
    <3>2. CASE c.sent = c.acks - 1 /\ w = <<>>
      <4>1. m = 0 /\ n = 0
        <5>1. Len(<<>>) = 0 /\ w = <<>>
          BY <3>2
        <5>2. Len(d.v) \in Nat
          BY <1>3
        <5>. HIDE DEF w, d, c
        <5>3. Len(w) = 0
          BY <5>1
        <5>4. m = 0
          BY <1>9, <5>3
        <5>. QED
          BY <1>8, <5>2, <5>4
      <4>2. wire'[s] = <<>>
        BY <1>3, <1>11, <4>1
      <4>3. c.end = "cut" \/ sh[s].left = 0
        BY <1>1, <1>3, <1>4, <3>1, <4>1
      <4>. QED
        BY <3>2, <4>2, <4>3
    <3>3. CASE c.sent = c.acks /\ w = Part(d)
      <4>1. m = Len(d.v) + 1
        BY <1>6, <1>9, <3>3
      <4>. QED
        BY <1>11, <3>3, <4>1
    <3>4. CASE c.sent = c.acks /\ c.end = "cut"
      BY <1>11, <3>4
    <3>. QED
      BY <1>2, <3>2, <3>3, <3>4
  <2>. HIDE DEF c, w
  <2>5. sh'[s].data \in Sent(s, c.acks - 1)
    BY <2>1, <2>3
  <2>. QED
    BY <1>1, <1>2, <1>12, <2>1, <2>2, <2>4, <2>5 DEF c
<1>. QED
  BY <1>1, <1>13, <1>14

\* A file on its way from its header to the second acknowledgement: where the
\* shell goes, which file it has open, and what becomes of the trees.
Making(s) ==
    /\ At(s, "mkdir") /\ sh'[s].pc = "open" /\ sh'[s].file = sh[s].file
    /\ tree' = MkdirAll(tree, Front(sh[s].path)) /\ UNCHANGED <<captures, failed>>
Opening(s) ==
    /\ At(s, "open") /\ UNCHANGED <<captures, failed>>
    /\ \/ UNCHANGED tree /\ sh'[s].pc = "line" /\ sh'[s].file = sh[s].file
       \/ /\ CanOpen(tree, sh[s].path) /\ tree' = Created(tree, sh[s].path)
          /\ sh'[s].pc = "data"
          /\ sh'[s].file = IF DirExists(tree, sh[s].path) THEN NoFile ELSE sh[s].path
Writing(s) ==
    /\ At(s, "write") /\ sh'[s].pc = "check" /\ sh'[s].file = sh[s].file
    /\ tree' = (IF sh[s].file = NoFile THEN tree
                ELSE [tree EXCEPT ![sh[s].file] = Overwritten(@, sh[s].data)])
    /\ UNCHANGED <<captures, failed>>
Checking(s) ==
    /\ At(s, "check") /\ sh'[s].file = sh[s].file /\ UNCHANGED <<tree, captures, failed>>
    /\ sh'[s].pc = IF FileExists(captures, sh[s].key) THEN "done" ELSE "capture"
Creating(s) ==
    LET parents == MkdirAll(captures, Front(sh[s].key))
    IN /\ At(s, "capture") /\ sh'[s].file = sh[s].file /\ UNCHANGED tree
       /\ \/ /\ CanOpen(parents, sh[s].key) /\ ~ DirExists(parents, sh[s].key)
             /\ captures' = Put(parents, [q \in {sh[s].key} |-> <<>>])
             /\ sh'[s].pc = "save" /\ UNCHANGED failed
          \/ /\ ~ CanOpen(parents, sh[s].key) \/ DirExists(parents, sh[s].key)
             /\ captures' = parents
             /\ sh'[s].pc = "done" /\ UNCHANGED failed
          \/ /\ \E q \in Prefixes(Front(sh[s].key)) : captures' = MkdirAll(captures, q)
             /\ sh'[s].pc = "done" /\ Fail(s)
Copying(s) ==
    /\ At(s, "save") /\ sh'[s].pc = "done" /\ sh'[s].file = sh[s].file /\ UNCHANGED tree
    /\ \E data \in Prefixes(sh[s].data) :
          /\ captures' = [captures EXCEPT ![sh[s].key] = Overwritten(@, data)]
          /\ IF data = sh[s].data THEN UNCHANGED failed ELSE Fail(s)

Storage(s) == \/ Making(s) \/ Opening(s) \/ Writing(s) \/ Checking(s)
              \/ Creating(s) \/ Copying(s)

\* What a step that stores a file does, seen from the proofs.
LEMMA SavingStep ==
    ASSUME Typed, Paced, InStepAwaiting, NEW s \in Shells, Saving(s)
    PROVE  /\ Steady(s) /\ Keeps(s, {"args", "from", "dirs", "left", "key", "path"})
           /\ wire' \in [Shells -> Seq(Token)]
           /\ \A r \in Shells \ {s} : wire'[r] = wire[r]
           /\ \/ Storage(s) /\ UNCHANGED <<client, wire>> /\ Keeps(s, {"data"})
              \/ ScpData(s) /\ UNCHANGED client
              \/ /\ At(s, "done") /\ Ack(s) /\ UNCHANGED <<wire, tree, captures, failed>>
                 /\ sh'[s].pc = "type" /\ sh'[s].file = NoFile /\ Keeps(s, {"data"})
<1>. /\ sh \in [Shells -> ShellState] /\ wire \in [Shells -> Seq(Token)]
  BY DEF Typed
<1>1. ASSUME Others(s), Keeps(s, ScriptFields), UNCHANGED <<plan, executed, payloads>>
      PROVE  Steady(s)
  BY <1>1 DEF Others, Keeps, Steady
<1>2. ASSUME NEW p \in Locations, Go(s, [pc |-> p]), UNCHANGED <<plan, executed, payloads>>
      PROVE  /\ Steady(s) /\ Keeps(s, {"args", "from", "dirs", "left", "key", "path"})
             /\ sh'[s].pc = p /\ sh'[s].file = sh[s].file /\ Keeps(s, {"data"})
  <2>1. /\ Others(s) /\ sh'[s].pc = p /\ Keeps(s, ScriptFields)
        /\ Keeps(s, UploadFields) /\ Keeps(s, {"args", "file"})
    BY <1>2, PcStep
  <2>. QED
    BY <1>1, <1>2, <2>1 DEF Keeps, UploadFields
<1>3. ASSUME NEW p \in Locations, NEW q \in Paths \cup {NoFile},
             Go(s, [pc |-> p, file |-> q]), UNCHANGED <<plan, executed, payloads>>
      PROVE  /\ Steady(s) /\ Keeps(s, {"args", "from", "dirs", "left", "key", "path"})
             /\ sh'[s].pc = p /\ sh'[s].file = q /\ Keeps(s, {"data"})
  <2>1. /\ Others(s) /\ Keeps(s, ScriptFields) /\ Keeps(s, UploadFields)
        /\ Keeps(s, {"args"}) /\ sh'[s].pc = p /\ sh'[s].file = q
    BY <1>3, FileGoStep
  <2>. QED
    BY <1>1, <1>3, <2>1 DEF Keeps, UploadFields
<1>4. {"open", "data", "check", "capture", "save", "done", "type", "line"} \subseteq Locations
  BY DEF Locations
<1>5. sh[s].path \in Paths
  BY DEF ShellState
<1>6. CASE ScpMkdir(s)
  <2>1. /\ At(s, "mkdir") /\ tree' = MkdirAll(tree, Front(sh[s].path))
        /\ Go(s, [pc |-> "open"])
        /\ UNCHANGED <<plan, client, wire, captures, failed, executed, payloads>>
    BY <1>6 DEF ScpMkdir
  <2>2. Making(s) /\ Steady(s) /\ Keeps(s, {"args", "from", "dirs", "left", "key", "path"})
        /\ Keeps(s, {"data"})
    BY <1>2, <1>4, <2>1 DEF Making
  <2>. QED
    BY <2>1, <2>2 DEF Storage
<1>7. CASE ScpOpen(s)
  <2>1. /\ At(s, "open")
        /\ \/ Go(s, [pc |-> "line"]) /\ UNCHANGED tree
           \/ /\ CanOpen(tree, sh[s].path) /\ tree' = Created(tree, sh[s].path)
              /\ Go(s, [pc |-> "data",
                        file |-> IF DirExists(tree, sh[s].path) THEN NoFile ELSE sh[s].path])
        /\ UNCHANGED <<plan, client, wire, captures, failed, executed, payloads>>
    BY <1>7 DEF ScpOpen
  <2>2. CASE Go(s, [pc |-> "line"]) /\ UNCHANGED tree
    <3>1. Opening(s) /\ Steady(s) /\ Keeps(s, {"args", "from", "dirs", "left", "key", "path"})
          /\ Keeps(s, {"data"})
      BY <1>2, <1>4, <2>1, <2>2 DEF Opening
    <3>. QED
      BY <2>1, <3>1 DEF Storage
  <2>3. CASE /\ CanOpen(tree, sh[s].path) /\ tree' = Created(tree, sh[s].path)
             /\ Go(s, [pc |-> "data",
                       file |-> IF DirExists(tree, sh[s].path) THEN NoFile ELSE sh[s].path])
    <3>. DEFINE q == IF DirExists(tree, sh[s].path) THEN NoFile ELSE sh[s].path
    <3>1. q \in Paths \cup {NoFile} /\ Go(s, [pc |-> "data", file |-> q])
      BY <1>5, <2>3
    <3>. HIDE DEF q
    <3>2. /\ Steady(s) /\ Keeps(s, {"args", "from", "dirs", "left", "key", "path"})
          /\ sh'[s].pc = "data" /\ sh'[s].file = q /\ Keeps(s, {"data"})
      BY <1>3, <1>4, <2>1, <3>1
    <3>3. Opening(s)
      BY <2>1, <2>3, <3>2 DEF Opening, q
    <3>. QED
      BY <2>1, <3>2, <3>3 DEF Storage
  <2>. QED
    BY <2>1, <2>2, <2>3
<1>8. CASE ScpData(s)
  <2>1. /\ Others(s) /\ Keeps(s, ScriptFields)
        /\ Keeps(s, {"args", "from", "dirs", "left", "key", "path"})
        /\ UNCHANGED <<plan, client, tree, captures, failed, executed, payloads>>
        /\ wire' \in [Shells -> Seq(Token)]
        /\ \A r \in Shells \ {s} : wire'[r] = wire[r]
    BY <1>8, DataStep
  <2>. QED
    BY <1>1, <1>8, <2>1
<1>9. CASE ScpWrite(s)
  <2>1. /\ At(s, "write") /\ Go(s, [pc |-> "check"])
        /\ tree' = (IF sh[s].file = NoFile THEN tree
                    ELSE [tree EXCEPT ![sh[s].file] = Overwritten(@, sh[s].data)])
        /\ UNCHANGED <<plan, client, wire, captures, failed, executed, payloads>>
    BY <1>9 DEF ScpWrite
  <2>2. Writing(s) /\ Steady(s) /\ Keeps(s, {"args", "from", "dirs", "left", "key", "path"})
        /\ Keeps(s, {"data"})
    BY <1>2, <1>4, <2>1 DEF Writing
  <2>. QED
    BY <2>1, <2>2 DEF Storage
<1>10. CASE ScpCheck(s)
  <2>. DEFINE p == IF FileExists(captures, sh[s].key) THEN "done" ELSE "capture"
  <2>1. /\ At(s, "check") /\ Go(s, [pc |-> p])
        /\ UNCHANGED <<plan, client, wire, tree, captures, failed, executed, payloads>>
    BY <1>10 DEF ScpCheck
  <2>2. p \in Locations
    BY <1>4
  <2>. HIDE DEF p
  <2>3. /\ Steady(s) /\ Keeps(s, {"args", "from", "dirs", "left", "key", "path"})
        /\ sh'[s].pc = p /\ sh'[s].file = sh[s].file /\ Keeps(s, {"data"})
    BY <1>2, <2>1, <2>2
  <2>4. Checking(s)
    BY <2>1, <2>3 DEF Checking, p
  <2>. QED
    BY <2>1, <2>3, <2>4 DEF Storage
<1>11. CASE ScpCapture(s)
  <2>1. UNCHANGED <<plan, client, wire, tree, executed, payloads>>
    BY <1>11 DEF ScpCapture
  <2>2. ASSUME NEW p \in {"save", "done"}, Go(s, [pc |-> p])
        PROVE  /\ Steady(s) /\ Keeps(s, {"args", "from", "dirs", "left", "key", "path"})
               /\ sh'[s].pc = p /\ sh'[s].file = sh[s].file /\ Keeps(s, {"data"})
    BY <1>2, <1>4, <2>1, <2>2
  <2>3. \E p \in {"save", "done"} : Go(s, [pc |-> p])
    BY <1>11 DEF ScpCapture
  <2>4. /\ Go(s, [pc |-> "save"]) => sh'[s].pc = "save"
        /\ Go(s, [pc |-> "done"]) => sh'[s].pc = "done"
    BY <2>2
  <2>5. Creating(s)
    BY <1>11, <2>1, <2>2, <2>3, <2>4 DEF ScpCapture, Creating
  <2>. QED
    BY <2>1, <2>2, <2>3, <2>5 DEF Storage
<1>12. CASE ScpSave(s)
  <2>1. /\ At(s, "save") /\ Go(s, [pc |-> "done"])
        /\ \E data \in Prefixes(sh[s].data) :
              /\ captures' = [captures EXCEPT ![sh[s].key] = Overwritten(@, data)]
              /\ IF data = sh[s].data THEN UNCHANGED failed ELSE Fail(s)
        /\ UNCHANGED <<plan, client, wire, tree, executed, payloads>>
    BY <1>12 DEF ScpSave
  <2>2. Copying(s) /\ Steady(s) /\ Keeps(s, {"args", "from", "dirs", "left", "key", "path"})
        /\ Keeps(s, {"data"})
    BY <1>2, <1>4, <2>1 DEF Copying
  <2>. QED
    BY <2>1, <2>2 DEF Storage
<1>13. CASE ScpDone(s)
  <2>1. /\ At(s, "done") /\ Ack(s) /\ Go(s, [pc |-> "type", file |-> NoFile])
        /\ UNCHANGED <<plan, wire, tree, captures, failed, executed, payloads>>
    BY <1>13 DEF ScpDone
  <2>2. /\ Steady(s) /\ Keeps(s, {"args", "from", "dirs", "left", "key", "path"})
        /\ sh'[s].pc = "type" /\ sh'[s].file = NoFile /\ Keeps(s, {"data"})
    BY <1>3, <1>4, <2>1
  <2>. QED
    BY <2>1, <2>2
<1>. QED
  BY <1>6, <1>7, <1>8, <1>9, <1>10, <1>11, <1>12, <1>13 DEF Saving

\* What a step of the other end does.
LEMMA SendingStep ==
    ASSUME Typed, Paced, NEW s \in Shells, Sending(s)
    PROVE  LET u == plan[s].upload
           IN /\ UNCHANGED <<plan, sh, tree, captures, failed, executed, payloads>>
              /\ client' \in [Shells -> [sent : Nat, acks : Nat, end : {"open", "eof", "cut"}]]
              /\ wire' \in [Shells -> Seq(Token)]
              /\ \A r \in Shells \ {s} : client'[r] = client[r] /\ wire'[r] = wire[r]
              /\ client[s].end = "open" /\ client'[s].acks = client[s].acks
              /\ \/ /\ client[s].sent < client[s].acks /\ client[s].sent < Len(u)
                    /\ client'[s].sent = client[s].sent + 1 /\ client'[s].end = "open"
                    /\ wire'[s] = wire[s] \o Part(u[client[s].sent + 1])
                 \/ /\ IF plan[s].exec THEN client[s].acks > Len(u) ELSE sh[s].queue = <<>>
                    /\ client'[s].sent = client[s].sent /\ client'[s].end = "eof"
                    /\ wire'[s] = wire[s]
                 \/ /\ client'[s].sent = client[s].sent /\ client'[s].end = "cut"
                    /\ \E n \in 0..Len(wire[s]) : wire'[s] = SubSeq(wire[s], 1, n)
<1>. DEFINE u == plan[s].upload
<1>1. /\ client \in [Shells -> [sent : Nat, acks : Nat, end : {"open", "eof", "cut"}]]
      /\ wire \in [Shells -> Seq(Token)] /\ wire[s] \in Seq(Token)
      /\ client[s] \in [sent : Nat, acks : Nat, end : {"open", "eof", "cut"}]
      /\ plan \in Plans
  BY DEF Typed
<1>2. CASE Send(s)
  <2>. DEFINE c == [client[s] EXCEPT !.sent = @ + 1]
              w == wire[s] \o Part(u[client[s].sent + 1])
  <2>1. /\ client[s].end = "open" /\ client[s].sent < client[s].acks
        /\ client[s].sent < Len(u)
        /\ client' = [client EXCEPT ![s] = c] /\ wire' = [wire EXCEPT ![s] = w]
        /\ UNCHANGED <<plan, sh, tree, captures, failed, executed, payloads>>
    BY <1>2 DEF Send
  <2>2. /\ c \in [sent : Nat, acks : Nat, end : {"open", "eof", "cut"}]
        /\ c.sent = client[s].sent + 1 /\ c.acks = client[s].acks /\ c.end = client[s].end
    <3>1. client[s] \in [sent : Nat, acks : Nat, end : {"open", "eof", "cut"}]
      BY <1>1
    <3>. QED
      BY <3>1
  <2>3. client[s].sent + 1 \in 1..Len(u)
    BY <1>1, <2>1, UploadFacts
  <2>4. Part(u[client[s].sent + 1]) \in Seq(Token)
    <3>. DEFINE q == u[client[s].sent + 1]
    <3>1. q \in Header \cup FileData
      BY <1>1, <2>3, UploadFacts
    <3>. HIDE DEF q
    <3>2. q \in FileData => Part(q) \in Seq(Token)
      BY DataPart
    <3>3. q \in Header => Part(q) \in Seq(Token)
      <4>1. q \in Header => Part(q) = <<q>> /\ q \in Token
        BY HeaderPart
      <4>2. q \in Token => <<q>> \in Seq(Token)
        OBVIOUS
      <4>. QED
        BY <4>1, <4>2
    <3>4. Part(q) \in Seq(Token)
      BY <3>1, <3>2, <3>3
    <3>. QED
      BY <3>4 DEF q
  <2>5. w \in Seq(Token)
    BY <1>1, <2>4, ConcatProperties
  <2>. HIDE DEF c
  <2>6. /\ client'[s] = c /\ wire'[s] = w
        /\ client' \in [Shells -> [sent : Nat, acks : Nat, end : {"open", "eof", "cut"}]]
        /\ wire' \in [Shells -> Seq(Token)]
        /\ \A r \in Shells \ {s} : client'[r] = client[r] /\ wire'[r] = wire[r]
    <3>. HIDE DEF w
    <3>. QED
      BY <1>1, <2>1, <2>2, <2>5
  <2>. QED
    BY <2>1, <2>2, <2>6
<1>3. CASE HangUp(s)
  <2>. DEFINE c == [client[s] EXCEPT !.end = "eof"]
  <2>1. /\ client[s].end = "open" /\ client' = [client EXCEPT ![s] = c]
        /\ IF plan[s].exec THEN client[s].acks > Len(u) ELSE sh[s].queue = <<>>
        /\ UNCHANGED <<plan, sh, wire, tree, captures, failed, executed, payloads>>
    BY <1>3 DEF HangUp
  <2>2. /\ c \in [sent : Nat, acks : Nat, end : {"open", "eof", "cut"}]
        /\ c.sent = client[s].sent /\ c.acks = client[s].acks /\ c.end = "eof"
    BY <1>1
  <2>. HIDE DEF c
  <2>. QED
    BY <1>1, <2>1, <2>2
<1>4. CASE Cut(s)
  <2>. DEFINE c == [client[s] EXCEPT !.end = "cut"]
  <2>1. PICK n \in 0..Len(wire[s]) : wire' = [wire EXCEPT ![s] = SubSeq(wire[s], 1, n)]
    BY <1>4 DEF Cut
  <2>2. /\ client[s].end = "open" /\ client' = [client EXCEPT ![s] = c]
        /\ UNCHANGED <<plan, sh, tree, captures, failed, executed, payloads>>
    BY <1>4 DEF Cut
  <2>3. /\ c \in [sent : Nat, acks : Nat, end : {"open", "eof", "cut"}]
        /\ c.sent = client[s].sent /\ c.acks = client[s].acks /\ c.end = "cut"
    BY <1>1
  <2>4. SubSeq(wire[s], 1, n) \in Seq(Token)
    BY <1>1, PrefixIsSeq
  <2>. HIDE DEF c
  <2>. QED
    BY <1>1, <2>1, <2>2, <2>3, <2>4
<1>. QED
  BY <1>2, <1>3, <1>4 DEF Sending

\* Running out of lines, and closing.
LEMMA ClosingStep ==
    ASSUME Typed, NEW s \in Shells, LinesDone(s) \/ Close(s)
    PROVE  /\ Others(s) /\ Keeps(s, ScriptFields) /\ Keeps(s, UploadFields)
           /\ Keeps(s, {"args", "file"})
           /\ UNCHANGED <<plan, client, wire, tree, captures, failed, executed>>
           /\ \/ /\ At(s, "line") /\ sh[s].lines = <<>> /\ UNCHANGED payloads
                 /\ sh'[s].pc = IF plan[s].exec THEN "close" ELSE "read"
              \/ /\ At(s, "close") /\ sh'[s].pc \in {"ended", "panicked"}
                 /\ payloads' \subseteq payloads \cup {sh[s].history}
<1>. sh \in [Shells -> ShellState]
  BY DEF Typed
<1>1. ASSUME NEW p \in {"close", "read", "ended", "panicked"}, Go(s, [pc |-> p])
      PROVE  /\ Others(s) /\ sh'[s].pc = p /\ Keeps(s, ScriptFields)
             /\ Keeps(s, UploadFields) /\ Keeps(s, {"args", "file"})
  <2>1. p \in Locations
    BY DEF Locations
  <2>. QED
    BY <1>1, <2>1, PcStep
<1>2. CASE LinesDone(s)
  <2>. DEFINE p == IF plan[s].exec THEN "close" ELSE "read"
  <2>1. /\ At(s, "line") /\ sh[s].lines = <<>> /\ Go(s, [pc |-> p])
        /\ UNCHANGED <<plan, client, wire, tree, captures, failed, executed, payloads>>
    BY <1>2 DEF LinesDone
  <2>2. p \in {"close", "read", "ended", "panicked"}
    OBVIOUS
  <2>. HIDE DEF p
  <2>3. /\ Others(s) /\ sh'[s].pc = p /\ Keeps(s, ScriptFields)
        /\ Keeps(s, UploadFields) /\ Keeps(s, {"args", "file"})
    BY <1>1, <2>1, <2>2
  <2>. QED
    BY <2>1, <2>3 DEF p
<1>3. CASE Close(s)
  <2>1. /\ At(s, "close") /\ payloads' \subseteq payloads \cup {sh[s].history}
        /\ Go(s, [pc |-> "ended"]) \/ Go(s, [pc |-> "panicked"])
        /\ UNCHANGED <<plan, client, wire, tree, captures, failed, executed>>
    BY <1>3 DEF Close, Panic
  <2>2. /\ Others(s) /\ sh'[s].pc \in {"ended", "panicked"} /\ Keeps(s, ScriptFields)
        /\ Keeps(s, UploadFields) /\ Keeps(s, {"args", "file"})
    BY <1>1, <2>1
  <2>. QED
    BY <2>1, <2>2
<1>. QED
  BY <1>2, <1>3

\* A line that is about to be run, in the script; a sink is the first one.
LEMMA NextLine ==
    ASSUME Typed, Scripted, NEW s \in Shells, sh[s].lines # <<>>
    PROVE  LET l == Head(sh[s].lines)
               h == sh[s].history
           IN /\ Len(h) + 1 \in DOMAIN Script(s) /\ Script(s)[Len(h) + 1] = l
              /\ \A i \in DOMAIN h : i \in DOMAIN Script(s) /\ Script(s)[i] = h[i]
              /\ IsSink(l) => /\ l.args # <<>> /\ l.args[1].from \in {"root", "cwd"}
                              /\ \A i \in DOMAIN h : ~ IsSink(h[i])
                              /\ client[s].acks = 0
<1>. DEFINE h == sh[s].history
            m == sh[s].lines
            q == FlattenSeq(sh[s].queue)
            l == Head(m)
<1>1. /\ h \in Seq(Lines) /\ m \in Seq(Lines) /\ m # <<>>
      /\ sh[s].queue \in Seq(Seq(Lines)) /\ plan \in Plans
  BY DEF Typed, ShellState
<1>2. q \in Seq(Lines)
  BY <1>1, FlattenType
<1>3. Script(s) = (h \o m) \o q
  BY DEF Scripted, OnScript
<1>4. client[s].acks > 0 => \E i \in DOMAIN h : IsSink(h[i])
  BY DEF Scripted, OnScript
<1>5. client[s].acks \in Nat
  BY DEF Typed
<1>. HIDE DEF h, m, q
<1>6. /\ h \o m \in Seq(Lines) /\ Len(h \o m) = Len(h) + Len(m)
      /\ \A i \in 1..(Len(h) + Len(m)) : (h \o m)[i] = IF i <= Len(h) THEN h[i] ELSE m[i - Len(h)]
  BY <1>1, ConcatProperties
<1>7. /\ Script(s) \in Seq(Lines) /\ Len(Script(s)) = Len(h \o m) + Len(q)
      /\ \A i \in 1..(Len(h \o m) + Len(q)) :
            Script(s)[i] = IF i <= Len(h \o m) THEN (h \o m)[i] ELSE q[i - Len(h \o m)]
  BY <1>2, <1>3, <1>6, ConcatProperties
<1>8. /\ Len(h) \in Nat /\ Len(m) \in Nat \ {0} /\ Len(q) \in Nat /\ m[1] = l
      /\ DOMAIN h = 1..Len(h) /\ DOMAIN Script(s) = 1..Len(Script(s))
  BY <1>1, <1>2, <1>7, EmptySeq, LenProperties
<1>9. Len(h) + 1 \in DOMAIN Script(s) /\ Script(s)[Len(h) + 1] = l
  <2>1. Len(h) + 1 \in 1..(Len(h) + Len(m))
    BY <1>8
  <2>2. (h \o m)[Len(h) + 1] = m[1]
    BY <1>6, <1>8, <2>1
  <2>3. Len(h) + 1 \in 1..(Len(h \o m) + Len(q)) /\ Len(h) + 1 <= Len(h \o m)
    BY <1>6, <1>8, <2>1
  <2>. QED
    BY <1>7, <1>8, <2>2, <2>3
<1>10. ASSUME NEW i \in DOMAIN h
       PROVE  i \in DOMAIN Script(s) /\ Script(s)[i] = h[i] /\ i # Len(h) + 1
  <2>1. i \in 1..(Len(h) + Len(m)) /\ i <= Len(h)
    BY <1>8
  <2>2. (h \o m)[i] = h[i]
    BY <1>6, <2>1
  <2>3. i \in 1..(Len(h \o m) + Len(q)) /\ i <= Len(h \o m)
    BY <1>6, <1>8, <2>1
  <2>. QED
    BY <1>7, <1>8, <2>1, <2>2, <2>3
<1>. HIDE DEF l
<1>11. IsSink(l) => \A i \in DOMAIN h : ~ IsSink(h[i])
  BY <1>1, <1>9, <1>10, PlanFacts
<1>12. IsSink(l) => l.args # <<>> /\ l.args[1].from \in {"root", "cwd"}
  BY <1>1, <1>9, PlanFacts
<1>13. IsSink(l) => client[s].acks = 0
  BY <1>4, <1>5, <1>11 DEF h
<1>. QED
  BY <1>9, <1>10, <1>11, <1>12, <1>13 DEF h, l, m

\* The steps of Next, by what is known of each.
LEMMA StepKinds ==
    ASSUME Typed, Scripted, Grown, NEW s \in Shells, Shell(s) \/ Sending(s)
    PROVE  \/ ReadLine(s)
           \/ LinesDone(s) \/ Close(s)
           \/ Running(s) /\ LineRun(s)
           \/ Filing(s) \/ Receiving(s) \/ Saving(s) \/ Sending(s)
<1>1. CASE Running(s)
  <2>1. At(s, "line") /\ sh[s].lines # <<>>
    BY <1>1 DEF Running, Exec, CmdCd, CmdLs, CmdRm, CmdOpen, CmdScp, Runs
  <2>2. IsSink(Head(sh[s].lines)) =>
           /\ Head(sh[s].lines).args # <<>>
           /\ Head(sh[s].lines).args[1].from \in {"root", "cwd"}
    BY <2>1, NextLine
  <2>. QED
    BY <1>1, <2>2, RunningStep DEF Typed, Grown
<1>2. CASE ~ Running(s)
  BY <1>2 DEF Shell, Running, Filing, Receiving, Saving, Sending
<1>. QED
  BY <1>1, <1>2

\* Other shells only lose the name of a file.
LEMMA StepFrame ==
    ASSUME Typed, Scripted, Paced, InStepAwaiting, Grown,
           NEW s \in Shells, Shell(s) \/ Sending(s)
    PROVE  /\ sh' \in [Shells -> ShellState] /\ UNCHANGED plan
           /\ client' \in [Shells -> [sent : Nat, acks : Nat, end : {"open", "eof", "cut"}]]
           /\ wire' \in [Shells -> Seq(Token)]
           /\ \A r \in Shells \ {s} :
                 /\ Keeps(r, ScriptFields \cup UploadFields \cup {"pc", "args"})
                 /\ client'[r] = client[r] /\ wire'[r] = wire[r]
           /\ payloads' \subseteq payloads \cup {sh[s].history}
<1>. /\ sh \in [Shells -> ShellState]
     /\ client \in [Shells -> [sent : Nat, acks : Nat, end : {"open", "eof", "cut"}]]
     /\ wire \in [Shells -> Seq(Token)]
  BY DEF Typed
<1>1. ASSUME Others(s)
      PROVE  \A r \in Shells \ {s} : Keeps(r, ScriptFields \cup UploadFields \cup {"pc", "args"})
  BY <1>1 DEF Others, Keeps
<1>2. CASE ReadLine(s)
  <2>1. Others(s) /\ UNCHANGED <<plan, client, wire, payloads>>
    BY <1>2, ReadStep
  <2>. QED
    BY <1>1, <2>1 DEF Others
<1>3. CASE LinesDone(s) \/ Close(s)
  <2>1. Others(s) /\ UNCHANGED <<plan, client, wire>> /\ payloads' \subseteq payloads \cup {sh[s].history}
    BY <1>3, ClosingStep
  <2>. QED
    BY <1>1, <2>1 DEF Others
<1>4. CASE LineRun(s)
  <2>1. /\ Others(s) /\ UNCHANGED <<plan, wire, payloads>>
    BY <1>4 DEF LineRun, Others
  <2>2. Ack(s) \/ UNCHANGED client
    BY <1>4 DEF LineRun
  <2>3. /\ client' \in [Shells -> [sent : Nat, acks : Nat, end : {"open", "eof", "cut"}]]
        /\ \A r \in Shells \ {s} : client'[r] = client[r]
    BY <2>2, AckStep
  <2>. QED
    BY <1>1, <2>1, <2>3 DEF Others
<1>5. ASSUME Steady(s)
      PROVE  /\ sh' \in [Shells -> ShellState] /\ UNCHANGED <<plan, payloads>>
             /\ \A r \in Shells \ {s} :
                   Keeps(r, ScriptFields \cup UploadFields \cup {"pc", "args"})
  BY <1>5 DEF Steady, Keeps
<1>6. CASE Filing(s)
  <2>1. Steady(s) /\ UNCHANGED <<client, wire>>
    BY <1>6, FilingStep
  <2>. QED
    BY <1>5, <2>1
<1>7. CASE Receiving(s)
  <2>1. /\ Steady(s) /\ wire' \in [Shells -> Seq(Token)]
        /\ \A r \in Shells \ {s} : wire'[r] = wire[r]
        /\ Ack(s) \/ UNCHANGED client
    BY <1>7, ReceivingStep
  <2>2. /\ client' \in [Shells -> [sent : Nat, acks : Nat, end : {"open", "eof", "cut"}]]
        /\ \A r \in Shells \ {s} : client'[r] = client[r]
    BY <2>1, AckStep
  <2>. QED
    BY <1>5, <2>1, <2>2
<1>8. CASE Saving(s)
  <2>1. /\ Steady(s) /\ wire' \in [Shells -> Seq(Token)]
        /\ \A r \in Shells \ {s} : wire'[r] = wire[r]
        /\ Ack(s) \/ UNCHANGED client
    BY <1>8, SavingStep
  <2>2. /\ client' \in [Shells -> [sent : Nat, acks : Nat, end : {"open", "eof", "cut"}]]
        /\ \A r \in Shells \ {s} : client'[r] = client[r]
    BY <2>1, AckStep
  <2>. QED
    BY <1>5, <2>1, <2>2
<1>9. CASE Sending(s)
  <2>1. /\ UNCHANGED <<plan, sh, payloads>>
        /\ client' \in [Shells -> [sent : Nat, acks : Nat, end : {"open", "eof", "cut"}]]
        /\ wire' \in [Shells -> Seq(Token)]
        /\ \A r \in Shells \ {s} : client'[r] = client[r] /\ wire'[r] = wire[r]
    BY <1>9, SendingStep
  <2>. QED
    BY <2>1 DEF Keeps
<1>. QED
  BY <1>2, <1>3, <1>4, <1>6, <1>7, <1>8, <1>9, StepKinds

\* What the disk has failed to keep stays so; it fails under the file in hand.
LEMMA FailedStep ==
    ASSUME NEW s \in Shells, Shell(s) \/ Sending(s)
    PROVE  /\ failed \subseteq failed'
           /\ failed' = failed \/ (plan \in DiskFails /\ failed' = failed \cup {sh[s].key})
<1>1. UNCHANGED failed \/ Fail(s)
  BY DEF Shell, Sending, Send, HangUp, Cut, ReadLine, LinesDone, Exec, Close, CmdCd,
         CmdLs, CmdRm, RmTest, RmUnlink, CmdOpen, Open, CmdScp, ScpEnd, ScpFile,
         ScpDir, ScpLeave, ScpOther, ScpMkdir, ScpOpen, ScpData, ScpWrite, ScpCheck,
         ScpCapture, ScpSave, ScpDone, Runs, Message
<1>. QED
  BY <1>1 DEF Fail

-----------------------------------------------------------------------------
(* The steps keep the inductive invariant, part by part                    *)

\* Typed.
LEMMA TypedStep ==
    ASSUME Typed, Scripted, Paced, InStepAwaiting, Grown,
           NEW s \in Shells, Shell(s) \/ Sending(s)
    PROVE  Typed'
<1>1. sh[s].history \in Seq(Lines) /\ sh[s].key \in Paths
  BY DEF Typed, ShellState
<1>2. failed' \subseteq Paths /\ (failed' # {} => plan' \in DiskFails)
  BY <1>1, FailedStep, StepFrame DEF Typed
<1>. QED
  BY <1>1, <1>2, StepFrame DEF Typed

\* Where a steady step goes; there has been an acknowledgement before one.
LEMMA SteadyMoves ==
    ASSUME Typed, Scripted, Paced, InStep, Grown, NEW s \in Shells,
           Filing(s) \/ Receiving(s) \/ Saving(s)
    PROVE  /\ Steady(s)
           /\ sh'[s].pc \notin {"read", "close", "ended"}
           /\ sh[s].pc \in {"rm", "unlink", "touch", "cat", "type"} \cup Awaiting \cup Storing
           /\ client'[s].acks > 0 => client[s].acks > 0
           /\ client'[s].end = client[s].end /\ client'[s].sent = client[s].sent
<1>1. client[s].acks \in Nat
  BY DEF Typed
<1>2. Ack(s) => client'[s].end = client[s].end /\ client'[s].sent = client[s].sent
  BY AckStep
<1>3. CASE Filing(s)
  BY <1>3, FilingStep
<1>4. CASE Receiving(s)
  <2>1. /\ Steady(s) /\ At(s, "type")
        /\ Ack(s) \/ UNCHANGED client
        /\ sh'[s].pc \in {"line", "panicked", "mkdir"} \/ sh'[s].pc = sh[s].pc
    BY <1>4, ReceivingStep
       DEF Ending, Leftover, Failing, Entering, Leaving, Naming, Passing, Keeps
  <2>2. client[s].acks >= 1
    BY <2>1 DEF InStep, InStepAtType, BetweenFiles
  <2>. QED
    BY <1>1, <1>2, <2>1, <2>2 DEF At
<1>5. CASE Saving(s)
  <2>1. /\ Steady(s)
        /\ UNCHANGED client \/ (At(s, "done") /\ Ack(s))
        /\ sh[s].pc \in Awaiting \cup Storing
    BY <1>5, SavingStep
       DEF InStep, Saving, ScpMkdir, ScpOpen, ScpData, ScpWrite, ScpCheck, ScpCapture,
           ScpSave, ScpDone, At, Awaiting, Storing
  <2>2. sh'[s].pc \in {"line", "type"} \cup Awaiting \cup Storing
    <3>1. CASE Storage(s)
      BY <3>1 DEF Storage, Making, Opening, Writing, Checking, Creating, Copying,
                  Awaiting, Storing
    <3>2. CASE ScpData(s)
      <4>1. sh'[s].pc \in {"line", "write"}
        BY <3>2, DataStep DEF InStep
      <4>. QED
        BY <4>1 DEF Storing
    <3>. QED
      BY <1>5, <3>1, <3>2, SavingStep DEF InStep
  <2>3. At(s, "done") => client[s].acks > 0
    <3>1. At(s, "done") => client[s].acks - 1 \in 1..Len(plan[s].upload)
      BY DEF InStep, InStepStoring, Holding, OnHeader, Storing, At
    <3>. QED
      BY <1>1, <3>1, UploadFacts DEF Typed
  <2>. QED
    BY <1>2, <2>1, <2>2, <2>3 DEF Awaiting, Storing
<1>. QED
  BY <1>3, <1>4, <1>5

\* The script is what was run, the rest of the lines, and the inputs to come.
LEMMA ScriptedStep ==
    ASSUME Typed, Scripted, Paced, InStep, Grown,
           NEW s \in Shells, Shell(s) \/ Sending(s)
    PROVE  Scripted'
<1>1. \A r \in Shells : OnScript(r)
  BY DEF Scripted
<1>2. /\ UNCHANGED plan /\ \A r \in Shells : Script(r)' = Script(r)
      /\ \A r \in Shells \ {s} :
            /\ Keeps(r, ScriptFields \cup UploadFields \cup {"pc", "args"})
            /\ client'[r] = client[r]
  BY StepFrame DEF InStep, Script
<1>3. ASSUME NEW r \in Shells \ {s} PROVE OnScript(r)'
  <2>1. /\ sh'[r].history = sh[r].history /\ sh'[r].lines = sh[r].lines
        /\ sh'[r].queue = sh[r].queue /\ sh'[r].pc = sh[r].pc
        /\ sh'[r].target = sh[r].target /\ client'[r] = client[r]
    BY <1>2 DEF Keeps, ScriptFields
  <2>. QED
    BY <1>1, <1>2, <2>1 DEF At, OnScript
<1>4. /\ sh[s].history \in Seq(Lines) /\ sh[s].lines \in Seq(Lines)
      /\ sh[s].queue \in Seq(Seq(Lines)) /\ client[s].acks \in Nat
  BY DEF Typed, ShellState
<1>. SUFFICES OnScript(s)'
  BY <1>3 DEF Scripted
<1>5. ASSUME Keeps(s, ScriptFields),
             At(s, "read")' => At(s, "read") \/ (sh[s].lines = <<>> /\ ~ plan[s].exec),
             client'[s].acks > 0 => client[s].acks > 0
      PROVE  OnScript(s)'
  <2>1. /\ sh'[s].history = sh[s].history /\ sh'[s].lines = sh[s].lines
        /\ sh'[s].queue = sh[s].queue /\ sh'[s].target = sh[s].target
    BY <1>5 DEF Keeps, ScriptFields
  <2>. QED
    BY <1>1, <1>2, <1>5, <2>1 DEF At, OnScript
<1>6. CASE ReadLine(s)
  <2>1. /\ At(s, "read") /\ client' = client
        /\ sh'[s].history = sh[s].history /\ sh'[s].target = sh[s].target
    BY <1>6, ReadStep DEF Typed, Keeps
  <2>2. sh[s].lines = <<>> /\ ~ plan[s].exec
    BY <2>1 DEF Scripted, OnScript
  <2>3. CASE /\ sh[s].queue # <<>> /\ sh'[s].pc = "line"
             /\ sh'[s].lines = Head(sh[s].queue) /\ sh'[s].queue = Tail(sh[s].queue)
    <3>. DEFINE h == sh[s].history
                a == Head(sh[s].queue)
                b == FlattenSeq(Tail(sh[s].queue))
    <3>1. a \in Seq(Lines) /\ Tail(sh[s].queue) \in Seq(Seq(Lines))
      BY <1>4, <2>3, HeadTailProperties
    <3>2. b \in Seq(Lines)
      BY <3>1, FlattenType
    <3>3. FlattenSeq(sh[s].queue) = a \o b
      BY <1>4, <2>3, FlattenCons
    <3>4. (h \o <<>>) \o FlattenSeq(sh[s].queue) = Script(s)
      BY <1>1, <2>2 DEF OnScript
    <3>. HIDE DEF a, b
    <3>5. (h \o a) \o b = Script(s)
      <4>. HIDE DEF h
      <4>1. h \in Seq(Lines)
        BY <1>4 DEF h
      <4>2. h \o <<>> = h
        BY <4>1, ConcatEmptySeq
      <4>3. a \in Seq(Lines)
        BY <3>1
      <4>4. (h \o a) \o b = h \o (a \o b)
        BY ONLY <3>2, <4>1, <4>3, JoinOfThree
      <4>. QED
        BY <3>3, <3>4, <4>2, <4>4
    <3>6. sh'[s].history = h /\ sh'[s].lines = a /\ FlattenSeq(sh'[s].queue) = b
      BY <2>1, <2>3 DEF a, b
    <3>7. (sh[s].history \o sh[s].lines)' \o FlattenSeq(sh[s].queue)' = Script(s)'
      BY <1>2, <3>5, <3>6
    <3>. QED
      BY <1>1, <1>2, <2>1, <2>2, <2>3, <3>7 DEF At, OnScript
  <2>4. CASE sh'[s].lines = sh[s].lines /\ sh'[s].queue = sh[s].queue
    BY <1>1, <1>2, <2>1, <2>2, <2>4 DEF At, OnScript
  <2>. QED
    BY <1>6, <2>3, <2>4, ReadStep DEF Typed
<1>7. CASE LinesDone(s) \/ Close(s)
  <2>1. /\ Keeps(s, ScriptFields) /\ UNCHANGED client
        /\ sh'[s].pc = "read" => sh[s].lines = <<>> /\ ~ plan[s].exec
    BY <1>7, ClosingStep
  <2>. QED
    BY <1>5, <2>1 DEF At
<1>8. CASE LineRun(s)
  <2>. DEFINE l == Head(sh[s].lines)
              t == Tail(sh[s].lines)
              h == sh[s].history
              q == FlattenSeq(sh[s].queue)
  <2>1. /\ sh[s].lines # <<>> /\ sh'[s].history = Append(h, l) /\ sh'[s].lines = t
        /\ sh'[s].queue = sh[s].queue /\ sh'[s].pc # "read"
    BY <1>8 DEF LineRun
  <2>2. l \in Lines /\ t \in Seq(Lines)
    BY <1>4, <2>1, HeadTailProperties
  <2>3. Append(h, l) \o t = h \o sh[s].lines
    <3>1. sh[s].lines = <<l>> \o t
      BY <1>4, <2>1
    <3>. HIDE DEF l, t, h
    <3>2. h \in Seq(Lines)
      BY <1>4 DEF h
    <3>3. <<l>> \in Seq(Lines) /\ Append(h, l) = h \o <<l>>
      BY <2>2, <3>2
    <3>. QED
      BY <2>2, <3>1, <3>2, <3>3, JoinOfThree
  <2>4. (sh[s].history \o sh[s].lines)' \o FlattenSeq(sh[s].queue)' = Script(s)'
    BY <1>1, <1>2, <2>1, <2>3 DEF OnScript
  <2>5. sh'[s].target.from \in {"root", "cwd"}
    <3>1. CASE sh'[s].pc = "type"
      <4>1. IsSink(l) /\ sh'[s].target = l.args[1]
        BY <1>8, <3>1 DEF LineRun
      <4>. QED
        BY <2>1, <4>1, NextLine
    <3>2. CASE sh'[s].pc # "type"
      <4>1. sh'[s].target = sh[s].target
        BY <1>8, <3>2 DEF LineRun
      <4>. QED
        BY <1>1, <4>1 DEF OnScript
    <3>. QED
      BY <3>1, <3>2
  <2>6. /\ DOMAIN h \subseteq DOMAIN Append(h, l) /\ \A i \in DOMAIN h : Append(h, l)[i] = h[i]
        /\ Len(h) + 1 \in DOMAIN Append(h, l) /\ Append(h, l)[Len(h) + 1] = l
    <3>. HIDE DEF l, t, h
    <3>1. h \in Seq(Lines) /\ Len(h) \in Nat /\ DOMAIN h = 1..Len(h)
      BY <1>4 DEF h
    <3>. QED
      BY <2>2, <3>1, AppendProperties, LenProperties
  <2>7. client'[s].acks > 0 => \E i \in DOMAIN sh'[s].history : IsSink(sh'[s].history[i])
    <3>1. CASE sh'[s].pc = "type"
      <4>1. IsSink(l)
        BY <1>8, <3>1 DEF LineRun
      <4>. HIDE DEF l, h
      <4>. QED
        BY <2>1, <2>6, <4>1
    <3>2. CASE sh'[s].pc # "type"
      <4>1. UNCHANGED client
        BY <1>8, <3>2 DEF LineRun
      <4>2. client[s].acks > 0 => \E i \in DOMAIN h : IsSink(h[i])
        BY <1>1 DEF OnScript
      <4>. HIDE DEF l, h
      <4>. QED
        BY <2>1, <2>6, <4>1, <4>2
    <3>. QED
      BY <3>1, <3>2
  <2>. HIDE DEF l, t, h, q
  <2>. QED
    BY <1>1, <1>2, <2>1, <2>4, <2>5, <2>7 DEF At, OnScript
<1>9. CASE Filing(s) \/ Receiving(s) \/ Saving(s)
  <2>1. /\ Keeps(s, ScriptFields) /\ sh'[s].pc # "read"
        /\ client'[s].acks > 0 => client[s].acks > 0
    BY <1>9, SteadyMoves DEF Steady
  <2>. QED
    BY <1>5, <2>1 DEF At
<1>10. CASE Sending(s)
  <2>1. UNCHANGED sh /\ client'[s].acks = client[s].acks
    BY <1>10, SendingStep
  <2>. QED
    BY <1>5, <2>1 DEF Keeps, At
<1>. QED
  BY <1>6, <1>7, <1>8, <1>9, <1>10, StepKinds

\* What cmdScp finds when it reads a message: a zero byte, or the header that
\* the client has sent last.
LEMMA NextMessage ==
    ASSUME Typed, Paced, InStepAtType, NEW s \in Shells, At(s, "type"), wire[s] # <<>>
    PROVE  LET c == client[s]
               u == plan[s].upload
               w == wire[s]
           IN \/ /\ Head(w) = Nul
                 /\ \/ c.sent = c.acks - 1 /\ Tail(w) = <<>>
                    \/ c.sent = c.acks /\ Tail(w) = <<u[c.acks]>>
                    \/ c.sent = c.acks /\ c.end = "cut" /\ Tail(w) = <<>>
              \/ /\ Head(w) = u[c.acks] /\ Tail(w) = <<>> /\ u[c.acks] \in Header
                 /\ c.sent = c.acks /\ c.acks \in 1..Len(u)
<1>. DEFINE c == client[s]
            u == plan[s].upload
            w == wire[s]
            h == u[c.acks]
<1>1. /\ c.sent \in Nat /\ c.acks \in Nat /\ plan \in Plans
  BY DEF Typed
<1>2. c.sent <= Len(u)
  BY DEF Paced, Waits
<1>3. /\ c.acks >= 1 /\ (c.acks > 1 => u[c.acks - 1].t # "C")
      /\ \/ c.sent = c.acks - 1 /\ w = <<Nul>>
         \/ c.sent = c.acks /\ (w = <<h>> \/ w = <<Nul, h>>)
         \/ c.sent = c.acks /\ c.end = "cut" /\ w = <<Nul>>
  BY DEF InStepAtType, BetweenFiles
<1>4. Len(u) \in Nat
  BY <1>1, UploadFacts
<1>. HIDE DEF w
<1>5. CASE w = <<Nul>>
  <2>1. Head(w) = Nul /\ Tail(w) = <<>>
    BY <1>5
  <2>. HIDE DEF c, u, h
  <2>2. c.sent = c.acks - 1 \/ (c.sent = c.acks /\ c.end = "cut") \/ (c.sent = c.acks /\ w = <<h>>)
    BY <1>3, <1>5
  <2>3. ASSUME c.sent = c.acks, w = <<h>> PROVE h = Nul
    BY <1>5, <2>3
  <2>4. ASSUME c.sent = c.acks PROVE h # Nul
    <3>1. c.acks \in 1..Len(u)
      BY <1>1, <1>2, <1>3, <1>4, <2>4
    <3>2. h \in Header \cup FileData
      BY <1>1, <3>1, UploadFacts DEF h, c, u
    <3>. QED
      BY <3>2 DEF Header, FileHeader, FileData, Nul
  <2>. QED
    BY <2>1, <2>2, <2>3, <2>4 DEF c, u, w, h
<1>6. CASE w = <<Nul, h>> /\ c.sent = c.acks
  <2>. HIDE DEF c, u, h
  <2>1. Head(w) = Nul /\ Tail(w) = <<h>>
    BY <1>6
  <2>. QED
    BY <1>6, <2>1 DEF c, u, w, h
<1>7. CASE w = <<h>> /\ c.sent = c.acks
  <2>. HIDE DEF h
  <2>1. Head(w) = h /\ Tail(w) = <<>>
    BY <1>7
  <2>2. c.acks \in 1..Len(u)
    BY <1>1, <1>2, <1>3, <1>4, <1>7
  <2>3. h.t # "data"
    <3>1. h.t = "data" => c.acks > 1 /\ u[c.acks - 1].t = "C"
      BY <1>1, <2>2, UploadFacts DEF h
    <3>. QED
      BY <1>3, <3>1
  <2>4. h \in Header
    BY <1>1, <2>2, <2>3, UploadFacts DEF h
  <2>. QED
    BY <1>7, <2>1, <2>2, <2>4 DEF c, u, w, h
<1>. QED
  BY <1>3, <1>5, <1>6, <1>7

\* An acknowledgement that is given for a message.
LEMMA MessageAck ==
    ASSUME Typed, Scripted, Paced, InStepAtType, NEW s \in Shells, Receiving(s),
           client' # client
    PROVE  LET c == client[s]
               h == plan[s].upload[c.acks]
           IN /\ c.sent = c.acks /\ c.acks \in 1..Len(plan[s].upload) /\ h \in Header
              /\ wire[s] # <<>> /\ Head(wire[s]) = h /\ wire'[s] = <<>> /\ Ack(s)
              /\ Entering(s, h) \/ Leaving(s, h) \/ Naming(s, h) \/ Passing(s, h)
<1>. DEFINE h == Head(wire[s])
<1>1. /\ At(s, "type") /\ wire[s] # <<>> /\ wire'[s] = Tail(wire[s]) /\ Ack(s)
      /\ Entering(s, h) \/ Leaving(s, h) \/ Naming(s, h) \/ Passing(s, h)
  BY ReceivingStep
<1>. HIDE DEF h
<1>2. h.t \in {"C", "D", "E", "T"}
  BY <1>1 DEF Entering, Leaving, Naming, Passing
<1>3. h # Nul
  BY <1>2 DEF Nul
<1>. QED
  BY <1>1, <1>3, NextMessage DEF h

\* A client waits, and gets no more acknowledgements than it needs.
LEMMA PacedStep ==
    ASSUME Typed, Scripted, Paced, InStep, Grown,
           NEW s \in Shells, Shell(s) \/ Sending(s)
    PROVE  Paced'
<1>. DEFINE c == client[s]
            u == plan[s].upload
<1>1. /\ UNCHANGED plan
      /\ \A r \in Shells \ {s} :
            /\ Keeps(r, ScriptFields \cup UploadFields \cup {"pc", "args"})
            /\ client'[r] = client[r] /\ wire'[r] = wire[r]
  BY StepFrame DEF InStep
<1>2. ASSUME NEW r \in Shells \ {s} PROVE Waits(r)'
  <2>1. sh'[r].queue = sh[r].queue /\ client'[r] = client[r] /\ wire'[r] = wire[r]
    BY <1>1 DEF Keeps, ScriptFields
  <2>. QED
    BY <1>1, <2>1 DEF Paced, Waits
<1>. SUFFICES Waits(s)'
  BY <1>2 DEF Paced
<1>3. /\ c.sent \in Nat /\ c.acks \in Nat /\ c.end \in {"open", "eof", "cut"}
      /\ wire[s] \in Seq(Token) /\ plan \in Plans
  BY DEF Typed
<1>4. Len(u) \in Nat
  BY <1>3, UploadFacts
<1>5. /\ c.sent <= c.acks /\ c.sent <= Len(u) /\ c.acks <= Len(u) + 1
      /\ c.acks <= c.sent + 2
      /\ c.acks = 0 => wire[s] = <<>>
      /\ c.end = "eof" => IF plan[s].exec THEN c.acks = Len(u) + 1 ELSE sh[s].queue = <<>>
  BY DEF Paced, Waits
<1>6. ASSUME UNCHANGED <<client, wire>>, sh'[s].queue = sh[s].queue \/ c.end = "open"
      PROVE  Waits(s)'
  BY <1>1, <1>5, <1>6 DEF Waits
<1>7. ASSUME Ack(s), c.acks <= Len(u), c.acks <= c.sent + 1, sh'[s].queue = sh[s].queue
      PROVE  Waits(s)'
  <2>1. client'[s].acks = c.acks + 1 /\ client'[s].sent = c.sent /\ client'[s].end = c.end
    BY <1>7, AckStep
  <2>. HIDE DEF c, u
  <2>2. /\ c.sent <= c.acks + 1 /\ c.acks + 1 <= Len(u) + 1 /\ c.acks + 1 # 0
        /\ c.acks + 1 <= c.sent + 2
        /\ c.end = "eof" => ~ plan[s].exec /\ sh[s].queue = <<>>
    BY <1>3, <1>4, <1>5, <1>7
  <2>. QED
    BY <1>1, <1>5, <1>7, <2>1, <2>2 DEF Waits, c, u
<1>8. CASE ReadLine(s)
  <2>1. /\ UNCHANGED <<client, wire>>
        /\ sh'[s].queue = sh[s].queue \/ c.end = "open"
    BY <1>8, ReadStep DEF Typed
  <2>. QED
    BY <1>6, <2>1
<1>9. CASE LinesDone(s) \/ Close(s)
  <2>1. UNCHANGED <<client, wire>> /\ sh'[s].queue = sh[s].queue
    BY <1>9, ClosingStep DEF Keeps, ScriptFields
  <2>. QED
    BY <1>6, <2>1
<1>10. CASE LineRun(s)
  <2>1. sh'[s].queue = sh[s].queue /\ UNCHANGED wire /\ sh[s].lines # <<>>
    BY <1>10 DEF LineRun
  <2>2. CASE sh'[s].pc = "type"
    <3>1. IsSink(Head(sh[s].lines)) /\ Ack(s)
      BY <1>10, <2>2 DEF LineRun
    <3>2. c.acks = 0
      BY <2>1, <3>1, NextLine
    <3>. QED
      BY <1>3, <1>4, <1>7, <2>1, <3>1, <3>2
  <2>3. CASE sh'[s].pc # "type"
    <3>1. UNCHANGED client
      BY <1>10, <2>3 DEF LineRun
    <3>. QED
      BY <1>6, <2>1, <3>1
  <2>. QED
    BY <2>2, <2>3
<1>11. CASE Filing(s)
  <2>1. UNCHANGED <<client, wire>> /\ sh'[s].queue = sh[s].queue
    BY <1>11, FilingStep DEF Steady, Keeps, ScriptFields
  <2>. QED
    BY <1>6, <2>1
<1>12. CASE Receiving(s)
  <2>1. At(s, "type") /\ sh'[s].queue = sh[s].queue /\ (Ack(s) \/ UNCHANGED client)
    BY <1>12, ReceivingStep DEF Steady, Keeps, ScriptFields
  <2>2. CASE client' # client
    <3>1. c.sent = c.acks /\ c.acks \in 1..Len(u)
      BY <1>12, <2>2, MessageAck DEF InStep
    <3>2. c.acks <= Len(u) /\ c.acks <= c.sent + 1
      BY <1>3, <1>4, <3>1
    <3>. QED
      BY <1>7, <2>1, <2>2, <3>2
  <2>3. CASE UNCHANGED client
    <3>1. c.acks >= 1
      BY <2>1 DEF InStep, InStepAtType, BetweenFiles
    <3>. QED
      BY <1>1, <1>3, <1>5, <2>1, <2>3, <3>1 DEF Waits
  <2>. QED
    BY <2>2, <2>3
<1>13. CASE Saving(s)
  <2>1. sh'[s].queue = sh[s].queue
    BY <1>13, SavingStep DEF InStep, Steady, Keeps, ScriptFields
  <2>2. CASE Storage(s) /\ UNCHANGED <<client, wire>>
    BY <1>6, <2>1, <2>2
  <2>3. CASE ScpData(s) /\ UNCHANGED client
    <3>1. OnHeader(s)
      BY <2>3, DataStep DEF InStep
    <3>2. c.acks \in 1..Len(u)
      BY <3>1, HeaderFacts
    <3>. QED
      BY <1>1, <1>4, <1>5, <2>1, <2>3, <3>2 DEF Waits
  <2>4. CASE At(s, "done") /\ Ack(s)
    <3>1. OnHeader(s)
      BY <2>4 DEF InStep, InStepStoring, Holding, Storing, At
    <3>2. c.acks \in 1..Len(u)
      BY <3>1, HeaderFacts
    <3>3. c.sent = c.acks - 1 \/ c.sent = c.acks
      BY <2>4 DEF InStep, InStepStoring, Holding, Storing, At
    <3>4. c.acks <= Len(u) /\ c.acks <= c.sent + 1
      BY <1>3, <1>4, <3>2, <3>3
    <3>. QED
      BY <1>7, <2>1, <2>4, <3>4
  <2>. QED
    BY <1>13, <2>2, <2>3, <2>4, SavingStep DEF InStep
<1>14. CASE Sending(s)
  <2>1. /\ UNCHANGED <<plan, sh>> /\ c.end = "open" /\ client'[s].acks = c.acks
        /\ \/ /\ c.sent < c.acks /\ c.sent < Len(u)
              /\ client'[s].sent = c.sent + 1 /\ client'[s].end = "open"
           \/ /\ IF plan[s].exec THEN c.acks > Len(u) ELSE sh[s].queue = <<>>
              /\ client'[s].sent = c.sent /\ client'[s].end = "eof"
              /\ wire'[s] = wire[s]
           \/ /\ client'[s].sent = c.sent /\ client'[s].end = "cut"
              /\ \E n \in 0..Len(wire[s]) : wire'[s] = SubSeq(wire[s], 1, n)
    BY <1>14, SendingStep
  <2>2. c.acks = 0 /\ c.sent < c.acks => FALSE
    BY <1>3
  <2>3. ASSUME wire[s] = <<>>, \E n \in 0..Len(wire[s]) : wire'[s] = SubSeq(wire[s], 1, n)
        PROVE  wire'[s] = <<>>
    <3>1. wire'[s] = SubSeq(<<>>, 1, 0)
      BY <2>3
    <3>. QED
      BY <3>1, SubSeqEmpty
  <2>4. c.acks = 0 => wire'[s] = <<>>
    BY <1>5, <2>1, <2>2, <2>3
  <2>. HIDE DEF c, u
  <2>5. /\ client'[s].sent <= c.acks /\ client'[s].sent <= Len(u)
        /\ c.acks <= client'[s].sent + 2
    BY <1>3, <1>4, <1>5, <2>1
  <2>6. /\ client'[s].end = "eof" =>
              IF plan[s].exec THEN c.acks > Len(u) ELSE sh[s].queue = <<>>
        /\ c.acks > Len(u) => c.acks = Len(u) + 1
    BY <1>3, <1>4, <1>5, <2>1
  <2>. QED
    BY <1>5, <2>1, <2>4, <2>5, <2>6 DEF Waits, c, u
<1>. QED
  BY <1>8, <1>9, <1>10, <1>11, <1>12, <1>13, <1>14, StepKinds

\* The names of an upload depend on its target only.
LEMMA SameNames ==
    ASSUME UNCHANGED plan, NEW r \in Shells, sh'[r].target = sh[r].target
    PROVE  \A n : /\ Dirs(r, n)' = Dirs(r, n) /\ Name(r, n)' = Name(r, n)
                  /\ From(r, n)' = From(r, n)
<1>1. \A n : Dirs(r, n)' = Dirs(r, n)
  BY DEF Dirs
<1>2. \A n : Name(r, n)' = Name(r, n)
  BY DEF Dirs, Name
<1>3. \A n : From(r, n)' = From(r, n)
  BY DEF Dirs, From
<1>. QED
  BY <1>1, <1>2, <1>3

\* A shell keeps the file in hand.
LEMMA SameHeader ==
    ASSUME UNCHANGED plan, NEW r \in Shells, client'[r].acks = client[r].acks,
           Keeps(r, {"left", "from", "dirs", "key", "path", "target", "cwd"}), OnHeader(r)
    PROVE  OnHeader(r)'
<1>1. /\ sh'[r].left = sh[r].left /\ sh'[r].dirs = sh[r].dirs /\ sh'[r].key = sh[r].key
      /\ sh'[r].from = sh[r].from
      /\ sh'[r].path = sh[r].path /\ sh'[r].target = sh[r].target /\ sh'[r].cwd = sh[r].cwd
  BY DEF Keeps
<1>2. Base(r)' = Base(r)
  BY <1>1 DEF Base, ToAbs
<1>. DEFINE n == client[r].acks - 1
<1>4. n' = n
  OBVIOUS
<1>. HIDE DEF n
<1>5. Dirs(r, n)' = Dirs(r, n) /\ Name(r, n)' = Name(r, n)
  BY <1>1, <1>4 DEF Dirs, Name
<1>6. From(r, n)' = From(r, n)
  BY <1>1, <1>4 DEF Dirs, From
<1>. QED
  BY <1>1, <1>2, <1>4, <1>5, <1>6 DEF OnHeader, n

\* The start of some bytes, and all of them, are bytes.
LEMMA PrefixesOfBytes ==
    ASSUME NEW v \in Seq(Bytes)
    PROVE  v \in Prefixes(v) /\ Prefixes(v) \subseteq Seq(Bytes)
<1>1. Len(v) \in Nat
  OBVIOUS
<1>2. Len(v) \in 0..Len(v) /\ SubSeq(v, 1, Len(v)) = v
  BY <1>1, SubSeqFull
<1>3. v \in Prefixes(v)
  BY <1>1, <1>2, PrefixIsSeq
<1>4. \A l \in 0..Len(v) : SubSeq(v, 1, l) \in Seq(Bytes)
  BY <1>1, PrefixIsSeq
<1>. QED
  BY <1>3, <1>4 DEF Prefixes

\* What may have been kept of a file is bytes, and stays so.
LEMMA SentGrows ==
    ASSUME Typed, NEW r \in Shells, NEW n \in 1..Len(plan[r].upload),
           plan[r].upload[n].t = "C"
    PROVE  /\ Sent(r, n) \subseteq Seq(Bytes)
           /\ /\ UNCHANGED plan /\ sh'[r].target = sh[r].target
              /\ client[r].end = "open" \/ client'[r].end = client[r].end
              /\ failed \subseteq failed'
              => Sent(r, n) \subseteq Sent(r, n)'
<1>. DEFINE v == plan[r].upload[n + 1].v
<1>1. v \in Seq(Bytes) /\ Len(v) \in Nat
  BY UploadFacts, DataPart DEF Typed
<1>2. UNCHANGED plan => v' = v
  OBVIOUS
<1>3. /\ Sent(r, n) = (IF client[r].end = "cut" \/ Name(r, n) \in failed
                       THEN Prefixes(v) ELSE {v})
      /\ Sent(r, n)' = (IF client'[r].end = "cut" \/ Name(r, n)' \in failed'
                        THEN Prefixes(v') ELSE {v'})
  BY DEF Sent
<1>. HIDE DEF v
<1>4. v \in Prefixes(v) /\ Prefixes(v) \subseteq Seq(Bytes)
  BY <1>1, PrefixesOfBytes
<1>5. UNCHANGED plan /\ sh'[r].target = sh[r].target => Name(r, n)' = Name(r, n)
  BY SameNames
<1>. QED
  BY <1>1, <1>2, <1>3, <1>4, <1>5

\* So what has been read of the file in hand stays what was sent of it.
LEMMA SentStays ==
    ASSUME Typed, NEW r \in Shells, OnHeader(r), UNCHANGED plan,
           sh'[r].target = sh[r].target, client'[r].acks = client[r].acks,
           client[r].end = "open" \/ client'[r].end = client[r].end,
           failed \subseteq failed', sh'[r].data = sh[r].data,
           sh[r].data \in Sent(r, client[r].acks - 1)
    PROVE  (sh[r].data \in Sent(r, client[r].acks - 1))'
<1>. DEFINE n == client[r].acks - 1
<1>1. n \in 1..Len(plan[r].upload) /\ plan[r].upload[n].t = "C"
  BY DEF OnHeader
<1>2. sh[r].data \in Sent(r, n)
  OBVIOUS
<1>3. n' = n
  OBVIOUS
<1>. HIDE DEF n
<1>4. PICK m \in 1..Len(plan[r].upload) : m = n
  BY <1>1
<1>5. Sent(r, m) \subseteq Sent(r, m)'
  BY <1>1, <1>4, SentGrows
<1>6. (sh[r].data \in Sent(r, n))'
  BY <1>2, <1>3, <1>4, <1>5
<1>. QED
  BY <1>6 DEF n

\* What a step of one shell leaves of the others' uploads.
LEMMA OthersInStep ==
    ASSUME Typed, Scripted, Paced, InStep, Grown,
           NEW s \in Shells, Shell(s) \/ Sending(s), NEW r \in Shells \ {s}
    PROVE  /\ At(r, "type")' => BetweenFiles(r)'
           /\ (sh[r].pc \in Awaiting)' => Expecting(r)'
           /\ (sh[r].pc \in Storing)' => Holding(r)'
<1>1. /\ UNCHANGED plan /\ client'[r] = client[r] /\ wire'[r] = wire[r]
      /\ Keeps(r, ScriptFields \cup UploadFields \cup {"pc", "args"})
  BY StepFrame DEF InStep
<1>2. /\ sh'[r].pc = sh[r].pc /\ sh'[r].dirs = sh[r].dirs /\ sh'[r].target = sh[r].target
      /\ sh'[r].left = sh[r].left /\ sh'[r].data = sh[r].data /\ sh'[r].from = sh[r].from
      /\ Keeps(r, {"left", "from", "dirs", "key", "path", "target", "cwd"})
  BY <1>1 DEF Keeps, ScriptFields, UploadFields
<1>3. OnHeader(r) => OnHeader(r)'
  BY <1>1, <1>2, SameHeader
<1>4. At(r, "type") => BetweenFiles(r)
  BY DEF InStep, InStepAtType
<1>5. sh[r].pc \in Awaiting => Expecting(r)
  BY DEF InStep, InStepAwaiting
<1>6. sh[r].pc \in Storing => Holding(r)
  BY DEF InStep, InStepStoring
<1>7. BetweenFiles(r) => BetweenFiles(r)'
  BY <1>1, <1>2 DEF BetweenFiles, Dirs, From
<1>8. Expecting(r) => Expecting(r)'
  BY <1>1, <1>2, <1>3 DEF Expecting
<1>9. Holding(r) => Holding(r)'
  <2>1. ASSUME Holding(r) PROVE (sh[r].data \in Sent(r, client[r].acks - 1))'
    <3>1. OnHeader(r) /\ sh[r].data \in Sent(r, client[r].acks - 1)
      BY <2>1 DEF Holding
    <3>. QED
      BY <1>1, <1>2, <3>1, FailedStep, SentStays
  <2>. QED
    BY <1>1, <1>2, <1>3, <2>1 DEF Holding
<1>10. At(r, "type")' => At(r, "type")
  BY <1>2 DEF At
<1>. QED
  BY <1>2, <1>4, <1>5, <1>6, <1>7, <1>8, <1>9, <1>10

\* The part of a client that is sent next, when cmdScp waits for a header.
LEMMA NextPart ==
    ASSUME Typed, NEW s \in Shells, NEW n \in 1..Len(plan[s].upload),
           n > 1 => plan[s].upload[n - 1].t # "C"
    PROVE  plan[s].upload[n] \in Header /\ Part(plan[s].upload[n]) = <<plan[s].upload[n]>>
<1>. DEFINE h == plan[s].upload[n]
<1>1. plan \in Plans
  BY DEF Typed
<1>2. h.t = "data" => n > 1 /\ plan[s].upload[n - 1].t = "C"
  BY <1>1, UploadFacts
<1>3. h \in Header
  BY <1>1, <1>2, UploadFacts
<1>. HIDE DEF h
<1>4. Part(h) = <<h>>
  BY <1>3, HeaderPart
<1>. QED
  BY <1>3, <1>4 DEF h

\* The start of what was on the wire.
LEMMA ShortPrefixes ==
    /\ \A w : w = <<>> => \A n \in 0..Len(w) : SubSeq(w, 1, n) = <<>>
    /\ \A a \in Token : \A n \in 0..Len(<<a>>) : SubSeq(<<a>>, 1, n) \in {<<>>, <<a>>}
    /\ \A a, b \in Token : \A n \in 0..Len(<<a, b>>) :
          SubSeq(<<a, b>>, 1, n) \in {<<>>, <<a>>, <<a, b>>}
<1>1. ASSUME NEW w, w = <<>>, NEW n \in 0..Len(w) PROVE SubSeq(w, 1, n) = <<>>
  <2>1. n = 0
    BY <1>1
  <2>. QED
    BY <2>1, SubSeqEmpty
<1>2. ASSUME NEW a \in Token, NEW n \in 0..Len(<<a>>)
      PROVE  SubSeq(<<a>>, 1, n) \in {<<>>, <<a>>}
  <2>. DEFINE w == <<a>>
  <2>. w \in Seq(Token) /\ Len(w) = 1
    OBVIOUS
  <2>3. n = 0 \/ n = Len(w)
    OBVIOUS
  <2>. HIDE DEF w
  <2>1. SubSeq(w, 1, Len(w)) = w
    BY SubSeqFull
  <2>2. SubSeq(w, 1, 0) = <<>>
    BY SubSeqEmpty
  <2>4. SubSeq(w, 1, n) \in {<<>>, w}
    BY <2>1, <2>2, <2>3
  <2>. QED
    BY <2>4 DEF w
<1>3. ASSUME NEW a \in Token, NEW b \in Token, NEW n \in 0..Len(<<a, b>>)
      PROVE  SubSeq(<<a, b>>, 1, n) \in {<<>>, <<a>>, <<a, b>>}
  <2>. DEFINE w == <<a, b>>
  <2>. w \in Seq(Token) /\ Len(w) = 2 /\ w[1] = a
    OBVIOUS
  <2>3. n = 0 \/ n = 1 \/ n = Len(w)
    OBVIOUS
  <2>. HIDE DEF w
  <2>1. SubSeq(w, 1, Len(w)) = w
    BY SubSeqFull
  <2>2. SubSeq(w, 1, 0) = <<>>
    BY SubSeqEmpty
  <2>4. /\ SubSeq(w, 1, 1) \in Seq(Token) /\ Len(SubSeq(w, 1, 1)) = 1
        /\ \A i \in 1..1 : SubSeq(w, 1, 1)[i] = w[i]
    BY <2>1, PrefixIsSeq
  <2>5. SubSeq(w, 1, 1) = <<a>>
    <3>. DEFINE o == <<a>>
    <3>1. o \in Seq(Token) /\ Len(o) = 1 /\ \A i \in 1..1 : o[i] = w[i]
      OBVIOUS
    <3>. DEFINE q == SubSeq(w, 1, 1)
    <3>2. q \in Seq(Token) /\ Len(q) = 1 /\ \A i \in 1..1 : q[i] = w[i]
      BY <2>4
    <3>. HIDE DEF o, q
    <3>3. o = q
      BY <3>1, <3>2, SeqEqual
    <3>. QED
      BY <3>3 DEF o, q
  <2>6. SubSeq(w, 1, n) \in {<<>>, <<a>>, w}
    BY <2>1, <2>2, <2>3, <2>5
  <2>. QED
    BY <2>6 DEF w
<1>. QED
  BY <1>1, <1>2, <1>3

\* Two tokens, one after the other.
LEMMA PairOfTokens ==
    ASSUME NEW x \in Token, NEW y \in Token
    PROVE  <<x>> \o <<y>> = <<x, y>>
<1>1. <<x>> \in Seq(Token) /\ <<y>> \in Seq(Token) /\ <<x, y>> \in Seq(Token)
  OBVIOUS
<1>2. /\ Len(<<x>>) = 1 /\ <<x>>[1] = x /\ Len(<<y>>) = 1 /\ <<y>>[1] = y
      /\ Len(<<x, y>>) = 2 /\ <<x, y>>[1] = x /\ <<x, y>>[2] = y
  OBVIOUS
<1>3. /\ <<x>> \o <<y>> \in Seq(Token) /\ Len(<<x>> \o <<y>>) = 2
      /\ (<<x>> \o <<y>>)[1] = x /\ (<<x>> \o <<y>>)[2] = y
  BY <1>1, <1>2, ConcatProperties
<1>4. \A i \in 1..2 : (<<x>> \o <<y>>)[i] = <<x, y>>[i]
  BY <1>2, <1>3
<1>. QED
  BY <1>1, <1>2, <1>3, <1>4, SeqEqual

\* The client's side of an upload while cmdScp is between two files.
LEMMA SendingBetween ==
    ASSUME Typed, Scripted, Paced, InStep, NEW s \in Shells, Sending(s), At(s, "type")
    PROVE  BetweenFiles(s)'
<1>. DEFINE c == client[s]
            u == plan[s].upload
            w == wire[s]
            a == c.acks
            h == u[a]
<1>1. /\ UNCHANGED <<plan, sh>> /\ c.end = "open" /\ client'[s].acks = a
      /\ \/ /\ c.sent < a /\ c.sent < Len(u)
            /\ client'[s].sent = c.sent + 1 /\ client'[s].end = "open"
            /\ wire'[s] = w \o Part(u[c.sent + 1])
         \/ /\ client'[s].sent = c.sent /\ client'[s].end = "eof" /\ wire'[s] = w
         \/ /\ client'[s].sent = c.sent /\ client'[s].end = "cut"
            /\ \E n \in 0..Len(w) : wire'[s] = SubSeq(w, 1, n)
  BY SendingStep
<1>2. /\ a >= 1 /\ sh[s].dirs = Dirs(s, a - 1) /\ sh[s].from = From(s, a - 1)
      /\ a > 1 => u[a - 1].t # "C"
      /\ \/ /\ c.sent = a - 2 /\ w = <<>> /\ u[a - 1].t = "data"
            /\ Part(u[a - 1]) = <<Nul>>
         \/ c.sent = a - 1 /\ w \in {<<>>, <<Nul>>}
         \/ c.sent = a /\ w \in {<<h>>, <<Nul, h>>}
  BY <1>1 DEF InStep, InStepAtType, BetweenFiles
<1>3. /\ c.sent \in Nat /\ a \in Nat /\ plan \in Plans /\ Nul \in Token
      /\ c.sent <= Len(u) /\ Len(u) \in Nat
  BY UploadFacts DEF Typed, Paced, Waits, Token, Nul
<1>4. /\ sh'[s].dirs = Dirs(s, a - 1)' /\ sh'[s].from = From(s, a - 1)'
      /\ a > 1 => plan'[s].upload[a - 1].t # "C"
  BY <1>1, <1>2 DEF Dirs, From
<1>5. BetweenFiles(s)' <=>
         \/ /\ client'[s].sent = a - 2 /\ wire'[s] = <<>> /\ u[a - 1].t = "data"
            /\ client'[s].end = "cut" \/ Part(u[a - 1]) = <<Nul>>
         \/ client'[s].sent = a - 1 /\ wire'[s] \in {<<>>, <<Nul>>}
         \/ client'[s].sent = a /\ wire'[s] \in {<<h>>, <<Nul, h>>}
         \/ client'[s].sent = a /\ client'[s].end = "cut" /\ wire'[s] \in {<<>>, <<Nul>>}
  BY <1>1, <1>2, <1>4 DEF BetweenFiles, Dirs, From
<1>6. CASE /\ c.sent < a /\ c.sent < Len(u)
           /\ client'[s].sent = c.sent + 1 /\ client'[s].end = "open"
           /\ wire'[s] = w \o Part(u[c.sent + 1])
  <2>1. CASE c.sent = a - 2 /\ w = <<>> /\ Part(u[a - 1]) = <<Nul>>
    <3>1. c.sent + 1 = a - 1
      BY <1>3, <2>1
    <3>2. <<>> \o <<Nul>> = <<Nul>>
      BY <1>3, ConcatEmptySeq
    <3>3. wire'[s] = <<Nul>>
      BY <1>6, <2>1, <3>1, <3>2
    <3>. HIDE DEF c, u, w, a, h
    <3>. QED
      BY <1>5, <1>6, <3>1, <3>3
  <2>2. CASE c.sent = a - 1 /\ w \in {<<>>, <<Nul>>}
    <3>1. a \in 1..Len(u) /\ c.sent + 1 = a
      <4>1. /\ c.sent \in Nat /\ a \in Nat /\ Len(u) \in Nat /\ a >= 1
            /\ c.sent < Len(u) /\ c.sent = a - 1
        BY <1>2, <1>3, <1>6, <2>2
      <4>. HIDE DEF c, u, a
      <4>. QED
        BY <4>1
    <3>2. h \in Header /\ Part(h) = <<h>>
      BY <1>2, <3>1, NextPart
    <3>3. h \in Token
      BY <3>2, HeaderPart
    <3>. HIDE DEF h
    <3>4. /\ <<>> \o <<h>> = <<h>> /\ <<Nul>> \o <<h>> = <<Nul, h>>
      <4>1. <<h>> \in Seq(Token)
        BY <3>3
      <4>2. <<>> \o <<h>> = <<h>>
        BY <4>1, ConcatEmptySeq
      <4>3. <<Nul>> \o <<h>> = <<Nul, h>>
        BY <1>3, <3>3, PairOfTokens
      <4>. QED
        BY <4>2, <4>3
    <3>5. wire'[s] = w \o <<h>>
      BY <1>6, <3>1, <3>2 DEF h
    <3>6. wire'[s] \in {<<h>>, <<Nul, h>>}
      BY <2>2, <3>4, <3>5
    <3>. HIDE DEF c, u, w, a
    <3>. QED
      BY <1>5, <1>6, <3>1, <3>6
  <2>3. c.sent # a
    BY <1>3, <1>6
  <2>. HIDE DEF c, u, w, a, h
  <2>. QED
    BY <1>2, <2>1, <2>2, <2>3
<1>7. CASE client'[s].sent = c.sent /\ client'[s].end = "eof" /\ wire'[s] = w
  <2>. HIDE DEF c, u, w, a, h
  <2>. QED
    BY <1>2, <1>5, <1>7
<1>8. CASE /\ client'[s].sent = c.sent /\ client'[s].end = "cut"
           /\ \E n \in 0..Len(w) : wire'[s] = SubSeq(w, 1, n)
  <2>1. w = <<>> => wire'[s] = <<>>
    BY <1>8, ShortPrefixes
  <2>2. w = <<Nul>> => wire'[s] \in {<<>>, <<Nul>>}
    <3>. HIDE DEF w
    <3>. QED
      BY <1>3, <1>8, ShortPrefixes
  <2>3. ASSUME c.sent = a PROVE h \in Token
    <3>1. a \in 1..Len(u)
      BY <1>2, <1>3, <2>3
    <3>2. h \in Header
      BY <1>2, <3>1, NextPart
    <3>. QED
      BY <3>2, HeaderPart
  <2>. HIDE DEF h, w
  <2>4. h \in Token /\ w = <<h>> => wire'[s] \in {<<>>, <<h>>}
    BY <1>8, ShortPrefixes
  <2>5. h \in Token /\ w = <<Nul, h>> => wire'[s] \in {<<>>, <<Nul>>, <<Nul, h>>}
    BY <1>3, <1>8, ShortPrefixes
  <2>. HIDE DEF c, u, a
  <2>. QED
    BY <1>2, <1>5, <1>8, <2>1, <2>2, <2>3, <2>4, <2>5
<1>. QED
  BY <1>1, <1>6, <1>7, <1>8

\* An empty file is sent as its zero byte only.
LEMMA EmptyPart ==
    ASSUME NEW d \in FileData, Len(d.v) = 0
    PROVE  Part(d) = <<Nul>>
<1>1. /\ Part(d) \in Seq(Token) /\ Len(Part(d)) = 1 /\ Part(d)[1] = Nul
  <2>1. /\ Part(d) \in Seq(Token) /\ Len(Part(d)) = Len(d.v) + 1
        /\ Part(d)[Len(d.v) + 1] = Nul
    BY DataPart
  <2>2. Len(d.v) + 1 = 1
    OBVIOUS
  <2>. QED
    BY <2>1, <2>2
<1>2. <<Nul>> \in Seq(Token) /\ Len(<<Nul>>) = 1 /\ <<Nul>>[1] = Nul
  BY DEF Token, Nul
<1>3. Len(Part(d)) = Len(<<Nul>>) /\ \A i \in 1..Len(Part(d)) : Part(d)[i] = <<Nul>>[i]
  BY <1>1, <1>2
<1>. QED
  BY <1>1, <1>2, <1>3, SeqEqual

\* cmdScp is between two files, as far as it goes in step with the client.
LEMMA BetweenStep ==
    ASSUME Typed, Scripted, Paced, InStep, Grown,
           NEW s \in Shells, Shell(s) \/ Sending(s), At(s, "type")'
    PROVE  BetweenFiles(s)'
<1>. DEFINE c == client[s]
            u == plan[s].upload
            w == wire[s]
            a == c.acks
<1>1. UNCHANGED plan
  BY StepFrame DEF InStep
<1>2. c.sent \in Nat /\ a \in Nat /\ plan \in Plans /\ Len(u) \in Nat
  BY UploadFacts DEF Typed
<1>3. CASE LineRun(s)
  <2>1. /\ sh[s].lines # <<>> /\ UNCHANGED wire /\ IsSink(Head(sh[s].lines)) /\ Ack(s)
        /\ sh'[s].target = Head(sh[s].lines).args[1]
        /\ sh'[s].dirs = <<Head(sh[s].lines).args[1].path>>
        /\ sh'[s].from = Head(sh[s].lines).args[1].from
    BY <1>3 DEF LineRun, At
  <2>2. a = 0
    BY <2>1, NextLine
  <2>3. c.sent = 0 /\ wire[s] = <<>>
    BY <1>2, <2>2 DEF Paced, Waits
  <2>4. client'[s].acks = 1 /\ client'[s].sent = 0
    BY <2>1, <2>2, <2>3, AckStep
  <2>5. Walk(sh'[s].target.path, plan'[s].upload)[0] = <<sh'[s].target.path>>
    BY <1>1, <1>2, WalkStep
  <2>6. Dirs(s, 0)' = sh'[s].dirs
    BY <2>1, <2>5 DEF Dirs
  <2>7. client'[s].acks - 1 = 0 /\ wire'[s] = <<>>
    BY <2>1, <2>3, <2>4
  <2>8. sh'[s].dirs = Walk(sh'[s].target.path, plan'[s].upload)[client'[s].acks - 1]
    BY <2>6, <2>7 DEF Dirs
  <2>9. sh'[s].from = IF \E m \in 0..(client'[s].acks - 1) :
                            Walk(sh'[s].target.path, plan'[s].upload)[m] = <<>>
                      THEN "cwd" ELSE sh'[s].target.from
    <3>1. \A m \in 0..0 : m = 0
      OBVIOUS
    <3>2. Walk(sh'[s].target.path, plan'[s].upload)[0] # <<>>
      BY <2>5
    <3>. QED
      BY <2>1, <2>7, <3>1, <3>2
  <2>. QED
    BY <2>4, <2>7, <2>8, <2>9 DEF BetweenFiles, Dirs, From
<1>4. CASE Receiving(s)
  <2>1. At(s, "type") /\ sh'[s].target = sh[s].target
    BY <1>4, ReceivingStep DEF Steady, Keeps, ScriptFields
  <2>2. BetweenFiles(s)
    BY <2>1 DEF InStep, InStepAtType
  <2>3. CASE client' # client
    <3>. DEFINE h == u[a]
    <3>1. /\ c.sent = a /\ a \in 1..Len(u) /\ h \in Header /\ wire'[s] = <<>> /\ Ack(s)
          /\ Entering(s, h) \/ Leaving(s, h) \/ Naming(s, h) \/ Passing(s, h)
      BY <1>4, <2>3, MessageAck DEF InStep
    <3>2. client'[s].acks = a + 1 /\ client'[s].sent = a
      BY <3>1, AckStep
    <3>3. /\ sh[s].dirs = Dirs(s, a - 1) /\ Dirs(s, a) = Turn(Dirs(s, a - 1), h)
      BY <1>2, <2>2, <3>1, DirsStep DEF BetweenFiles
    <3>. HIDE DEF h
    <3>4. ~ Naming(s, h)
      BY DEF Naming, At
    <3>5. sh'[s].dirs = Turn(sh[s].dirs, h) /\ h.t # "C"
      BY <3>1, <3>4 DEF Turn, Entering, Leaving, Passing
    <3>6. sh'[s].dirs = Dirs(s, a)
      BY <3>3, <3>5
    <3>7. sh'[s].dirs = Walk(sh'[s].target.path, plan'[s].upload)[a]
      BY <1>1, <2>1, <3>6 DEF Dirs
    <3>8. (a + 1) - 1 = a /\ a + 1 >= 1
      BY <1>2
    <3>10. sh'[s].from = IF \E m \in 0..a : Walk(sh'[s].target.path, plan'[s].upload)[m] = <<>>
                         THEN "cwd" ELSE sh'[s].target.from
      <4>1. sh[s].from = From(s, a - 1)
        BY <2>2 DEF BetweenFiles
      <4>2. /\ From(s, a) = IF Dirs(s, a) = <<>> THEN "cwd" ELSE From(s, a - 1)
            /\ Dirs(s, a) = Dirs(s, a - 1) => From(s, a) = From(s, a - 1)
        BY <1>2, <3>1, FromStep
      <4>3. sh'[s].from = From(s, a)
        <5>1. CASE Entering(s, h)
          <6>1. sh'[s].from = sh[s].from /\ sh'[s].dirs = Append(sh[s].dirs, <<h.name>>)
            BY <5>1 DEF Entering, Keeps
          <6>2. sh'[s].dirs # <<>>
            <7>1. sh[s].dirs \in Seq(Paths)
              BY DEF Typed, ShellState
            <7>. QED
              BY <6>1, <7>1
          <6>. QED
            BY <3>6, <4>1, <4>2, <6>1, <6>2
        <5>2. CASE Leaving(s, h)
          BY <3>6, <4>1, <4>2, <5>2 DEF Leaving
        <5>3. CASE Passing(s, h)
          BY <3>3, <3>6, <4>1, <4>2, <5>3 DEF Passing
        <5>. QED
          BY <3>1, <3>4, <5>1, <5>2, <5>3
      <4>. QED
        BY <1>1, <2>1, <4>3 DEF From, Dirs
    <3>. HIDE DEF a
    <3>9. u[(a + 1) - 1].t # "C"
      BY <3>5, <3>8 DEF h
    <3>. QED
      BY <1>1, <3>1, <3>2, <3>7, <3>8, <3>9, <3>10 DEF BetweenFiles, Dirs, From
  <2>4. CASE UNCHANGED client
    <3>1. /\ wire[s] # <<>> /\ wire'[s] = Tail(wire[s])
          /\ Leftover(s, Head(wire[s])) \/ Failing(s, Head(wire[s]))
             \/ Naming(s, Head(wire[s])) \/ Ack(s)
      BY <1>4, <2>4, ReceivingStep DEF Ending, At
    <3>2. ~ Ack(s)
      BY <1>2, <2>4, AckStep
    <3>3. Leftover(s, Head(wire[s]))
      BY <3>1, <3>2 DEF Failing, Naming, At
    <3>4. Head(wire[s]) \notin Header /\ UNCHANGED sh
      BY <3>3 DEF Leftover, Header, FileHeader
    <3>5. \/ c.sent = a - 1 /\ Tail(w) = <<>>
          \/ c.sent = a /\ Tail(w) = <<u[a]>>
          \/ c.sent = a /\ c.end = "cut" /\ Tail(w) = <<>>
      BY <2>1, <3>1, <3>4, NextMessage DEF InStep
    <3>6. \/ c.sent = a - 1 /\ wire'[s] \in {<<>>, <<Nul>>}
          \/ c.sent = a /\ wire'[s] \in {<<u[a]>>, <<Nul, u[a]>>}
          \/ c.sent = a /\ c.end = "cut" /\ wire'[s] \in {<<>>, <<Nul>>}
      BY <3>1, <3>5
    <3>. QED
      BY <1>1, <2>2, <2>4, <3>4, <3>6 DEF BetweenFiles, Dirs, From
  <2>. QED
    BY <2>3, <2>4
<1>5. CASE Saving(s)
  <2>1. At(s, "done") /\ Ack(s) /\ UNCHANGED wire
    BY <1>5, SavingStep, DataStep
       DEF InStep, Storage, Making, Opening, Writing, Checking, Creating, Copying, At
  <2>2. /\ sh'[s].dirs = sh[s].dirs /\ sh'[s].from = sh[s].from
        /\ sh'[s].target = sh[s].target
    BY <1>5, SavingStep DEF InStep, Steady, Keeps, ScriptFields
  <2>3. Holding(s)
    BY <2>1 DEF InStep, InStepStoring, Storing, At
  <2>4. OnHeader(s)
    BY <2>3 DEF Holding
  <2>5. a \in 1..Len(u) /\ u[a] \in FileData /\ Len(u[a].v) = sh[s].left
    BY <2>4, HeaderFacts
  <2>6. client'[s].acks = a + 1 /\ client'[s].sent = c.sent /\ client'[s].end = c.end
    BY <2>1, AckStep
  <2>7. u[a].t = "data"
    BY <2>5 DEF FileData
  <2>8. sh[s].dirs = Dirs(s, a - 1) /\ sh[s].from = From(s, a - 1)
    BY <2>4 DEF OnHeader
  <2>9. Dirs(s, a) = Dirs(s, a - 1) /\ From(s, a) = From(s, a - 1)
    <3>1. Dirs(s, a) = Dirs(s, a - 1)
      BY <1>2, <2>5, <2>7, DirsStep DEF Turn
    <3>. QED
      BY <1>2, <2>5, <3>1, FromStep
  <2>15. sh'[s].from = IF \E m \in 0..a : Walk(sh'[s].target.path, plan'[s].upload)[m] = <<>>
                       THEN "cwd" ELSE sh'[s].target.from
    <3>1. sh'[s].from = From(s, a)
      BY <2>2, <2>8, <2>9
    <3>. QED
      BY <1>1, <2>2, <3>1 DEF From, Dirs
  <2>10. sh'[s].dirs = Walk(sh'[s].target.path, plan'[s].upload)[a]
    BY <1>1, <2>2, <2>8, <2>9 DEF Dirs
  <2>11. sh[s].left = 0 => Part(u[a]) = <<Nul>>
    BY <2>5, EmptyPart
  <2>12. \/ c.sent = a - 1 /\ wire[s] = <<>> /\ (c.end = "cut" \/ sh[s].left = 0)
         \/ c.sent = a /\ wire[s] \in {<<>>, <<Nul>>}
    BY <2>3 DEF Holding
  <2>13. (a + 1) - 1 = a /\ a + 1 >= 1 /\ (a + 1) - 2 = a - 1
    BY <1>2
  <2>. HIDE DEF a
  <2>14. u[(a + 1) - 1].t = "data" /\ (sh[s].left = 0 => Part(u[(a + 1) - 1]) = <<Nul>>)
    BY <2>7, <2>11, <2>13
  <2>. QED
    BY <1>1, <2>1, <2>6, <2>10, <2>12, <2>13, <2>14, <2>15 DEF BetweenFiles, Dirs, From
<1>6. CASE Sending(s)
  <2>1. At(s, "type")
    BY <1>6, SendingStep DEF At
  <2>. QED
    BY <1>6, <2>1, SendingBetween
<1>7. ~ ReadLine(s) /\ ~ LinesDone(s) /\ ~ Close(s)
  <2>1. ~ ReadLine(s)
    BY ReadStep DEF Typed, At
  <2>. QED
    BY <2>1, ClosingStep DEF At
<1>8. ~ Filing(s)
  BY FilingStep DEF At
<1>. QED
  BY <1>3, <1>4, <1>5, <1>6, <1>7, <1>8, StepKinds

\* A header that is acknowledged gives the file its names.
LEMMA NamingStep ==
    ASSUME Typed, Scripted, Paced, InStep, Grown, NEW s \in Shells, Receiving(s),
           sh'[s].pc \in Awaiting
    PROVE  Expecting(s)'
<1>. DEFINE c == client[s]
            u == plan[s].upload
            a == c.acks
            h == u[a]
<1>1. /\ At(s, "type") /\ Steady(s)
      /\ Ack(s) /\ Naming(s, Head(wire[s]))
  BY ReceivingStep
     DEF Ending, Failing, Leftover, Entering, Leaving, Passing, Naming, Keeps, At, Awaiting
<1>2. a \in Nat /\ plan \in Plans /\ UNCHANGED plan
  BY <1>1 DEF Typed, Steady
<1>3. client'[s].acks = a + 1 /\ client'[s].sent = c.sent /\ client'[s].end = c.end
  BY <1>1, AckStep
<1>4. client' # client
  BY <1>2, <1>3
<1>5. /\ c.sent = a /\ a \in 1..Len(u) /\ h \in Header
      /\ Head(wire[s]) = h /\ wire'[s] = <<>>
  BY <1>4, MessageAck DEF InStep
<1>6. /\ h.t = "C" /\ sh'[s].left = h.length
      /\ sh'[s].key = Append(FlattenSeq(sh[s].dirs), h.name)
      /\ sh'[s].path = Base(s) \o sh'[s].key
      /\ sh'[s].dirs = sh[s].dirs /\ sh'[s].from = sh[s].from
  BY <1>1, <1>5 DEF Naming
<1>7. sh'[s].target = sh[s].target /\ sh'[s].cwd = sh[s].cwd
  BY <1>1 DEF Steady, Keeps, ScriptFields
<1>8. sh[s].dirs = Dirs(s, a - 1) /\ sh[s].from = From(s, a - 1)
  BY <1>1 DEF InStep, InStepAtType, BetweenFiles
<1>9. Dirs(s, a) = sh[s].dirs /\ From(s, a) = sh[s].from
  <2>1. Dirs(s, a) = sh[s].dirs
    BY <1>2, <1>5, <1>6, <1>8, DirsStep DEF Turn
  <2>. QED
    BY <1>2, <1>5, <1>8, <2>1, FromStep
<1>10. Base(s)' = Base(s)
  <2>1. sh'[s].dirs = sh[s].dirs /\ sh'[s].from = sh[s].from
    BY <1>6
  <2>. QED
    BY <1>7, <2>1 DEF Base, ToAbs
<1>11. sh'[s].dirs = Walk(sh'[s].target.path, plan'[s].upload)[a]
  BY <1>2, <1>6, <1>7, <1>9 DEF Dirs
<1>14. sh'[s].from = IF \E m \in 0..a : Walk(sh'[s].target.path, plan'[s].upload)[m] = <<>>
                     THEN "cwd" ELSE sh'[s].target.from
  <2>1. sh'[s].from = From(s, a)
    BY <1>6, <1>9
  <2>. QED
    BY <1>2, <1>7, <2>1 DEF From, Dirs
<1>12. (a + 1) - 1 = a
  BY <1>2
<1>. HIDE DEF a
<1>13. OnHeader(s)'
  <2>1. sh'[s].key = Append(FlattenSeq(sh'[s].dirs), u[a].name)
    BY <1>6 DEF h
  <2>. QED
    BY <1>2, <1>3, <1>5, <1>6, <1>10, <1>11, <1>12, <1>14, <2>1
       DEF OnHeader, Name, Dirs, From, h
<1>. QED
  BY <1>3, <1>5, <1>12, <1>13 DEF Expecting

\* The client's side while cmdScp waits for the contents of a file.
LEMMA SendingAwaited ==
    ASSUME Typed, Paced, NEW s \in Shells, Sending(s), Expecting(s)
    PROVE  Expecting(s)'
<1>. DEFINE c == client[s]
            u == plan[s].upload
            w == wire[s]
            a == c.acks
            p == Part(u[a])
<1>1. /\ UNCHANGED <<plan, sh>> /\ c.end = "open" /\ client'[s].acks = a
      /\ \/ /\ c.sent < a /\ c.sent < Len(u)
            /\ client'[s].sent = c.sent + 1 /\ client'[s].end = "open"
            /\ wire'[s] = w \o Part(u[c.sent + 1])
         \/ /\ client'[s].sent = c.sent /\ client'[s].end = "eof" /\ wire'[s] = w
         \/ /\ client'[s].sent = c.sent /\ client'[s].end = "cut"
            /\ \E n \in 0..Len(w) : wire'[s] = SubSeq(w, 1, n)
  BY SendingStep
<1>2. OnHeader(s)'
  BY <1>1, SameHeader DEF Expecting, Keeps
<1>3. (c.sent = a - 1 /\ w = <<>>) \/ (c.sent = a /\ w = p)
  BY <1>1 DEF Expecting
<1>4. c.sent \in Nat /\ a \in Nat
  BY DEF Typed
<1>5. u[a] \in FileData
  BY HeaderFacts DEF Expecting
<1>6. p \in Seq(Token)
  BY <1>5, DataPart
<1>7. Expecting(s)' <=>
         \/ client'[s].sent = a - 1 /\ wire'[s] = <<>>
         \/ client'[s].sent = a /\ wire'[s] = p
         \/ client'[s].sent = a /\ client'[s].end = "cut" /\ wire'[s] \in Prefixes(p)
  BY <1>1, <1>2 DEF Expecting
<1>8. CASE /\ c.sent < a /\ client'[s].sent = c.sent + 1
           /\ wire'[s] = w \o Part(u[c.sent + 1])
  <2>1. c.sent = a - 1 /\ w = <<>> /\ c.sent + 1 = a
    BY <1>3, <1>4, <1>8
  <2>2. <<>> \o p = p
    BY <1>6, ConcatEmptySeq
  <2>. HIDE DEF c, a, w
  <2>. QED
    BY <1>7, <1>8, <2>1, <2>2
<1>9. CASE client'[s].sent = c.sent /\ wire'[s] = w
  <2>. HIDE DEF c, a, w, p
  <2>. QED
    BY <1>3, <1>7, <1>9
<1>10. CASE /\ client'[s].sent = c.sent /\ client'[s].end = "cut"
            /\ \E n \in 0..Len(w) : wire'[s] = SubSeq(w, 1, n)
  <2>1. w = <<>> => wire'[s] = <<>>
    BY <1>10, ShortPrefixes
  <2>2. w = p => wire'[s] \in Prefixes(p)
    <3>. HIDE DEF p
    <3>. QED
      BY <1>6, <1>10, PrefixIsSeq
  <2>. HIDE DEF c, a, w, p
  <2>. QED
    BY <1>3, <1>7, <1>10, <2>1, <2>2
<1>. HIDE DEF c, a, w, p, u
<1>. QED
  BY <1>1, <1>8, <1>9, <1>10

\* A file is named by its header, and waits for its contents.
LEMMA AwaitingStep ==
    ASSUME Typed, Scripted, Paced, InStep, Grown,
           NEW s \in Shells, Shell(s) \/ Sending(s), sh'[s].pc \in Awaiting
    PROVE  Expecting(s)'
<1>1. ~ ReadLine(s) /\ ~ LinesDone(s) /\ ~ Close(s) /\ ~ LineRun(s) /\ ~ Filing(s)
  <2>1. ~ ReadLine(s)
    BY ReadStep DEF Typed, Awaiting
  <2>2. ~ LinesDone(s) /\ ~ Close(s)
    BY ClosingStep DEF Awaiting
  <2>3. ~ LineRun(s)
    BY DEF LineRun, Awaiting
  <2>4. ~ Filing(s)
    BY FilingStep DEF Awaiting
  <2>. QED
    BY <2>1, <2>2, <2>3, <2>4
<1>2. CASE Receiving(s)
  BY <1>2, NamingStep
<1>3. CASE Saving(s)
  <2>1. /\ Making(s) \/ Opening(s)
        /\ UNCHANGED <<client, wire>>
        /\ Steady(s) /\ Keeps(s, {"args", "from", "dirs", "left", "key", "path"})
    BY <1>3, SavingStep, DataStep
       DEF InStep, Storage, Writing, Checking, Creating, Copying, Awaiting
  <2>2. Expecting(s)
    BY <2>1 DEF InStep, InStepAwaiting, Making, Opening, At, Awaiting
  <2>3. UNCHANGED plan
    BY <2>1 DEF Steady
  <2>4. Keeps(s, {"left", "from", "dirs", "key", "path", "target", "cwd"})
    BY <2>1 DEF Steady, Keeps, ScriptFields
  <2>5. OnHeader(s)'
    BY <2>1, <2>2, <2>3, <2>4, SameHeader DEF Expecting
  <2>. QED
    BY <2>1, <2>2, <2>3, <2>5 DEF Expecting
<1>4. CASE Sending(s)
  <2>1. Expecting(s)
    BY <1>4, SendingStep DEF InStep, InStepAwaiting
  <2>. QED
    BY <1>4, <2>1, SendingAwaited
<1>. QED
  BY <1>1, <1>2, <1>3, <1>4, StepKinds

\* The client's side while a file that has been read is stored.
LEMMA SendingHeld ==
    ASSUME Typed, Paced, NEW s \in Shells, Sending(s), Holding(s)
    PROVE  Holding(s)'
<1>. DEFINE c == client[s]
            u == plan[s].upload
            w == wire[s]
            a == c.acks
<1>1. /\ UNCHANGED <<plan, sh>> /\ c.end = "open" /\ client'[s].acks = a
      /\ \/ /\ c.sent < a /\ client'[s].sent = c.sent + 1
            /\ wire'[s] = w \o Part(u[c.sent + 1])
         \/ /\ client'[s].sent = c.sent /\ client'[s].end = "eof" /\ wire'[s] = w
         \/ /\ client'[s].sent = c.sent /\ client'[s].end = "cut"
            /\ \E n \in 0..Len(w) : wire'[s] = SubSeq(w, 1, n)
  BY SendingStep
<1>2. OnHeader(s)'
  BY <1>1, SameHeader DEF Holding, Keeps
<1>3. \/ c.sent = a - 1 /\ w = <<>> /\ sh[s].left = 0
      \/ c.sent = a /\ w = <<Nul>>
  BY <1>1 DEF Holding
<1>4. c.sent \in Nat /\ a \in Nat /\ Nul \in Token
  BY DEF Typed, Token, Nul
<1>5. u[a] \in FileData /\ Len(u[a].v) = sh[s].left
  BY HeaderFacts DEF Holding
<1>6. (sh[s].data \in Sent(s, client[s].acks - 1))'
  <2>1. OnHeader(s) /\ sh[s].data \in Sent(s, client[s].acks - 1)
    BY DEF Holding
  <2>2. UNCHANGED <<plan, sh, failed>> /\ c.end = "open"
    BY SendingStep
  <2>. QED
    BY <1>1, <2>1, <2>2, SentStays
<1>7. Holding(s)' <=>
         \/ /\ client'[s].sent = a - 1 /\ wire'[s] = <<>>
            /\ client'[s].end = "cut" \/ sh[s].left = 0
         \/ client'[s].sent = a /\ wire'[s] = <<Nul>>
         \/ client'[s].sent = a /\ client'[s].end = "cut" /\ wire'[s] = <<>>
  BY <1>1, <1>2, <1>6 DEF Holding
<1>8. CASE c.sent < a /\ client'[s].sent = c.sent + 1 /\ wire'[s] = w \o Part(u[c.sent + 1])
  <2>1. c.sent = a - 1 /\ w = <<>> /\ sh[s].left = 0 /\ c.sent + 1 = a
    BY <1>3, <1>4, <1>8
  <2>2. Part(u[a]) = <<Nul>> /\ <<>> \o <<Nul>> = <<Nul>>
    BY <1>4, <1>5, <2>1, EmptyPart, ConcatEmptySeq
  <2>. HIDE DEF c, a, w, u
  <2>. QED
    BY <1>7, <1>8, <2>1, <2>2
<1>9. CASE client'[s].sent = c.sent /\ wire'[s] = w
  <2>. HIDE DEF c, a, w
  <2>. QED
    BY <1>3, <1>7, <1>9
<1>10. CASE /\ client'[s].sent = c.sent /\ client'[s].end = "cut"
            /\ \E n \in 0..Len(w) : wire'[s] = SubSeq(w, 1, n)
  <2>1. w = <<>> => wire'[s] = <<>>
    BY <1>10, ShortPrefixes
  <2>2. w = <<Nul>> => wire'[s] \in {<<>>, <<Nul>>}
    <3>. HIDE DEF w
    <3>. QED
      BY <1>4, <1>10, ShortPrefixes
  <2>. HIDE DEF c, a, w
  <2>. QED
    BY <1>3, <1>7, <1>10, <2>1, <2>2
<1>. HIDE DEF c, a, w, u
<1>. QED
  BY <1>1, <1>8, <1>9, <1>10

\* A file that has been read is held until its second acknowledgement.
LEMMA StoringStep ==
    ASSUME Typed, Scripted, Paced, InStep, Grown,
           NEW s \in Shells, Shell(s) \/ Sending(s), sh'[s].pc \in Storing
    PROVE  Holding(s)'
<1>1. ~ ReadLine(s) /\ ~ LinesDone(s) /\ ~ Close(s) /\ ~ LineRun(s) /\ ~ Filing(s)
  <2>1. ~ ReadLine(s)
    BY ReadStep DEF Typed, Storing
  <2>2. ~ LinesDone(s) /\ ~ Close(s)
    BY ClosingStep DEF Storing
  <2>3. ~ LineRun(s)
    BY DEF LineRun, Storing
  <2>4. ~ Filing(s)
    BY FilingStep DEF Storing
  <2>. QED
    BY <2>1, <2>2, <2>3, <2>4
<1>2. ~ Receiving(s)
  BY ReceivingStep
     DEF Ending, Failing, Leftover, Entering, Leaving, Passing, Naming, Keeps, At, Storing
<1>3. CASE Saving(s)
  <2>1. /\ Steady(s) /\ Keeps(s, {"args", "from", "dirs", "left", "key", "path"})
        /\ UNCHANGED client
        /\ \/ ScpData(s)
           \/ /\ UNCHANGED wire /\ Keeps(s, {"data"})
              /\ Writing(s) \/ Checking(s) \/ Creating(s) \/ Copying(s)
    BY <1>3, SavingStep DEF InStep, Storage, Making, Opening, Storing
  <2>2. UNCHANGED plan
    BY <2>1 DEF Steady
  <2>3. Keeps(s, {"left", "from", "dirs", "key", "path", "target", "cwd"})
    BY <2>1 DEF Steady, Keeps, ScriptFields
  <2>4. sh'[s].left = sh[s].left
    BY <2>3 DEF Keeps
  <2>7. sh'[s].target = sh[s].target
    BY <2>3 DEF Keeps
  <2>5. CASE ScpData(s)
    <3>. DEFINE c == client[s]
    <3>1. /\ OnHeader(s) /\ sh'[s].data \in Sent(s, c.acks - 1) /\ UNCHANGED failed
          /\ \/ c.sent = c.acks - 1 /\ wire'[s] = <<>> /\ (c.end = "cut" \/ sh[s].left = 0)
             \/ c.sent = c.acks /\ wire'[s] = <<Nul>>
             \/ c.sent = c.acks /\ c.end = "cut" /\ wire'[s] = <<>>
      BY <2>5, DataStep DEF InStep, Storing
    <3>2. OnHeader(s)'
      BY <2>1, <2>2, <2>3, <3>1, SameHeader
    <3>. QED
      BY <2>1, <2>2, <2>4, <2>7, <3>1, <3>2 DEF Holding, Sent, Name, Dirs
  <2>6. CASE /\ UNCHANGED wire /\ Keeps(s, {"data"})
             /\ Writing(s) \/ Checking(s) \/ Creating(s) \/ Copying(s)
    <3>1. Holding(s)
      BY <2>6 DEF InStep, InStepStoring, Writing, Checking, Creating, Copying, At, Storing
    <3>2. OnHeader(s)'
      BY <2>1, <2>2, <2>3, <3>1, SameHeader DEF Holding
    <3>3. sh'[s].data = sh[s].data
      BY <2>6 DEF Keeps
    <3>4. UNCHANGED wire
      BY <2>6
    <3>5. OnHeader(s) /\ sh[s].data \in Sent(s, client[s].acks - 1)
      BY <3>1 DEF Holding
    <3>7. (sh[s].data \in Sent(s, client[s].acks - 1))'
      BY <2>1, <2>2, <2>7, <3>3, <3>5, FailedStep, SentStays
    <3>. QED
      BY <2>1, <2>2, <2>4, <3>1, <3>2, <3>4, <3>7 DEF Holding
  <2>. QED
    BY <2>1, <2>5, <2>6
<1>4. CASE Sending(s)
  <2>1. Holding(s)
    BY <1>4, SendingStep DEF InStep, InStepStoring
  <2>. QED
    BY <1>4, <2>1, SendingHeld
<1>. QED
  BY <1>1, <1>2, <1>3, <1>4, StepKinds

\* Both ends walk the same tree.
LEMMA InStepStep ==
    ASSUME Typed, Scripted, Paced, InStep, Grown,
           NEW s \in Shells, Shell(s) \/ Sending(s)
    PROVE  InStep'
<1>1. InStepAtType'
  <2>1. SUFFICES ASSUME NEW r \in Shells, At(r, "type")' PROVE BetweenFiles(r)'
    BY DEF InStepAtType
  <2>. QED
    BY <2>1, BetweenStep, OthersInStep
<1>2. InStepAwaiting'
  <2>1. SUFFICES ASSUME NEW r \in Shells, (sh[r].pc \in Awaiting)' PROVE Expecting(r)'
    BY DEF InStepAwaiting
  <2>2. CASE r = s
    BY <2>1, <2>2, AwaitingStep
  <2>3. CASE r # s
    BY <2>1, <2>3, OthersInStep
  <2>. QED
    BY <2>2, <2>3
<1>3. InStepStoring'
  <2>1. SUFFICES ASSUME NEW r \in Shells, (sh[r].pc \in Storing)' PROVE Holding(r)'
    BY DEF InStepStoring
  <2>2. CASE r = s
    BY <2>1, <2>2, StoringStep
  <2>3. CASE r # s
    BY <2>1, <2>3, OthersInStep
  <2>. QED
    BY <2>2, <2>3
<1>. QED
  BY <1>1, <1>2, <1>3 DEF InStep

\* What a path is in, and what is above that.
LEMMA FrontPath ==
    ASSUME NEW p \in Paths
    PROVE  Front(p) \in Paths
<1>1. CASE p = Root
  <2>1. Len(p) = 0 /\ Front(p) = SubSeq(p, 1, Len(p) - 1)
    BY <1>1 DEF Front, Root
  <2>2. SubSeq(p, 1, 0 - 1) = <<>>
    BY SubSeqEmpty
  <2>. QED
    BY <2>1, <2>2 DEF Paths
<1>2. CASE p # Root
  BY <1>2, Parent
<1>. QED
  BY <1>1, <1>2

\* The prefixes of a parent are proper prefixes of what is in it.
LEMMA PrefixesOfParent ==
    ASSUME NEW p \in Paths, p # Root, NEW q \in Prefixes(Front(p))
    PROVE  q \in Prefixes(p) \ {p}
<1>1. /\ Len(p) - 1 \in 0..Len(p) /\ Front(p) = SubSeq(p, 1, Len(p) - 1)
      /\ Len(Front(p)) = Len(p) - 1 /\ Len(p) \in Nat
  BY Parent DEF Front
<1>2. PICK m \in 0..(Len(p) - 1) : q = SubSeq(Front(p), 1, m)
  <2>. DEFINE f == Front(p)
  <2>1. Len(f) = Len(p) - 1 /\ q \in {SubSeq(f, 1, l) : l \in 0..Len(f)}
    BY <1>1 DEF Prefixes
  <2>. HIDE DEF f
  <2>. QED
    BY <2>1 DEF f
<1>3. q = SubSeq(p, 1, m) /\ m \in 0..Len(p) /\ m < Len(p)
  BY <1>1, <1>2, PrefixOfPrefix DEF Paths
<1>4. q \in Prefixes(p) /\ Len(q) = m
  BY <1>3, PrefixIsSeq DEF Paths
<1>. QED
  BY <1>3, <1>4

\* Nothing but rm touches another shell.
LEMMA OthersStay ==
    ASSUME Typed, NEW s \in Shells, Shell(s) \/ Sending(s), ~ RmUnlink(s)
    PROVE  \A r \in Shells \ {s} : sh'[r] = sh[r]
<1>1. ASSUME NEW f, Go(s, f) PROVE \A r \in Shells \ {s} : sh'[r] = sh[r]
  BY <1>1 DEF Typed, Go
<1>2. CASE ReadLine(s) \/ LinesDone(s) \/ Exec(s) \/ Close(s)
  BY <1>1, <1>2 DEF ReadLine, LinesDone, Exec, Close, Panic
<1>3. CASE CmdCd(s) \/ CmdLs(s) \/ CmdRm(s) \/ RmTest(s)
  BY <1>1, <1>3 DEF CmdCd, CmdLs, CmdRm, RmTest
<1>4. CASE CmdOpen(s) \/ Open(s) \/ CmdScp(s) \/ ScpEnd(s)
  BY <1>1, <1>4 DEF CmdOpen, Open, CmdScp, ScpEnd
<1>5. CASE ScpFile(s) \/ ScpDir(s) \/ ScpLeave(s) \/ ScpOther(s)
  BY <1>1, <1>5 DEF ScpFile, ScpDir, ScpLeave, ScpOther, Panic
<1>6. CASE ScpMkdir(s) \/ ScpOpen(s) \/ ScpData(s) \/ ScpWrite(s)
  BY <1>1, <1>6 DEF ScpMkdir, ScpOpen, ScpData, ScpWrite
<1>7. CASE ScpCheck(s) \/ ScpCapture(s) \/ ScpSave(s) \/ ScpDone(s)
  BY <1>1, <1>7 DEF ScpCheck, ScpCapture, ScpSave, ScpDone
<1>8. CASE Sending(s)
  BY <1>8 DEF Sending, Send, HangUp, Cut
<1>. QED
  BY <1>2, <1>3, <1>4, <1>5, <1>6, <1>7, <1>8 DEF Shell

\* The name of a file in hand is a path below the root.
LEMMA HeaderKey ==
    ASSUME Typed, NEW s \in Shells, OnHeader(s)
    PROVE  sh[s].key \in Paths /\ sh[s].key # Root
<1>. DEFINE u == plan[s].upload
            n == client[s].acks - 1
            name == u[n].name
            dirs == sh[s].dirs
<1>1. /\ n \in 1..Len(u) /\ u[n].t = "C" /\ dirs = Dirs(s, n)
      /\ sh[s].key = Append(FlattenSeq(Dirs(s, n)), name)
  BY DEF OnHeader, Name
<1>2. dirs \in Seq(Paths) /\ sh[s].key \in Paths
  BY DEF Typed, ShellState
<1>3. name \in Names
  <2>1. u[n] \in Header
    BY <1>1, UploadFacts DEF Typed
  <2>. QED
    BY <1>1, <2>1, HeaderPart
<1>4. FlattenSeq(dirs) \in Paths
  BY <1>2, FlattenType DEF Paths
<1>. HIDE DEF u, n, name, dirs
<1>5. sh[s].key # Root
  BY <1>1, <1>3, <1>4, AppendedPath
<1>. QED
  BY <1>2, <1>5

\* What a step leaves of the tree: the files that are in it, except for the one
\* that rm removes.
LEMMA TreeStep ==
    ASSUME Typed, Scripted, Paced, InStep, Grown,
           NEW s \in Shells, Shell(s) \/ Sending(s)
    PROVE  /\ IsTree(tree')
           /\ \/ \A q : FileExists(tree, q) => FileExists(tree', q)
              \/ /\ RmUnlink(s) /\ sh[s].args # <<>>
                 /\ \A q : FileExists(tree, q) =>
                       \/ FileExists(tree', q)
                       \/ q = ToAbs(s, Head(sh[s].args)) /\ q \notin DOMAIN tree'
<1>1. IsTree(tree) /\ sh \in [Shells -> ShellState]
  BY DEF Typed, Grown
<1>2. ASSUME UNCHANGED tree
      PROVE  IsTree(tree') /\ \A q : FileExists(tree, q) => FileExists(tree', q)
  BY <1>1, <1>2
<1>3. ASSUME NEW p \in Paths, tree' = MkdirAll(tree, p)
      PROVE  IsTree(tree') /\ \A q : FileExists(tree, q) => FileExists(tree', q)
  BY <1>1, <1>3, MkdirAllTree
<1>4. ASSUME NEW p \in Paths, CanOpen(tree, p), tree' = Created(tree, p)
      PROVE  IsTree(tree') /\ \A q : FileExists(tree, q) => FileExists(tree', q)
  BY <1>1, <1>4, CreatedTree
<1>5. sh[s].path \in Paths /\ sh[s].data \in Seq(Bytes)
  BY <1>1 DEF ShellState
<1>6. CASE ReadLine(s) \/ LinesDone(s) \/ Close(s) \/ Sending(s)
  <2>1. UNCHANGED tree
    BY <1>1, <1>6, ReadStep, ClosingStep, SendingStep
  <2>. QED
    BY <1>2, <2>1
<1>7. CASE LineRun(s)
  <2>1. UNCHANGED tree \/ \E p \in Paths : tree' = MkdirAll(tree, Front(p))
    BY <1>7 DEF LineRun
  <2>. QED
    BY <1>2, <1>3, <2>1, FrontPath
<1>8. CASE Receiving(s)
  <2>1. UNCHANGED tree \/ \E p \in Paths : tree' = MkdirAll(tree, p)
    BY <1>8, ReceivingStep DEF Ending, Entering, Leaving, Naming, Passing, Leftover, Failing
  <2>. QED
    BY <1>2, <1>3, <2>1
<1>9. CASE Saving(s)
  <2>1. CASE Writing(s)
    <3>. DEFINE p == sh[s].file
    <3>1. CASE p = NoFile
      BY <1>2, <2>1, <3>1 DEF Writing
    <3>2. CASE p # NoFile
      <4>1. FileExists(tree, p)
        BY <3>2 DEF Grown
      <4>2. tree[p] \in Seq(Bytes)
        BY <1>1, <4>1 DEF FileExists, IsTree
      <4>3. Overwritten(tree[p], sh[s].data) \in Seq(Bytes)
        BY <1>5, <4>2, OverwrittenBytes
      <4>4. tree' = [tree EXCEPT ![p] = Overwritten(tree[p], sh[s].data)]
        BY <2>1, <3>2, <4>1 DEF Writing
      <4>. QED
        BY <1>1, <4>1, <4>3, <4>4, WrittenTree
    <3>. QED
      BY <3>1, <3>2
  <2>2. CASE UNCHANGED tree
    BY <1>2, <2>2
  <2>3. CASE Making(s)
    <3>1. tree' = MkdirAll(tree, Front(sh[s].path))
      BY <2>3 DEF Making
    <3>. QED
      BY <1>3, <1>5, <3>1, FrontPath
  <2>4. CASE Opening(s)
    BY <1>2, <1>4, <1>5, <2>4 DEF Opening
  <2>5. \/ Writing(s) \/ UNCHANGED tree \/ Making(s) \/ Opening(s)
    BY <1>9, SavingStep, DataStep DEF InStep, Storage, Checking, Creating, Copying
  <2>. QED
    BY <2>1, <2>2, <2>3, <2>4, <2>5
<1>10. CASE Filing(s)
  <2>1. CASE RmTest(s)
    BY <1>2, <2>1 DEF RmTest
  <2>2. CASE Open(s)
    <3>1. UNCHANGED tree \/ (CanOpen(tree, sh[s].path) /\ tree' = Created(tree, sh[s].path))
      BY <2>2 DEF Open
    <3>. QED
      BY <1>2, <1>4, <1>5, <3>1
  <2>3. CASE RmUnlink(s)
    <3>. DEFINE p == ToAbs(s, Head(sh[s].args))
    <3>1. At(s, "unlink") /\ tree' = RemoveFile(tree, p)
      BY <2>3 DEF RmUnlink
    <3>2. sh[s].args # <<>> /\ p # Outside
      BY <3>1 DEF Grown
    <3>3. Head(sh[s].args) \in Args
      <4>1. sh[s].args \in Seq(Args)
        BY <1>1 DEF ShellState
      <4>. QED
        BY <3>2, <4>1
    <3>4. p \in Paths
      BY <1>1, <3>2, <3>3, ToAbsPath
    <3>. HIDE DEF p
    <3>5. /\ IsTree(tree')
          /\ \A q : FileExists(tree, q) /\ (q # p \/ q \in DOMAIN tree') => FileExists(tree', q)
      <4>1. /\ IsTree(tree')
            /\ \A q : q # p /\ FileExists(tree, q) => FileExists(tree', q)
            /\ p \in DOMAIN tree' => tree' = tree \/ p \notin DOMAIN tree
        BY <1>1, <3>1, <3>4, RemoveFileTree
      <4>2. FileExists(tree, p) /\ p \in DOMAIN tree' => FileExists(tree', p)
        BY <4>1 DEF FileExists
      <4>. QED
        BY <4>1, <4>2
    <3>. QED
      BY <2>3, <3>2, <3>5 DEF p
  <2>. QED
    BY <1>10, <2>1, <2>2, <2>3 DEF Filing
<1>. QED
  BY <1>6, <1>7, <1>8, <1>9, <1>10, StepKinds

\* A file that a shell has open: a step of its own may open one that is there.
LEMMA OwnFile ==
    ASSUME Typed, Scripted, Paced, InStep, Grown,
           NEW s \in Shells, Shell(s) \/ Sending(s), sh'[s].file # NoFile
    PROVE  /\ sh'[s].pc \in Storing \cup {"data"}
           /\ \/ sh'[s].file = sh[s].file /\ ~ RmUnlink(s)
              \/ FileExists(tree', sh'[s].file)
<1>1. sh \in [Shells -> ShellState] /\ IsTree(tree)
  BY DEF Typed, Grown
<1>2. sh[s].file # NoFile => sh[s].pc \in Storing \cup {"data"}
  BY DEF Grown
<1>3. ASSUME sh[s].pc \notin Storing \cup {"data"}, sh'[s].file = sh[s].file
      PROVE  FALSE
  BY <1>2, <1>3
<1>4. ~ RmUnlink(s)
  <2>1. SUFFICES ASSUME RmUnlink(s) PROVE FALSE
    OBVIOUS
  <2>2. At(s, "unlink") /\ sh[s].args # <<>>
    BY <2>1 DEF RmUnlink, Grown
  <2>3. sh'[s].file = sh[s].file
    BY <1>1, <2>1, <2>2, UnlinkStep DEF Keeps
  <2>. QED
    BY <1>3, <2>2, <2>3 DEF At, Storing
<1>5. CASE ReadLine(s) \/ LinesDone(s) \/ Close(s) \/ LineRun(s)
  <2>1. sh'[s].file = sh[s].file /\ sh[s].pc \in {"read", "line", "close"}
    BY <1>1, <1>5, ReadStep, ClosingStep DEF LineRun, Keeps, At
  <2>. QED
    BY <1>3, <2>1 DEF Storing
<1>6. CASE Sending(s)
  BY <1>2, <1>4, <1>6, SendingStep
<1>7. CASE Receiving(s)
  <2>1. sh'[s].file = sh[s].file /\ At(s, "type")
    BY <1>7, ReceivingStep DEF Keeps
  <2>. QED
    BY <1>3, <2>1 DEF Storing, At
<1>8. CASE Filing(s)
  <2>1. CASE RmTest(s)
    <3>1. At(s, "rm") /\ \E p \in {"line", "unlink"} : Go(s, [pc |-> p])
      BY <2>1 DEF RmTest
    <3>2. sh'[s].file = sh[s].file
      BY <1>1, <3>1, PcStep DEF Keeps, Locations
    <3>. QED
      BY <1>3, <3>1, <3>2 DEF At, Storing
  <2>2. CASE Open(s)
    <3>1. sh[s].pc \in {"touch", "cat"} /\ Go(s, [pc |-> "line"])
      BY <2>2 DEF Open, At
    <3>2. sh'[s].file = sh[s].file
      BY <1>1, <3>1, PcStep DEF Keeps, Locations
    <3>. QED
      BY <1>3, <3>1, <3>2 DEF Storing
  <2>. QED
    BY <1>4, <1>8, <2>1, <2>2 DEF Filing
<1>9. CASE Saving(s)
  <2>1. CASE Opening(s)
    <3>1. CASE sh'[s].pc = "line"
      <4>1. sh'[s].file = sh[s].file /\ At(s, "open")
        BY <2>1, <3>1 DEF Opening
      <4>. QED
        BY <1>3, <4>1 DEF At, Storing
    <3>2. CASE sh'[s].pc # "line"
      <4>1. /\ CanOpen(tree, sh[s].path) /\ tree' = Created(tree, sh[s].path)
            /\ sh'[s].pc = "data" /\ ~ DirExists(tree, sh[s].path)
            /\ sh'[s].file = sh[s].path
        BY <2>1, <3>2 DEF Opening
      <4>2. sh[s].path \in Paths
        BY <1>1 DEF ShellState
      <4>3. FileExists(tree', sh[s].path)
        BY <1>1, <4>1, <4>2, CreatedTree
      <4>. QED
        BY <4>1, <4>3
    <3>. QED
      BY <3>1, <3>2
  <2>2. CASE ScpData(s)
    <3>1. /\ At(s, "data")
          /\ sh'[s].file = NoFile \/ (sh'[s].file = sh[s].file /\ sh'[s].pc = "write")
      BY <2>2, DataStep DEF InStep
    <3>. QED
      BY <1>4, <3>1 DEF Storing
  <2>3. CASE Writing(s) \/ Checking(s) \/ Creating(s) \/ Copying(s)
    <3>1. sh'[s].file = sh[s].file /\ sh'[s].pc \in Storing
      BY <2>3 DEF Writing, Checking, Creating, Copying, Storing
    <3>. QED
      BY <1>4, <3>1
  <2>4. CASE Making(s)
    <3>1. sh'[s].file = sh[s].file /\ At(s, "mkdir")
      BY <2>4 DEF Making
    <3>. QED
      BY <1>3, <3>1 DEF At, Storing
  <2>. QED
    BY <1>9, <2>1, <2>2, <2>3, <2>4, SavingStep DEF InStep, Storage
<1>. QED
  BY <1>5, <1>6, <1>7, <1>8, <1>9, StepKinds

\* What a step leaves of the captures: everything, but for what the shell has
\* in hand, which it may make or write.
MadeCapture(s) ==
    /\ sh'[s].pc = "save" /\ FileExists(captures', sh[s].key)
    /\ captures'[sh[s].key] = <<>>

MadeNone(s) ==
    /\ sh'[s].pc = "done"
    /\ \A q : FileExists(captures', q) =>
              FileExists(captures, q) /\ captures'[q] = captures[q]
    /\ \/ DirExists(captures', sh[s].key)
       \/ \E q \in Prefixes(sh[s].key) \ {sh[s].key} : FileExists(captures', q)
       \/ sh[s].key \in failed'

\* What a step may do to the captures, and which step it is then.
LEMMA CapturesStep ==
    ASSUME Typed, Scripted, Paced, InStep, Grown, Capturing,
           NEW s \in Shells, Shell(s) \/ Sending(s)
    PROVE  /\ IsTree(captures')
           /\ \A q : /\ FileExists(captures, q) => FileExists(captures', q)
                     /\ DirExists(captures, q) => DirExists(captures', q)
                     /\ q # sh[s].key /\ FileExists(captures', q) =>
                           FileExists(captures, q) /\ captures'[q] = captures[q]
           /\ \/ UNCHANGED captures /\ (Sending(s) \/ sh[s].pc \notin {"capture", "save"})
              \/ /\ At(s, "capture") /\ Creating(s) /\ UNCHANGED client
                 /\ MadeCapture(s) \/ MadeNone(s)
              \/ /\ At(s, "save") /\ Copying(s) /\ UNCHANGED client
                 /\ FileExists(captures, sh[s].key)
<1>. DEFINE k == sh[s].key
<1>1. IsTree(captures) /\ sh \in [Shells -> ShellState]
  BY DEF Typed, Grown
<1>2. CASE UNCHANGED captures /\ (Sending(s) \/ sh[s].pc \notin {"capture", "save"})
  BY <1>1, <1>2
<1>3. CASE Creating(s) /\ UNCHANGED client
  <2>. DEFINE parents == MkdirAll(captures, Front(k))
  <2>1. At(s, "capture")
    BY <1>3 DEF Creating
  <2>2. k \in Paths /\ k # Root
    BY <2>1, HeaderKey DEF InStep, InStepStoring, Holding, Storing, At
  <2>3. /\ IsTree(parents)
        /\ \A q : FileExists(captures, q) <=> FileExists(parents, q)
        /\ \A q \in DOMAIN captures : q \in DOMAIN parents /\ parents[q] = captures[q]
        /\ \/ DirExists(parents, Front(k))
           \/ parents = captures /\ \E q \in Prefixes(Front(k)) : FileExists(captures, q)
    BY <1>1, <2>2, FrontPath, MkdirAllTree
  <2>4. \/ /\ CanOpen(parents, k) /\ ~ DirExists(parents, k)
           /\ captures' = Put(parents, [q \in {k} |-> <<>>]) /\ sh'[s].pc = "save"
        \/ /\ ~ (CanOpen(parents, k) /\ ~ DirExists(parents, k))
           /\ captures' = parents /\ sh'[s].pc = "done"
        \/ /\ \E p \in Prefixes(Front(k)) : captures' = MkdirAll(captures, p)
           /\ sh'[s].pc = "done" /\ Fail(s)
    BY <1>3 DEF Creating
  <2>. HIDE DEF parents, k
  <2>5. CASE /\ CanOpen(parents, k) /\ ~ DirExists(parents, k)
             /\ captures' = Put(parents, [q \in {k} |-> <<>>]) /\ sh'[s].pc = "save"
    <3>. DEFINE f == [q \in {k} |-> <<>>]
    <3>1. captures' = Put(parents, f) /\ sh'[s].pc = "save"
      BY <2>5
    <3>2. DOMAIN f = {k} /\ f[k] = <<>>
      OBVIOUS
    <3>3. IsTree(captures')
      BY <2>2, <2>3, <2>5, <3>1, CreatedTree
    <3>. HIDE DEF f
    <3>4. /\ DOMAIN captures' = DOMAIN parents \cup {k}
          /\ captures'[k] = <<>>
          /\ \A p \in DOMAIN parents \ {k} : captures'[p] = parents[p]
      <4>. DEFINE g == Put(parents, f)
      <4>1. /\ DOMAIN g = DOMAIN parents \cup DOMAIN f
            /\ \A p \in DOMAIN f : g[p] = f[p]
            /\ \A p \in DOMAIN parents \ DOMAIN f : g[p] = parents[p]
        BY DEF Put
      <4>. HIDE DEF g
      <4>2. captures' = g
        BY <3>1 DEF g
      <4>. QED
        BY <3>2, <4>1, <4>2
    <3>5. <<>> # Dir
      BY FSAssumption, EmptySeq
    <3>6. FileExists(captures', k) /\ captures'[k] = <<>>
      BY <3>4, <3>5 DEF FileExists
    <3>7. ASSUME NEW q
          PROVE  /\ FileExists(captures, q) => FileExists(captures', q)
                 /\ DirExists(captures, q) => DirExists(captures', q)
                 /\ q # k /\ FileExists(captures', q) =>
                       FileExists(captures, q) /\ captures'[q] = captures[q]
      <4>1. CASE q = k
        BY <2>3, <2>5, <3>6, <4>1 DEF DirExists
      <4>2. CASE q # k
        <5>1. FileExists(captures', q) => q \in DOMAIN parents /\ captures'[q] = parents[q]
          BY <3>4, <4>2 DEF FileExists
        <5>2. FileExists(captures', q) => FileExists(parents, q)
          BY <5>1 DEF FileExists
        <5>3. q \in DOMAIN captures => q \in DOMAIN captures' /\ captures'[q] = captures[q]
          BY <2>3, <3>4, <4>2
        <5>4. FileExists(captures', q) => q \in DOMAIN captures
          BY <2>3, <5>2 DEF FileExists
        <5>. QED
          BY <2>3, <5>2, <5>3, <5>4 DEF FileExists, DirExists
      <4>. QED
        BY <4>1, <4>2
    <3>8. MadeCapture(s)
      BY <3>1, <3>6 DEF MadeCapture, k
    <3>. QED
      BY <1>3, <2>1, <3>3, <3>7, <3>8 DEF k
  <2>6. CASE /\ ~ (CanOpen(parents, k) /\ ~ DirExists(parents, k))
             /\ captures' = parents /\ sh'[s].pc = "done"
    <3>1. captures' = parents /\ sh'[s].pc = "done"
      BY <2>6
    <3>2. \A q : /\ FileExists(captures, q) <=> FileExists(captures', q)
                 /\ DirExists(captures, q) => DirExists(captures', q)
                 /\ FileExists(captures', q) => captures'[q] = captures[q]
      BY <2>3, <3>1 DEF FileExists, DirExists
    <3>3. \/ DirExists(captures', k)
          \/ \E q \in Prefixes(k) \ {k} : FileExists(captures', q)
      <4>1. CASE DirExists(parents, k)
        BY <3>1, <4>1
      <4>2. CASE ~ CanOpen(parents, k)
        <5>1. ~ DirExists(parents, Front(k))
          BY <2>2, <4>2 DEF CanOpen
        <5>2. \E q \in Prefixes(Front(k)) : FileExists(captures, q)
          BY <2>3, <5>1
        <5>. QED
          BY <2>2, <3>2, <5>2, PrefixesOfParent
      <4>. QED
        BY <2>6, <4>1, <4>2
    <3>4. MadeNone(s)
      BY <3>1, <3>2, <3>3 DEF MadeNone, k
    <3>. QED
      BY <1>3, <2>1, <2>3, <3>1, <3>2, <3>4 DEF k
  <2>7. CASE /\ \E p \in Prefixes(Front(k)) : captures' = MkdirAll(captures, p)
             /\ sh'[s].pc = "done" /\ Fail(s)
    <3>1. PICK p \in Prefixes(Front(k)) : captures' = MkdirAll(captures, p)
      BY <2>7
    <3>2. p \in Paths
      BY <2>2, <3>1, FrontPath, PathPrefixes
    <3>3. /\ IsTree(captures')
          /\ \A q : FileExists(captures, q) <=> FileExists(captures', q)
          /\ \A q \in DOMAIN captures : q \in DOMAIN captures' /\ captures'[q] = captures[q]
      BY <1>1, <3>1, <3>2, MkdirAllTree
    <3>4. \A q : /\ DirExists(captures, q) => DirExists(captures', q)
                 /\ FileExists(captures', q) => captures'[q] = captures[q]
      BY <3>3 DEF FileExists, DirExists
    <3>5. MadeNone(s)
      BY <2>7, <3>3, <3>4 DEF MadeNone, Fail, k
    <3>. QED
      BY <1>3, <2>1, <3>3, <3>4, <3>5 DEF k
  <2>. QED
    BY <2>4, <2>5, <2>6, <2>7
<1>4. CASE Copying(s) /\ UNCHANGED client
  <2>1. /\ At(s, "save")
        /\ \E data \in Prefixes(sh[s].data) :
              captures' = [captures EXCEPT ![k] = Overwritten(@, data)]
    BY <1>4 DEF Copying
  <2>2. FileExists(captures, k)
    BY <2>1 DEF Capturing, Captures
  <2>3. captures[k] \in Seq(Bytes)
    BY <1>1, <2>2 DEF FileExists, IsTree
  <2>9. PICK data \in Prefixes(sh[s].data) :
           captures' = [captures EXCEPT ![k] = Overwritten(@, data)]
    BY <2>1
  <2>4. Overwritten(captures[k], data) \in Seq(Bytes)
    <3>1. sh[s].data \in Seq(Bytes)
      BY <1>1 DEF ShellState
    <3>2. data \in Seq(Bytes)
      BY <3>1, PrefixesOfBytes
    <3>. QED
      BY <2>3, <3>2, OverwrittenBytes
  <2>5. captures' = [captures EXCEPT ![k] = Overwritten(captures[k], data)]
    BY <2>9
  <2>6. /\ IsTree(captures')
        /\ \A q : /\ FileExists(captures, q) <=> FileExists(captures', q)
                  /\ DirExists(captures, q) <=> DirExists(captures', q)
    BY <1>1, <2>2, <2>4, <2>5, WrittenTree
  <2>7. \A q : q # k => captures'[q] = captures[q] \/ q \notin DOMAIN captures
    BY <2>5
  <2>. HIDE DEF k
  <2>8. \A q : /\ q # k /\ FileExists(captures', q) =>
                      FileExists(captures, q) /\ captures'[q] = captures[q]
    BY <2>6, <2>7 DEF FileExists
  <2>. QED
    BY <1>4, <2>1, <2>2, <2>6, <2>8 DEF k
<1>5. \/ UNCHANGED captures /\ (Sending(s) \/ sh[s].pc \notin {"capture", "save"})
      \/ Creating(s) /\ UNCHANGED client
      \/ Copying(s) /\ UNCHANGED client
  <2>1. CASE ReadLine(s) \/ LinesDone(s) \/ Close(s)
    BY <1>1, <2>1, ReadStep, ClosingStep DEF At, Typed
  <2>2. CASE LineRun(s)
    BY <2>2 DEF LineRun, At
  <2>3. CASE Filing(s)
    BY <2>3, FilingStep
  <2>4. CASE Receiving(s)
    BY <2>4, ReceivingStep DEF At
  <2>5. CASE Saving(s)
    <3>1. CASE Storage(s) /\ UNCHANGED client
      BY <3>1 DEF Storage, Making, Opening, Writing, Checking, Creating, Copying, At
    <3>2. CASE ScpData(s)
      BY <3>2, DataStep DEF InStep, At
    <3>3. CASE At(s, "done") /\ UNCHANGED captures
      BY <3>3 DEF At
    <3>. QED
      BY <2>5, <3>1, <3>2, <3>3, SavingStep DEF InStep
  <2>6. CASE Sending(s)
    BY <2>6, SendingStep
  <2>. QED
    BY <2>1, <2>2, <2>3, <2>4, <2>5, <2>6, StepKinds
<1>. QED
  BY <1>2, <1>3, <1>4, <1>5

\* The trees stay trees, a shell has open what is in the tree, and rm has
\* tested its argument.
LEMMA GrownStep ==
    ASSUME Typed, Scripted, Paced, InStep, Grown, Capturing,
           NEW s \in Shells, Shell(s) \/ Sending(s)
    PROVE  Grown'
<1>1. IsTree(tree') /\ IsTree(captures')
  BY TreeStep, CapturesStep
<1>2. sh \in [Shells -> ShellState] /\ NoFile \notin Paths
  BY PlansAssumption DEF Typed
<1>3. \A r \in Shells \ {s} : Keeps(r, {"cwd", "pc", "args"})
  BY StepFrame DEF InStep, Keeps, ScriptFields
<1>4. ASSUME NEW r \in Shells, sh'[r].file # NoFile
      PROVE  FileExists(tree', sh'[r].file) /\ sh'[r].pc \in Storing \cup {"data"}
  <2>1. CASE r = s
    <3>1. /\ sh'[s].pc \in Storing \cup {"data"}
          /\ \/ sh'[s].file = sh[s].file /\ ~ RmUnlink(s)
             \/ FileExists(tree', sh'[s].file)
      BY <1>4, <2>1, OwnFile
    <3>2. sh'[s].file = sh[s].file => FileExists(tree, sh'[s].file)
      BY <1>4, <2>1 DEF Grown
    <3>3. RmUnlink(s) \/ \A q : FileExists(tree, q) => FileExists(tree', q)
      BY TreeStep
    <3>. QED
      BY <2>1, <3>1, <3>2, <3>3
  <2>2. CASE r # s
    <3>. DEFINE p == ToAbs(s, Head(sh[s].args))
    <3>1. CASE RmUnlink(s)
      <4>1. sh[s].args # <<>>
        BY <3>1 DEF RmUnlink, Grown
      <4>2. /\ sh'[r].file = sh[r].file
            /\ sh[r].file # p \/ sh[r].file \in DOMAIN tree'
        BY <1>2, <1>4, <2>2, <3>1, <4>1, UnlinkStep
      <4>3. FileExists(tree, sh[r].file)
        BY <1>4, <4>2 DEF Grown
      <4>4. \A q : FileExists(tree, q) =>
               FileExists(tree', q) \/ (q = p /\ q \notin DOMAIN tree')
        BY TreeStep
      <4>. HIDE DEF p
      <4>5. FileExists(tree', sh[r].file)
        BY <4>2, <4>3, <4>4
      <4>6. sh[r].pc \in Storing \cup {"data"} /\ sh'[r].pc = sh[r].pc
        BY <1>3, <1>4, <2>2, <4>2 DEF Grown, Keeps
      <4>. QED
        BY <4>2, <4>5, <4>6
    <3>2. CASE ~ RmUnlink(s)
      <4>1. sh'[r] = sh[r]
        BY <2>2, <3>2, OthersStay
      <4>2. FileExists(tree, sh[r].file) /\ sh[r].pc \in Storing \cup {"data"}
        BY <1>4, <4>1 DEF Grown
      <4>3. FileExists(tree', sh[r].file)
        BY <3>2, <4>2, TreeStep
      <4>. QED
        BY <4>1, <4>2, <4>3
    <3>. QED
      BY <3>1, <3>2
  <2>. QED
    BY <2>1, <2>2
<1>5. ASSUME NEW r \in Shells, At(r, "unlink")'
      PROVE  (sh[r].args # <<>> /\ ToAbs(r, Head(sh[r].args)) # Outside)'
  <2>1. CASE /\ sh[r].args # <<>> /\ ToAbs(r, Head(sh[r].args)) # Outside
             /\ sh'[r].args = sh[r].args /\ sh'[r].cwd = sh[r].cwd
    <3>1. ToAbs(r, Head(sh[r].args))' = ToAbs(r, Head(sh[r].args))
      BY <2>1 DEF ToAbs
    <3>. QED
      BY <2>1, <3>1
  <2>2. CASE r # s
    <3>1. sh'[r].args = sh[r].args /\ sh'[r].cwd = sh[r].cwd /\ sh'[r].pc = sh[r].pc
      BY <1>3, <2>2 DEF Keeps
    <3>2. sh[r].args # <<>> /\ ToAbs(r, Head(sh[r].args)) # Outside
      BY <1>5, <3>1 DEF Grown, At
    <3>. QED
      BY <2>1, <3>1, <3>2
  <2>3. CASE r = s
    <3>1. sh'[s].pc = "unlink"
      BY <1>5, <2>3 DEF At
    <3>2. ~ ReadLine(s) /\ ~ LinesDone(s) /\ ~ Close(s) /\ ~ LineRun(s)
      <4>1. ~ ReadLine(s)
        BY <1>2, <3>1, ReadStep
      <4>2. ~ LinesDone(s) /\ ~ Close(s)
        BY <3>1, ClosingStep
      <4>. QED
        BY <3>1, <4>1, <4>2 DEF LineRun
    <3>3. ~ Receiving(s) /\ ~ Saving(s)
      <4>1. ~ Receiving(s)
        BY <3>1, ReceivingStep
           DEF Ending, Failing, Leftover, Entering, Leaving, Passing, Naming, Keeps, At
      <4>2. ~ Saving(s)
        BY <3>1, SavingStep, DataStep
           DEF InStep, Storage, Making, Opening, Writing, Checking, Creating, Copying
      <4>. QED
        BY <4>1, <4>2
    <3>4. CASE Filing(s)
      <4>1. /\ sh[s].args # <<>> /\ sh'[s].args = sh[s].args
            /\ ToAbs(s, Head(sh[s].args)) # Outside /\ sh'[s].cwd = sh[s].cwd
        BY <1>5, <2>3, <3>4, FilingStep DEF Steady, Keeps, ScriptFields
      <4>. QED
        BY <2>1, <2>3, <4>1
    <3>5. CASE Sending(s)
      <4>1. UNCHANGED sh
        BY <3>5, SendingStep
      <4>2. sh[s].args # <<>> /\ ToAbs(s, Head(sh[s].args)) # Outside
        BY <3>1, <4>1 DEF Grown, At
      <4>. QED
        BY <2>1, <2>3, <4>1, <4>2
    <3>. QED
      BY <3>2, <3>3, <3>4, <3>5, StepKinds
  <2>. QED
    BY <2>2, <2>3
<1>. QED
  BY <1>1, <1>4, <1>5 DEF Grown

\* One more line in a history: whether it counts.
LEMMA CountedAppend ==
    ASSUME NEW h \in Seq(Lines), NEW l \in Lines
    PROVE  /\ Counted(Append(h, l)) =
                 IF Rule(l) \in {"blank", "exit"} THEN Counted(h)
                                                 ELSE Counted(h) \cup {Len(h) + 1}
           /\ Len(h) + 1 \notin Counted(h)
<1>. DEFINE g == Append(h, l)
<1>1. /\ DOMAIN h = 1..Len(h) /\ Len(h) \in Nat /\ DOMAIN g = 1..(Len(h) + 1)
      /\ \A i \in 1..Len(h) : g[i] = h[i]
      /\ g[Len(h) + 1] = l
  BY AppendProperties
<1>. HIDE DEF g
<1>2. DOMAIN g = DOMAIN h \cup {Len(h) + 1} /\ Len(h) + 1 \notin DOMAIN h
  BY <1>1
<1>3. Counted(g) = IF Rule(l) \in {"blank", "exit"} THEN Counted(h)
                                                   ELSE Counted(h) \cup {Len(h) + 1}
  BY <1>1, <1>2 DEF Counted
<1>4. Len(h) + 1 \notin Counted(h)
  BY <1>2 DEF Counted
<1>. QED
  BY <1>3, <1>4 DEF g

\* The counter counts the lines of all shells.
AllCounted == UNION {{s} \X Counted(sh[s].history) : s \in Shells}

\* The counter of a line that is run counts it in the history of that shell alone.
LEMMA CountStep ==
    ASSUME Typed, Scripted, Paced, InStep, Grown, Recording, NEW s \in Shells, LineRun(s)
    PROVE  (IsFiniteSet(AllCounted) /\ executed = Cardinality(AllCounted))'
<1>. DEFINE h == sh[s].history
            l == Head(sh[s].lines)
            x == <<s, Len(h) + 1>>
<1>1. /\ sh'[s].history = Append(h, l) /\ Count(l)
      /\ \A r \in Shells \ {s} : sh'[r] = sh[r]
  BY DEF LineRun
<1>2. h \in Seq(Lines) /\ l \in Lines
  <2>1. sh[s].lines # <<>>
    BY DEF LineRun
  <2>2. sh[s] \in ShellState
    BY DEF Typed
  <2>. QED
    BY <2>1, <2>2, LineTyped DEF Typed, ShellState
<1>3. IsFiniteSet(AllCounted) /\ executed = Cardinality(AllCounted)
  BY DEF Recording, AllCounted
<1>4. /\ Counted(sh'[s].history) = IF Rule(l) \in {"blank", "exit"} THEN Counted(h)
                                   ELSE Counted(h) \cup {Len(h) + 1}
      /\ Len(h) + 1 \notin Counted(h)
  BY <1>1, <1>2, CountedAppend
<1>. HIDE DEF l
<1>5. CASE Rule(l) \in {"blank", "exit"}
  <2>1. \A r \in Shells : Counted(sh'[r].history) = Counted(sh[r].history)
    BY <1>1, <1>4, <1>5
  <2>2. AllCounted' = AllCounted
    BY <2>1 DEF AllCounted
  <2>3. executed' = executed
    BY <1>1, <1>5 DEF Count
  <2>. QED
    BY <1>3, <2>2, <2>3
<1>6. CASE Rule(l) \notin {"blank", "exit"}
  <2>1. executed' = executed + 1
    BY <1>1, <1>6 DEF Count
  <2>2. x \notin AllCounted
    BY <1>4 DEF AllCounted
  <2>3. AllCounted' = AllCounted \cup {x}
    <3>1. ASSUME NEW y PROVE y \in AllCounted' <=> y \in AllCounted \/ y = x
      <4>1. y \in AllCounted' <=> \E r \in Shells : y \in {r} \X Counted(sh'[r].history)
        BY DEF AllCounted
      <4>2. y \in AllCounted <=> \E r \in Shells : y \in {r} \X Counted(sh[r].history)
        BY DEF AllCounted
      <4>3. y \in {s} \X Counted(sh'[s].history) <=>
               y \in {s} \X Counted(sh[s].history) \/ y = x
        BY <1>4, <1>6
      <4>4. \A r \in Shells \ {s} : sh'[r].history = sh[r].history
        BY <1>1
      <4>. HIDE DEF x, h
      <4>. QED
        BY <4>1, <4>2, <4>3, <4>4
    <3>. QED
      BY <3>1
  <2>. HIDE DEF x
  <2>4. IsFiniteSet(AllCounted \cup {x}) /\ Cardinality(AllCounted \cup {x}) = Cardinality(AllCounted) + 1
    BY <1>3, <2>2, FS_AddElement
  <2>. QED
    BY <1>3, <2>1, <2>3, <2>4
<1>. QED
  BY <1>5, <1>6

\* A shell that runs no line keeps its records.
LEMMA RecordsKept ==
    ASSUME NEW r \in Shells, Records(r), sh'[r].history = sh[r].history,
           sh[r].pc \in {"close", "ended", "panicked"} =>
              sh'[r].pc \in {"close", "ended", "panicked"},
           sh'[r].pc \in {"close", "ended"} =>
              \/ client'[r].end = "cut"
              \/ sh'[r].lines = <<>> /\ sh'[r].queue = <<>>
              \/ sh[r].history # <<>> /\ Rule(Last(sh[r].history)) = "exit"
    PROVE  Records(r)'
<1>. DEFINE h == sh[r].history
<1>1. \A i \in DOMAIN h : Rule(h[i]) = "exit" =>
            i = Len(h) /\ sh[r].pc \in {"close", "ended", "panicked"}
  BY DEF Records
<1>2. h' = h
  OBVIOUS
<1>. HIDE DEF h
<1>3. /\ \A i \in DOMAIN h' : Rule(h'[i]) = "exit" =>
            i = Len(h') /\ sh'[r].pc \in {"close", "ended", "panicked"}
      /\ sh'[r].pc \in {"close", "ended"} =>
             \/ client'[r].end = "cut"
             \/ sh'[r].lines = <<>> /\ sh'[r].queue = <<>>
             \/ h' # <<>> /\ Rule(Last(h')) = "exit"
  <2>1. /\ \A i \in DOMAIN h' : Rule(h'[i]) = "exit" =>
              i = Len(h') /\ sh'[r].pc \in {"close", "ended", "panicked"}
    BY <1>1, <1>2
  <2>2. sh'[r].pc \in {"close", "ended"} =>
             \/ client'[r].end = "cut"
             \/ sh'[r].lines = <<>> /\ sh'[r].queue = <<>>
             \/ h' # <<>> /\ Rule(Last(h')) = "exit"
    BY <1>2 DEF h
  <2>. QED
    BY <2>1, <2>2
<1>. QED
  BY <1>3 DEF Records, h

\* A shell that runs a line records it.
LEMMA RecordsRun ==
    ASSUME Typed, Recording, NEW s \in Shells, LineRun(s)
    PROVE  Records(s)'
<1>. DEFINE h == sh[s].history
            l == Head(sh[s].lines)
            g == sh'[s].history
<1>1. /\ At(s, "line") /\ sh[s].lines # <<>> /\ g = Append(h, l)
      /\ sh'[s].pc = "close" <=> Rule(l) = "exit"
      /\ sh'[s].pc # "ended"
  BY DEF LineRun
<1>2. \A i \in DOMAIN h : Rule(h[i]) # "exit"
  BY <1>1 DEF Recording, Records, At
<1>3. h \in Seq(Lines) /\ l \in Lines
  <2>1. sh[s] \in ShellState /\ sh \in [Shells -> ShellState]
    BY DEF Typed
  <2>. QED
    BY <1>1, <2>1, LineTyped DEF ShellState
<1>4. /\ DOMAIN h = 1..Len(h) /\ Len(h) \in Nat /\ DOMAIN g = 1..(Len(h) + 1)
      /\ \A i \in 1..Len(h) : g[i] = h[i]
      /\ g[Len(h) + 1] = l /\ Len(g) = Len(h) + 1 /\ g # <<>> /\ g \in Seq(Lines)
  BY <1>1, <1>3, AppendProperties
<1>. HIDE DEF h, l, g
<1>5. ASSUME NEW i \in DOMAIN g, Rule(g[i]) = "exit"
      PROVE  i = Len(g) /\ sh'[s].pc \in {"close", "ended", "panicked"}
  <2>1. i = Len(h) + 1
    BY <1>2, <1>4, <1>5
  <2>. QED
    BY <1>1, <1>4, <1>5, <2>1
<1>6. sh'[s].pc \in {"close", "ended"} => g # <<>> /\ Rule(Last(g)) = "exit"
  BY <1>1, <1>4 DEF Last
<1>. QED
  BY <1>5, <1>6 DEF Records, g

\* Lines are recorded as they are run, and counted.
LEMMA RecordingStep ==
    ASSUME Typed, Scripted, Paced, InStep, Grown, Recording,
           NEW s \in Shells, Shell(s) \/ Sending(s)
    PROVE  Recording'
<1>1. /\ UNCHANGED plan
      /\ \A r \in Shells \ {s} : /\ Keeps(r, ScriptFields \cup {"pc"})
                                 /\ client'[r] = client[r]
  BY StepFrame DEF InStep, Keeps
<1>2. ASSUME NEW r \in Shells \ {s} PROVE Records(r)'
  <2>1. /\ sh'[r].history = sh[r].history
        /\ sh'[r].pc = sh[r].pc /\ sh'[r].lines = sh[r].lines /\ sh'[r].queue = sh[r].queue
        /\ client'[r] = client[r]
    BY <1>1 DEF Keeps, ScriptFields
  <2>2. Records(r)
    BY DEF Recording
  <2>3. sh'[r].pc \in {"close", "ended"} =>
           \/ client'[r].end = "cut"
           \/ sh'[r].lines = <<>> /\ sh'[r].queue = <<>>
           \/ sh[r].history # <<>> /\ Rule(Last(sh[r].history)) = "exit"
    BY <2>1, <2>2 DEF Records
  <2>. QED
    BY <2>1, <2>2, <2>3, RecordsKept
<1>3. IsFiniteSet(AllCounted) /\ executed = Cardinality(AllCounted)
  BY DEF Recording, AllCounted
<1>4. ASSUME Keeps(s, {"history"}), UNCHANGED executed
      PROVE  (IsFiniteSet(AllCounted) /\ executed = Cardinality(AllCounted))'
  <2>1. \A r \in Shells : sh'[r].history = sh[r].history
    BY <1>1, <1>4 DEF Keeps, ScriptFields
  <2>2. AllCounted' = AllCounted
    BY <2>1 DEF AllCounted
  <2>. QED
    BY <1>3, <1>4, <2>2
<1>5. Records(s)
  BY DEF Recording
<1>. SUFFICES Records(s)' /\ (IsFiniteSet(AllCounted) /\ executed = Cardinality(AllCounted))'
  BY <1>2 DEF Recording, AllCounted
<1>6. CASE LineRun(s)
  BY <1>6, RecordsRun, CountStep
<1>7. CASE ReadLine(s)
  <2>1. /\ At(s, "read") /\ Keeps(s, {"history"}) /\ UNCHANGED <<client, executed>>
        /\ \/ sh'[s].pc = "line" \/ sh'[s].pc = "panicked"
           \/ /\ sh'[s].pc = "close" /\ client[s].end # "open"
              /\ sh'[s].lines = sh[s].lines /\ sh'[s].queue = sh[s].queue
    BY <1>7, ReadStep DEF Typed, Keeps
  <2>2. sh'[s].history = sh[s].history
    BY <2>1 DEF Keeps
  <2>3. sh[s].lines = <<>> /\ ~ plan[s].exec
    BY <2>1 DEF Scripted, OnScript
  <2>4. client[s].end = "eof" => sh[s].queue = <<>>
    BY <2>3 DEF Paced, Waits
  <2>5. client[s].end \in {"open", "eof", "cut"}
    BY DEF Typed
  <2>6. sh'[s].pc \in {"close", "ended"} =>
           client'[s].end = "cut" \/ (sh'[s].lines = <<>> /\ sh'[s].queue = <<>>)
    BY <2>1, <2>3, <2>4, <2>5
  <2>7. Records(s)'
    BY <1>5, <2>1, <2>2, <2>6, RecordsKept DEF At
  <2>. QED
    BY <1>4, <2>1, <2>7 DEF Keeps
<1>8. CASE LinesDone(s) \/ Close(s)
  <2>1. /\ Keeps(s, {"history", "lines", "queue"}) /\ UNCHANGED <<client, executed>>
        /\ \/ At(s, "line") /\ sh[s].lines = <<>>
              /\ sh'[s].pc = IF plan[s].exec THEN "close" ELSE "read"
           \/ At(s, "close") /\ sh'[s].pc \in {"ended", "panicked"}
    BY <1>8, ClosingStep DEF Keeps, ScriptFields
  <2>2. /\ sh'[s].history = sh[s].history
        /\ sh'[s].lines = sh[s].lines /\ sh'[s].queue = sh[s].queue
    BY <2>1 DEF Keeps
  <2>3. plan[s].exec => sh[s].queue = <<>>
    BY DEF Scripted, OnScript
  <2>4. sh'[s].pc \in {"close", "ended"} =>
           \/ client'[s].end = "cut"
           \/ sh'[s].lines = <<>> /\ sh'[s].queue = <<>>
           \/ sh[s].history # <<>> /\ Rule(Last(sh[s].history)) = "exit"
    BY <1>5, <2>1, <2>2, <2>3 DEF Records, At
  <2>5. Records(s)'
    BY <1>5, <2>1, <2>2, <2>4, RecordsKept DEF At
  <2>. QED
    BY <1>4, <2>1, <2>5 DEF Keeps
<1>9. CASE Filing(s) \/ Receiving(s) \/ Saving(s)
  <2>1. /\ Keeps(s, ScriptFields) /\ UNCHANGED executed
        /\ sh'[s].pc \notin {"close", "ended"}
        /\ sh[s].pc \in {"rm", "unlink", "touch", "cat", "type"} \cup Awaiting \cup Storing
    BY <1>9, SteadyMoves DEF Steady
  <2>2. sh[s].pc \notin {"close", "ended", "panicked"}
    BY <2>1 DEF Awaiting, Storing
  <2>3. sh'[s].history = sh[s].history
    BY <2>1 DEF Keeps, ScriptFields
  <2>4. Records(s)'
    BY <1>5, <2>1, <2>2, <2>3, RecordsKept
  <2>. QED
    BY <1>4, <2>1, <2>4 DEF Keeps, ScriptFields
<1>10. CASE Sending(s)
  <2>1. UNCHANGED <<sh, executed>> /\ client[s].end = "open"
    BY <1>10, SendingStep
  <2>2. sh'[s].pc \in {"close", "ended"} =>
           \/ client'[s].end = "cut"
           \/ sh'[s].lines = <<>> /\ sh'[s].queue = <<>>
           \/ sh[s].history # <<>> /\ Rule(Last(sh[s].history)) = "exit"
    BY <1>5, <2>1 DEF Records
  <2>3. Records(s)'
    BY <1>5, <2>1, <2>2, RecordsKept
  <2>. QED
    BY <1>4, <2>1, <2>3 DEF Keeps
<1>. QED
  BY <1>6, <1>7, <1>8, <1>9, <1>10, StepKinds

\* What becomes of a client, and of the target of its upload.
LEMMA ClientStep ==
    ASSUME Typed, Scripted, Paced, InStep, Grown,
           NEW s \in Shells, Shell(s) \/ Sending(s)
    PROVE  LET c == client[s]
               d == client'[s]
           IN /\ sh'[s].target = sh[s].target \/ (c.acks = 0 /\ d.sent = c.sent)
              /\ c.end = "open" \/ d.end = c.end
              /\ \/ d.acks = c.acks /\ (d.sent = c.sent \/ d.sent = c.sent + 1)
                 \/ d.acks = c.acks + 1 /\ d.sent = c.sent
<1>1. CASE UNCHANGED client /\ sh'[s].target = sh[s].target
  BY <1>1
<1>2. CASE Ack(s) /\ (sh'[s].target = sh[s].target \/ client[s].acks = 0)
  BY <1>2, AckStep
<1>3. CASE Sending(s)
  BY <1>3, SendingStep
<1>4. CASE ReadLine(s) \/ LinesDone(s) \/ Close(s)
  <2>1. UNCHANGED client /\ Keeps(s, {"target"})
    BY <1>4, ReadStep, ClosingStep DEF Typed, Keeps, ScriptFields
  <2>. QED
    BY <1>1, <2>1 DEF Keeps
<1>5. CASE LineRun(s)
  <2>1. CASE sh'[s].pc = "type"
    <3>1. IsSink(Head(sh[s].lines)) /\ Ack(s) /\ sh[s].lines # <<>>
      BY <1>5, <2>1 DEF LineRun
    <3>2. client[s].acks = 0
      BY <3>1, NextLine
    <3>. QED
      BY <1>2, <3>1, <3>2
  <2>2. CASE sh'[s].pc # "type"
    <3>1. UNCHANGED client /\ sh'[s].target = sh[s].target
      BY <1>5, <2>2 DEF LineRun
    <3>. QED
      BY <1>1, <3>1
  <2>. QED
    BY <2>1, <2>2
<1>6. CASE Filing(s) \/ Receiving(s) \/ Saving(s)
  <2>1. sh'[s].target = sh[s].target
    BY <1>6, SteadyMoves DEF Steady, Keeps, ScriptFields
  <2>2. UNCHANGED client \/ Ack(s)
    BY <1>6, FilingStep, ReceivingStep, SavingStep DEF InStep
  <2>. QED
    BY <1>1, <1>2, <2>1, <2>2
<1>. QED
  BY <1>3, <1>4, <1>5, <1>6, StepKinds

\* Offers are made once and for all: their names stay, and what is seen of them.
Standing(r) ==
    /\ Offers(r) \subseteq Offers(r)'
    /\ \A n \in Offers(r) : Name(r, n)' = Name(r, n) /\ Sent(r, n) \subseteq Sent(r, n)'
    /\ \A n \in Offers(r)' : n \in Offers(r) \/ n = client[r].sent + 1

\* An offer is a part that has been sent, and its contents are bytes.
LEMMA OfferFacts ==
    ASSUME Typed, Paced, NEW r \in Shells, NEW n \in Offers(r)
    PROVE  /\ n \in 1..Len(plan[r].upload) /\ plan[r].upload[n].t = "C"
           /\ n \in Nat \ {0} /\ n <= client[r].sent /\ client[r].sent \in Nat
           /\ client[r].acks \in Nat /\ Sent(r, n) \subseteq Seq(Bytes)
<1>1. /\ client[r].sent \in Nat /\ client[r].acks \in Nat /\ Len(plan[r].upload) \in Nat
  BY UploadFacts DEF Typed
<1>2. n \in 1..client[r].sent /\ plan[r].upload[n].t = "C"
  BY DEF Offers
<1>3. client[r].sent <= Len(plan[r].upload)
  BY DEF Paced, Waits
<1>4. n \in 1..Len(plan[r].upload)
  BY <1>1, <1>2, <1>3
<1>. QED
  BY <1>1, <1>2, <1>4, SentGrows

\* No step takes an offer back.
LEMMA OffersStep ==
    ASSUME Typed, Scripted, Paced, InStep, Grown,
           NEW s \in Shells, Shell(s) \/ Sending(s), NEW r \in Shells
    PROVE  Standing(r)
<1>. DEFINE c == client[r]
            d == client'[r]
<1>1. /\ UNCHANGED plan /\ c.sent \in Nat /\ c.acks \in Nat
  BY StepFrame DEF InStep, Typed
<1>2. /\ sh'[r].target = sh[r].target \/ (c.acks = 0 /\ d.sent = c.sent)
      /\ c.end = "open" \/ d.end = c.end
      /\ d.sent = c.sent \/ d.sent = c.sent + 1
  <2>1. CASE r = s
    BY <2>1, ClientStep
  <2>2. CASE r # s
    BY <2>2, StepFrame DEF InStep, Keeps, ScriptFields
  <2>. QED
    BY <2>1, <2>2
<1>3. c.acks = 0 => c.sent = 0
  BY <1>1 DEF Paced, Waits
<1>4. /\ Offers(r) = {n \in 1..c.sent : plan[r].upload[n].t = "C"}
      /\ Offers(r)' = {n \in 1..d.sent : plan'[r].upload[n].t = "C"}
  BY DEF Offers
<1>5. ASSUME NEW n \in Offers(r)
      PROVE  /\ n \in Offers(r)' /\ Name(r, n)' = Name(r, n)
             /\ Sent(r, n) \subseteq Sent(r, n)'
  <2>1. /\ n \in 1..Len(plan[r].upload) /\ plan[r].upload[n].t = "C"
        /\ n \in Nat \ {0} /\ n <= c.sent
    BY OfferFacts
  <2>2. sh'[r].target = sh[r].target
    BY <1>1, <1>2, <1>3, <2>1
  <2>3. Name(r, n)' = Name(r, n)
    BY <1>1, <2>2, SameNames
  <2>4. Sent(r, n) \subseteq Sent(r, n)'
    BY <1>1, <1>2, <2>1, <2>2, FailedStep, SentGrows
  <2>5. n \in 1..d.sent
    <3>. HIDE DEF c, d
    <3>. QED
      BY <1>1, <1>2, <2>1
  <2>. QED
    BY <1>1, <1>4, <2>1, <2>3, <2>4, <2>5
<1>6. ASSUME NEW n \in Offers(r)'
      PROVE  n \in Offers(r) \/ n = c.sent + 1
  <2>1. n \in 1..d.sent /\ plan[r].upload[n].t = "C"
    BY <1>1, <1>4, <1>6
  <2>2. n \in 1..c.sent \/ n = c.sent + 1
    <3>. HIDE DEF c, d
    <3>. QED
      BY <1>1, <1>2, <2>1
  <2>. QED
    BY <1>4, <2>1, <2>2
<1>. QED
  BY <1>5, <1>6 DEF Standing

\* So a name nobody else is offered was so before, and the first offer of a
\* name stays the first.
LEMMA StandingNames ==
    ASSUME Typed, Paced, \A r \in Shells : Standing(r), NEW s \in Shells, NEW k
    PROVE  /\ Alone(s, k)' => Alone(s, k)
           /\ \A n : First(s, k, n) => First(s, k, n)'
<1>1. ASSUME Alone(s, k)' PROVE Alone(s, k)
  <2>1. SUFFICES ASSUME NEW r \in Shells \ {s}, NEW m \in Offers(r) PROVE Name(r, m) # k
    BY DEF Alone
  <2>2. m \in Offers(r)' /\ Name(r, m)' = Name(r, m)
    BY DEF Standing
  <2>. QED
    BY <1>1, <2>2 DEF Alone
<1>2. ASSUME NEW n, First(s, k, n) PROVE First(s, k, n)'
  <2>1. /\ n \in Offers(s) /\ Name(s, n) = k
        /\ \A m \in Offers(s) : Name(s, m) = k => n <= m
    BY <1>2 DEF First
  <2>2. n \in Offers(s)' /\ Name(s, n)' = k
    BY <2>1 DEF Standing
  <2>3. ASSUME NEW m \in Offers(s)', Name(s, m)' = k PROVE n <= m
    <3>1. CASE m \in Offers(s)
      BY <2>1, <2>3, <3>1 DEF Standing
    <3>2. CASE m = client[s].sent + 1
      <4>1. n \in Nat /\ n <= client[s].sent /\ client[s].sent \in Nat
        BY <2>1, OfferFacts
      <4>. QED
        BY <3>2, <4>1
    <3>. QED
      BY <2>3, <3>1, <3>2 DEF Standing
  <2>. QED
    BY <2>2, <2>3 DEF First
<1>. QED
  BY <1>1, <1>2

\* The file in hand has been offered.
LEMMA InHand ==
    ASSUME Typed, InStep, NEW r \in Shells, sh[r].pc \in Awaiting \cup Storing
    PROVE  LET n == client[r].acks - 1
           IN /\ OnHeader(r) /\ n \in Offers(r) /\ sh[r].key = Name(r, n)
              /\ n \in Nat /\ n + 1 = client[r].acks
              /\ sh[r].pc \in Storing => sh[r].data \in Sent(r, n)
<1>. DEFINE c == client[r]
            n == c.acks - 1
<1>1. /\ OnHeader(r) /\ (c.sent = n \/ c.sent = c.acks)
      /\ sh[r].pc \in Storing => sh[r].data \in Sent(r, n)
  <2>1. CASE sh[r].pc \in Awaiting
    <3>1. Expecting(r)
      BY <2>1 DEF InStep, InStepAwaiting
    <3>2. sh[r].pc \notin Storing
      BY <2>1 DEF Awaiting, Storing
    <3>. QED
      BY <3>1, <3>2 DEF Expecting
  <2>2. CASE sh[r].pc \in Storing
    <3>1. Holding(r)
      BY <2>2 DEF InStep, InStepStoring
    <3>. QED
      BY <3>1 DEF Holding
  <2>. QED
    BY <2>1, <2>2
<1>2. /\ n \in 1..Len(plan[r].upload) /\ plan[r].upload[n].t = "C"
      /\ sh[r].key = Name(r, n)
  BY <1>1 DEF OnHeader
<1>3. c.sent \in Nat /\ c.acks \in Nat
  BY DEF Typed
<1>4. n \in 1..c.sent /\ n \in Nat /\ n + 1 = c.acks
  <2>1. n \in Nat \ {0}
    BY <1>2, UploadFacts DEF Typed
  <2>. QED
    BY <1>1, <1>3, <2>1
<1>5. n \in Offers(r)
  BY <1>2, <1>4 DEF Offers
<1>. HIDE DEF c, n
<1>. QED
  BY <1>1, <1>2, <1>4, <1>5 DEF c, n

\* A file is not above another one.
LEMMA NotAbove ==
    ASSUME NEW t, IsTree(t), NEW k, FileExists(t, k)
    PROVE  ~ DirExists(t, k) /\ \A q \in Prefixes(k) \ {k} : ~ FileExists(t, q)
<1>1. k \in DOMAIN t /\ ~ DirExists(t, k)
  BY DEF FileExists, DirExists
<1>2. ASSUME NEW q \in Prefixes(k) \ {k} PROVE ~ FileExists(t, q)
  <2>1. DirExists(t, q)
    BY <1>1, <1>2, TreeAncestors
  <2>. QED
    BY <2>1 DEF FileExists, DirExists
<1>. QED
  BY <1>1, <1>2

\* What is written to an empty file.
LEMMA EmptyOverwritten ==
    ASSUME Typed, NEW s \in Shells
    PROVE  Overwritten(<<>>, sh[s].data) = sh[s].data
<1>. DEFINE v == sh[s].data
<1>1. v \in Seq(Bytes)
  BY DEF Typed, ShellState
<1>. HIDE DEF v
<1>2. SubSeq(<<>>, Len(v) + 1, Len(<<>>)) = <<>>
  <2>1. Len(<<>>) = 0 /\ Len(v) \in Nat
    BY <1>1
  <2>. QED
    BY <2>1, SubSeqEmpty
<1>3. v \o <<>> = v
  BY <1>1, ConcatEmptySeq
<1>. QED
  BY <1>2, <1>3 DEF Overwritten, v

\* A capture of a name that only one shell is offered is changed by that shell
\* alone, which finds its own empty file and leaves there what it has read,
\* unless the disk fails under that name.
LEMMA OwnCapture ==
    ASSUME Typed, Scripted, Paced, InStep, Grown, Capturing,
           NEW s \in Shells, Shell(s) \/ Sending(s), NEW r \in Shells,
           NEW k, Alone(r, k), FileExists(captures, k), k \notin failed
    PROVE  \/ captures'[k] = captures[k]
           \/ /\ r = s /\ k = sh[s].key /\ Copying(s)
              /\ First(s, k, client[s].acks - 1)
              /\ k \notin failed' => /\ captures'[k] = sh[s].data
                                     /\ sh[s].data \in Sent(s, client[s].acks - 1)
<1>1. SUFFICES ASSUME captures'[k] # captures[k]
               PROVE  /\ r = s /\ k = sh[s].key /\ Copying(s)
                      /\ First(s, k, client[s].acks - 1)
                      /\ k \notin failed' =>
                            /\ captures'[k] = sh[s].data
                            /\ sh[s].data \in Sent(s, client[s].acks - 1)
  OBVIOUS
<1>2. FileExists(captures', k) /\ k = sh[s].key
  BY <1>1, CapturesStep
<1>3. \/ At(s, "capture") /\ (MadeCapture(s) \/ MadeNone(s))
      \/ At(s, "save") /\ Copying(s)
  BY <1>1, CapturesStep
<1>4. sh[s].pc \in Storing
  BY <1>3 DEF At, Storing
<1>5. /\ client[s].acks - 1 \in Offers(s) /\ k = Name(s, client[s].acks - 1)
      /\ sh[s].data \in Sent(s, client[s].acks - 1)
  BY <1>2, <1>4, InHand
<1>6. r = s
  BY <1>5 DEF Alone
<1>7. ~ (At(s, "capture"))
  BY <1>2, <1>6 DEF Capturing, Captures
<1>8. At(s, "save") /\ Copying(s)
  BY <1>3, <1>7
<1>9. captures[k] = <<>> /\ First(s, k, client[s].acks - 1)
  BY <1>2, <1>6, <1>8 DEF Capturing, Captures
<1>10. k \notin failed' => captures'[k] = Overwritten(<<>>, sh[s].data)
  <2>1. PICK data \in Prefixes(sh[s].data) :
           /\ captures' = [captures EXCEPT ![k] = Overwritten(@, data)]
           /\ IF data = sh[s].data THEN UNCHANGED failed ELSE k \in failed'
    BY <1>2, <1>8 DEF Copying, Fail
  <2>. QED
    BY <1>9, <2>1 DEF FileExists
<1>11. Overwritten(<<>>, sh[s].data) = sh[s].data
  BY EmptyOverwritten
<1>. QED
  BY <1>2, <1>5, <1>6, <1>8, <1>9, <1>10, <1>11

\* The name of an offer, once and for all.
LEMMA CapturedAs ==
    ASSUME NEW r, NEW n, NEW k, Name(r, n)' = k
    PROVE  Captured(r, n)' <=>
              \/ k \in failed'
              \/ DirExists(captures', k)
              \/ /\ FileExists(captures', k)
                 /\ Alone(r, k)' => \E m \in Offers(r)' :
                       First(r, k, m)' /\ captures'[k] \in Sent(r, m)'
              \/ \E q \in Prefixes(k) \ {k} : FileExists(captures', q)
BY DEF Captured, Alone, First

\* What is captured stays captured.
LEMMA CapturedStays ==
    ASSUME Typed, Scripted, Paced, InStep, Grown, Capturing,
           NEW s \in Shells, Shell(s) \/ Sending(s),
           NEW r \in Shells, NEW n \in Offers(r), Captured(r, n)
    PROVE  Captured(r, n)'
<1>1. \A p \in Shells : Standing(p)
  BY OffersStep
<1>2. PICK k : k = Name(r, n)
  OBVIOUS
<1>3. Name(r, n)' = k
  BY <1>1, <1>2 DEF Standing
<1>4. \A q : /\ FileExists(captures, q) => FileExists(captures', q)
             /\ DirExists(captures, q) => DirExists(captures', q)
  BY CapturesStep
<1>5. \/ k \in failed
      \/ DirExists(captures, k)
      \/ /\ FileExists(captures, k)
         /\ Alone(r, k) => \E m \in Offers(r) : First(r, k, m) /\ captures[k] \in Sent(r, m)
      \/ \E q \in Prefixes(k) \ {k} : FileExists(captures, q)
  BY <1>2 DEF Captured
<1>6. SUFFICES ASSUME /\ FileExists(captures, k)
                      /\ Alone(r, k) => \E m \in Offers(r) :
                            First(r, k, m) /\ captures[k] \in Sent(r, m),
                      Alone(r, k)', k \notin failed, k \notin failed'
               PROVE  \E m \in Offers(r)' :
                         First(r, k, m)' /\ captures'[k] \in Sent(r, m)'
  BY <1>3, <1>4, <1>5, CapturedAs, FailedStep
<1>7. Alone(r, k)
  BY <1>1, <1>6, StandingNames
<1>8. PICK m \in Offers(r) : First(r, k, m) /\ captures[k] \in Sent(r, m)
  BY <1>6, <1>7
<1>9. \E i \in Offers(r) : First(r, k, i) /\ captures'[k] \in Sent(r, i)
  <2>1. CASE captures'[k] = captures[k]
    BY <1>8, <2>1
  <2>2. CASE captures'[k] # captures[k]
    <3>1. /\ r = s /\ captures'[k] \in Sent(s, client[s].acks - 1)
          /\ First(s, k, client[s].acks - 1)
      BY <1>6, <1>7, <2>2, OwnCapture
    <3>. QED
      BY <3>1 DEF First
  <2>. QED
    BY <2>1, <2>2
<1>10. PICK i \in Offers(r) : First(r, k, i) /\ captures'[k] \in Sent(r, i)
  BY <1>9
<1>11. i \in Offers(r)' /\ captures'[k] \in Sent(r, i)'
  BY <1>1, <1>10 DEF Standing
<1>12. First(r, k, i)'
  BY <1>1, <1>10, StandingNames
<1>. QED
  BY <1>11, <1>12

\* What Captures says, with the names in it fixed.
LEMMA CapturesAs ==
    ASSUME NEW r, NEW k, NEW n, sh'[r].key = k, client'[r].acks - 1 = n
    PROVE  Captures(r)' <=>
              /\ sh'[r].pc = "capture" /\ Alone(r, k)' => ~ FileExists(captures', k)
              /\ sh'[r].pc = "save" =>
                    /\ FileExists(captures', k)
                    /\ Alone(r, k)' /\ k \notin failed' =>
                          captures'[k] = <<>> /\ First(r, k, n)'
              /\ sh'[r].pc = "done" => Captured(r, n)'
<1>1. Captured(r, client[r].acks - 1)' <=> Captured(r, n)'
  <2>1. Dirs(r, client[r].acks - 1)' = Dirs(r, n)'
    BY DEF Dirs
  <2>2. Name(r, client[r].acks - 1)' = Name(r, n)'
    BY <2>1 DEF Name
  <2>3. PICK b : b = Name(r, n)'
    OBVIOUS
  <2>. QED
    BY <2>2, <2>3 DEF Captured, Alone, First
<1>2. Alone(r, sh[r].key)' <=> Alone(r, k)'
  BY DEF Alone
<1>3. First(r, sh[r].key, client[r].acks - 1)' <=> First(r, k, n)'
  BY DEF First
<1>. QED
  BY <1>1, <1>2, <1>3 DEF Captures, At

\* A step of another shell, or of the other end, leaves that as it is.
LEMMA CapturesStays ==
    ASSUME Typed, Scripted, Paced, InStep, Grown, Capturing,
           NEW s \in Shells, Shell(s) \/ Sending(s),
           NEW r \in Shells, r # s \/ Sending(s)
    PROVE  Captures(r)'
<1>1. /\ sh'[r].pc = sh[r].pc /\ sh'[r].key = sh[r].key
      /\ client'[r].acks = client[r].acks
  <2>1. CASE r # s
    BY <2>1, StepFrame DEF InStep, Keeps, UploadFields
  <2>2. CASE r = s
    BY <2>2, SendingStep
  <2>. QED
    BY <2>1, <2>2
<1>2. PICK k, n : k = sh[r].key /\ n = client[r].acks - 1
  OBVIOUS
<1>3. /\ At(r, "capture") /\ Alone(r, k) => ~ FileExists(captures, k)
      /\ At(r, "save") =>
            /\ FileExists(captures, k)
            /\ Alone(r, k) /\ k \notin failed => captures[k] = <<>> /\ First(r, k, n)
      /\ At(r, "done") => Captured(r, n)
  BY <1>2 DEF Capturing, Captures
<1>4. \A p \in Shells : Standing(p)
  BY OffersStep
<1>5. Alone(r, k)' => Alone(r, k)
  BY <1>4, StandingNames
<1>6. Alone(r, k) /\ FileExists(captures', k) =>
         FileExists(captures, k) /\ captures'[k] = captures[k]
  <2>1. SUFFICES ASSUME Alone(r, k), ~ UNCHANGED captures
                 PROVE  k # sh[s].key
    BY CapturesStep
  <2>2. r # s
    BY <2>1, SendingStep
  <2>3. sh[s].pc \in Storing
    BY <2>1, CapturesStep DEF At, Storing
  <2>4. client[s].acks - 1 \in Offers(s) /\ sh[s].key = Name(s, client[s].acks - 1)
    BY <2>3, InHand
  <2>. QED
    BY <2>1, <2>2, <2>4 DEF Alone
<1>7. CASE sh[r].pc = "capture"
  BY <1>1, <1>2, <1>3, <1>5, <1>6, <1>7, CapturesAs DEF At
<1>8. CASE sh[r].pc = "save"
  <2>1. FileExists(captures', k)
    BY <1>3, <1>8, CapturesStep DEF At
  <2>2. First(r, k, n) => First(r, k, n)'
    BY <1>4, StandingNames
  <2>. QED
    BY <1>1, <1>2, <1>3, <1>5, <1>6, <1>8, <2>1, <2>2, CapturesAs, FailedStep DEF At
<1>9. CASE sh[r].pc = "done"
  <2>1. n \in Offers(r)
    BY <1>2, <1>9, InHand DEF Storing
  <2>2. Captured(r, n)'
    BY <1>3, <1>9, <2>1, CapturedStays DEF At
  <2>. QED
    BY <1>1, <1>2, <1>9, <2>2, CapturesAs
<1>. QED
  BY <1>1, <1>2, <1>7, <1>8, <1>9, CapturesAs

\* And so does a step of its own.
LEMMA CapturesOwn ==
    ASSUME Typed, Scripted, Paced, InStep, Grown, Owned, Capturing, UploadCaptured,
           NEW s \in Shells, Shell(s) \/ Sending(s), ~ Sending(s)
    PROVE  Captures(s)'
<1>1. SUFFICES ASSUME sh'[s].pc \in {"capture", "save", "done"}
               PROVE  Captures(s)'
  BY DEF Captures, At
<1>2. ~ ReadLine(s) /\ ~ LinesDone(s) /\ ~ Close(s) /\ ~ LineRun(s) /\ ~ Filing(s)
  <2>1. ~ ReadLine(s)
    BY <1>1, ReadStep DEF Typed
  <2>2. ~ LinesDone(s) /\ ~ Close(s)
    BY <1>1, ClosingStep
  <2>3. ~ LineRun(s)
    BY <1>1 DEF LineRun
  <2>4. ~ Filing(s)
    BY <1>1, FilingStep
  <2>. QED
    BY <2>1, <2>2, <2>3, <2>4
<1>3. ~ Receiving(s)
  BY <1>1, ReceivingStep
     DEF Ending, Failing, Leftover, Entering, Leaving, Passing, Naming, Keeps, At
<1>4. Saving(s)
  BY <1>2, <1>3, StepKinds
<1>5. /\ Checking(s) \/ Creating(s) \/ Copying(s)
      /\ UNCHANGED client /\ sh'[s].key = sh[s].key
  BY <1>1, <1>4, SavingStep, DataStep
     DEF InStep, Storage, Making, Opening, Writing, Keeps
<1>6. sh[s].pc \in Storing
  BY <1>5 DEF Checking, Creating, Copying, At, Storing
<1>7. PICK k, n : k = sh[s].key /\ n = client[s].acks - 1
  OBVIOUS
<1>8. /\ n \in Offers(s) /\ k = Name(s, n) /\ n \in Nat /\ n + 1 = client[s].acks
      /\ sh[s].data \in Sent(s, n)
  BY <1>6, <1>7, InHand
<1>9. \A p \in Shells : Standing(p)
  BY OffersStep
<1>10. /\ Alone(s, k)' => Alone(s, k)
       /\ \A i : First(s, k, i) => First(s, k, i)'
  BY <1>9, StandingNames
<1>11. n \in Offers(s)' /\ Name(s, n)' = k
  BY <1>8, <1>9 DEF Standing
<1>12. IsTree(captures) /\ IsTree(captures')
  BY CapturesStep DEF Grown
<1>13. CASE Checking(s)
  <2>1. UNCHANGED captures /\ At(s, "check")
        /\ sh'[s].pc = IF FileExists(captures, k) THEN "done" ELSE "capture"
    BY <1>7, <1>13 DEF Checking
  <2>2. CASE ~ FileExists(captures, k)
    BY <1>5, <1>7, <2>1, <2>2, CapturesAs
  <2>3. CASE FileExists(captures, k)
    <3>0. PICK r \in Shells : \E i \in Offers(r) :
             /\ Name(r, i) = k
             /\ \/ client[r].acks > i + 1
                \/ client[r].acks = i + 1 /\ sh[r].pc \in {"save", "done"}
      BY <1>12, <2>3 DEF Owned, FileExists
    <3>1. PICK m \in Offers(r) :
             /\ Name(r, m) = k
             /\ \/ client[r].acks > m + 1
                \/ client[r].acks = m + 1 /\ sh[r].pc \in {"save", "done"}
      BY <3>0
    <3>2. ASSUME Alone(s, k)
          PROVE  \/ k \in failed
                 \/ \E i \in Offers(s) : First(s, k, i) /\ captures[k] \in Sent(s, i)
      <4>1. r = s
        BY <3>1, <3>2 DEF Alone
      <4>2. client[s].acks > m + 1 /\ m \in Offers(s)
        BY <2>1, <3>1, <4>1 DEF At
      <4>3. Captured(s, m)
        BY <4>2 DEF UploadCaptured
      <4>. QED
        BY <1>12, <2>3, <3>1, <3>2, <4>1, <4>3, NotAbove DEF Captured
    <3>3. Captured(s, n)
      BY <1>8, <2>3, <3>2 DEF Captured
    <3>4. Captured(s, n)'
      BY <1>8, <3>3, CapturedStays
    <3>. QED
      BY <1>5, <1>7, <2>1, <2>3, <3>4, CapturesAs
  <2>. QED
    BY <2>2, <2>3
<1>14. CASE Creating(s)
  <2>1. At(s, "capture")
    BY <1>14 DEF Creating
  <2>2. MadeCapture(s) \/ MadeNone(s)
    BY <2>1, CapturesStep DEF At
  <2>3. CASE MadeNone(s)
    <3>1. /\ sh'[s].pc = "done"
          /\ \/ k \in failed'
             \/ DirExists(captures', k)
             \/ \E q \in Prefixes(k) \ {k} : FileExists(captures', q)
      BY <1>7, <2>3 DEF MadeNone
    <3>2. Captured(s, n)'
      BY <1>11, <3>1, CapturedAs
    <3>. QED
      BY <1>5, <1>7, <3>1, <3>2, CapturesAs
  <2>4. CASE MadeCapture(s)
    <3>1. sh'[s].pc = "save" /\ FileExists(captures', k) /\ captures'[k] = <<>>
      BY <1>7, <2>4 DEF MadeCapture
    <3>2. ASSUME Alone(s, k)', k \notin failed' PROVE First(s, k, n)'
      <4>1. Alone(s, k)
        BY <1>10, <3>2
      <4>2. ~ FileExists(captures, k)
        BY <1>7, <2>1, <4>1 DEF Capturing, Captures
      <4>3. ASSUME NEW m \in Offers(s), Name(s, m) = k PROVE n <= m
        <5>1. m \in Nat /\ client[s].acks \in Nat
          BY OfferFacts
        <5>2. SUFFICES ASSUME client[s].acks > m + 1 PROVE FALSE
          BY <1>8, <5>1
        <5>3. Captured(s, m)
          BY <5>2 DEF UploadCaptured
        <5>4. DirExists(captures, k) \/ \E q \in Prefixes(k) \ {k} : FileExists(captures, q)
          BY <3>2, <4>2, <4>3, <5>3, FailedStep DEF Captured
        <5>5. DirExists(captures', k) \/ \E q \in Prefixes(k) \ {k} : FileExists(captures', q)
          BY <5>4, CapturesStep
        <5>. QED
          BY <1>12, <3>1, <5>5, NotAbove
      <4>4. First(s, k, n)
        BY <1>8, <4>3 DEF First
      <4>. QED
        BY <1>10, <4>4
    <3>. QED
      BY <1>5, <1>7, <3>1, <3>2, CapturesAs
  <2>. QED
    BY <2>2, <2>3, <2>4
<1>15. CASE Copying(s)
  <2>1. At(s, "save") /\ sh'[s].pc = "done"
    BY <1>15 DEF Copying
  <2>2. /\ FileExists(captures, k)
        /\ Alone(s, k) /\ k \notin failed => captures[k] = <<>> /\ First(s, k, n)
    BY <1>7, <2>1 DEF Capturing, Captures
  <2>3. FileExists(captures', k)
    BY <2>2, CapturesStep
  <2>4. ASSUME Alone(s, k)', k \notin failed'
        PROVE  \E i \in Offers(s)' : First(s, k, i)' /\ captures'[k] \in Sent(s, i)'
    <3>1. Alone(s, k) /\ k \notin failed
      BY <1>10, <2>4, FailedStep
    <3>3. captures'[k] = Overwritten(captures[k], sh[s].data)
      <4>1. PICK data \in Prefixes(sh[s].data) :
               /\ captures' = [captures EXCEPT ![k] = Overwritten(@, data)]
               /\ IF data = sh[s].data THEN UNCHANGED failed ELSE k \in failed'
        BY <1>7, <1>15 DEF Copying, Fail
      <4>. QED
        BY <2>2, <2>4, <4>1 DEF FileExists
    <3>4. captures'[k] \in Sent(s, n)
      <4>1. captures[k] = <<>>
        BY <2>2, <3>1
      <4>2. Overwritten(<<>>, sh[s].data) = sh[s].data
        BY EmptyOverwritten
      <4>. QED
        BY <1>8, <3>3, <4>1, <4>2
    <3>5. First(s, k, n)'
      BY <1>10, <2>2, <3>1
    <3>. QED
      BY <1>8, <1>9, <1>11, <3>4, <3>5 DEF Standing
  <2>5. Captured(s, n)'
    BY <1>11, <2>3, <2>4, CapturedAs
  <2>. QED
    BY <1>5, <1>7, <2>1, <2>5, CapturesAs
<1>. QED
  BY <1>5, <1>13, <1>14, <1>15

\* From the test to the acknowledgement.
LEMMA CapturingStep ==
    ASSUME Typed, Scripted, Paced, InStep, Grown, Owned, Capturing, UploadCaptured,
           NEW s \in Shells, Shell(s) \/ Sending(s)
    PROVE  Capturing'
BY CapturesStays, CapturesOwn DEF Capturing

\* The contents of a file are acknowledged when it has been captured, or never.
LEMMA AckOfFile ==
    ASSUME Typed, Scripted, Paced, InStep, Grown,
           NEW s \in Shells, Shell(s) \/ Sending(s),
           NEW n \in Offers(s), client[s].acks = n + 1, client'[s].acks # client[s].acks
    PROVE  At(s, "done")
<1>1. client' # client /\ n \in Nat /\ client[s].acks # 0
  BY OfferFacts
<1>2. ~ ReadLine(s) /\ ~ LinesDone(s) /\ ~ Close(s) /\ ~ Filing(s)
  BY <1>1, ReadStep, ClosingStep, FilingStep DEF Typed
<1>3. ~ Sending(s)
  BY SendingStep
<1>4. ~ LineRun(s)
  <2>1. SUFFICES ASSUME LineRun(s) PROVE FALSE
    OBVIOUS
  <2>2. IsSink(Head(sh[s].lines)) /\ sh[s].lines # <<>>
    BY <1>1, <2>1 DEF LineRun
  <2>. QED
    BY <1>1, <2>1, <2>2, NextLine
<1>5. ~ Receiving(s)
  <2>1. SUFFICES ASSUME Receiving(s) PROVE FALSE
    OBVIOUS
  <2>2. plan[s].upload[n + 1] \in Header
    BY <1>1, <2>1, MessageAck DEF InStep
  <2>3. plan[s].upload[n + 1] \in FileData
    BY OfferFacts, UploadFacts DEF Typed
  <2>. QED
    BY <2>2, <2>3 DEF Header, FileHeader, FileData
<1>6. Saving(s)
  BY <1>2, <1>3, <1>4, <1>5, StepKinds
<1>. QED
  BY <1>1, <1>6, SavingStep DEF InStep

\* What has been acknowledged has been captured.
LEMMA UploadCapturedStep ==
    ASSUME Typed, Scripted, Paced, InStep, Grown, Capturing, UploadCaptured,
           NEW s \in Shells, Shell(s) \/ Sending(s)
    PROVE  UploadCaptured'
<1>1. SUFFICES ASSUME NEW r \in Shells, NEW n \in Offers(r)', client'[r].acks > n + 1
               PROVE  Captured(r, n)'
  BY DEF UploadCaptured
<1>2. Standing(r)
  BY OffersStep
<1>3. /\ client[r].acks \in Nat /\ client[r].sent \in Nat
      /\ client[r].acks <= client[r].sent + 2
  BY DEF Typed, Paced, Waits
<1>4. /\ r = s \/ client'[r].acks = client[r].acks
      /\ \/ client'[r].acks = client[r].acks
         \/ client'[r].acks = client[r].acks + 1 /\ client'[r].sent = client[r].sent
  <2>1. CASE r = s
    BY <2>1, ClientStep
  <2>2. CASE r # s
    BY <2>2, StepFrame DEF InStep
  <2>. QED
    BY <2>1, <2>2
<1>5. CASE n \in Offers(r)
  <2>1. n \in Nat
    BY <1>5, OfferFacts
  <2>2. CASE client[r].acks > n + 1
    <3>1. Captured(r, n)
      BY <1>5, <2>2 DEF UploadCaptured
    <3>. QED
      BY <1>5, <3>1, CapturedStays
  <2>3. CASE client[r].acks <= n + 1
    <3>1. r = s /\ client'[r].acks # client[r].acks /\ client[r].acks = n + 1
      BY <1>1, <1>3, <1>4, <2>1, <2>3
    <3>2. At(r, "done")
      BY <1>5, <3>1, AckOfFile
    <3>3. client[r].acks - 1 = n
      BY <2>1, <3>1
    <3>4. Captured(r, n)
      BY <3>2, <3>3 DEF Capturing, Captures
    <3>. QED
      BY <1>5, <3>4, CapturedStays
  <2>. QED
    BY <1>3, <2>1, <2>2, <2>3
<1>6. CASE n \notin Offers(r)
  <2>1. n = client[r].sent + 1
    BY <1>2, <1>6 DEF Standing
  <2>2. client'[r].acks = client[r].acks + 1 /\ client'[r].sent = client[r].sent
    BY <1>1, <1>3, <1>4, <2>1
  <2>3. n \in 1..client'[r].sent
    BY DEF Offers
  <2>. QED
    BY <1>3, <2>1, <2>2, <2>3
<1>. QED
  BY <1>5, <1>6

\* Once there is a capture, a shell goes on to its acknowledgement.
LEMMA OnToAck ==
    ASSUME Typed, Scripted, Paced, InStep, Grown,
           NEW s \in Shells, Shell(s) \/ Sending(s), sh[s].pc \in {"save", "done"}
    PROVE  \/ client'[s].acks = client[s].acks /\ sh'[s].pc \in {"save", "done"}
           \/ client'[s].acks = client[s].acks + 1
<1>1. CASE Sending(s)
  BY <1>1, SendingStep
<1>2. CASE Saving(s)
  <2>1. CASE Storage(s) /\ UNCHANGED client
    BY <2>1 DEF Storage, Making, Opening, Writing, Checking, Creating, Copying, At
  <2>2. ~ ScpData(s)
    BY DEF ScpData, At
  <2>3. CASE Ack(s)
    BY <2>3, AckStep
  <2>. QED
    BY <1>2, <2>1, <2>2, <2>3, SavingStep DEF InStep
<1>3. ~ ReadLine(s) /\ ~ LinesDone(s) /\ ~ Close(s)
  BY DEF ReadLine, LinesDone, Close, At
<1>4. ~ LineRun(s)
  BY DEF LineRun, At
<1>5. ~ Filing(s) /\ ~ Receiving(s)
  BY ReceivingStep DEF Filing, RmTest, RmUnlink, Open, At
<1>. QED
  BY <1>1, <1>2, <1>3, <1>4, <1>5, StepKinds

\* Whoever made a file stays on record, and nobody else makes one.
LEMMA OwnedStep ==
    ASSUME Typed, Scripted, Paced, InStep, Grown, Owned, Capturing,
           NEW s \in Shells, Shell(s) \/ Sending(s)
    PROVE  Owned'
<1>1. SUFFICES ASSUME NEW k, FileExists(captures', k)
               PROVE  \E r \in Shells : \E m \in Offers(r)' :
                         /\ Name(r, m)' = k
                         /\ \/ client'[r].acks > m + 1
                            \/ client'[r].acks = m + 1 /\ sh'[r].pc \in {"save", "done"}
  BY DEF Owned
<1>2. \A r \in Shells : Standing(r)
  BY OffersStep
<1>3. CASE FileExists(captures, k)
  <2>1. PICK r \in Shells : \E i \in Offers(r) :
           /\ Name(r, i) = k
           /\ \/ client[r].acks > i + 1
              \/ client[r].acks = i + 1 /\ sh[r].pc \in {"save", "done"}
    BY <1>3 DEF Owned, FileExists
  <2>2. PICK m \in Offers(r) :
           /\ Name(r, m) = k
           /\ \/ client[r].acks > m + 1
              \/ client[r].acks = m + 1 /\ sh[r].pc \in {"save", "done"}
    BY <2>1
  <2>3. m \in Offers(r)' /\ Name(r, m)' = k
    BY <1>2, <2>2 DEF Standing
  <2>4. m \in Nat /\ client[r].acks \in Nat
    BY OfferFacts
  <2>5. CASE r # s
    <3>1. client'[r] = client[r] /\ sh'[r].pc = sh[r].pc
      BY <2>5, StepFrame DEF InStep, Keeps
    <3>. QED
      BY <2>2, <2>3, <3>1
  <2>6. CASE r = s /\ client[r].acks > m + 1
    <3>1. client'[r].acks = client[r].acks \/ client'[r].acks = client[r].acks + 1
      BY <2>6, ClientStep
    <3>2. client'[r].acks > m + 1
      BY <2>4, <2>6, <3>1
    <3>. QED
      BY <2>3, <3>2
  <2>7. CASE r = s /\ client[r].acks = m + 1 /\ sh[r].pc \in {"save", "done"}
    <3>1. \/ client'[r].acks = client[r].acks /\ sh'[r].pc \in {"save", "done"}
          \/ client'[r].acks = client[r].acks + 1
      BY <2>7, OnToAck
    <3>2. \/ client'[r].acks = m + 1 /\ sh'[r].pc \in {"save", "done"}
          \/ client'[r].acks > m + 1
      BY <2>4, <2>7, <3>1
    <3>. QED
      BY <2>3, <3>2
  <2>. QED
    BY <2>2, <2>5, <2>6, <2>7
<1>4. CASE ~ FileExists(captures, k)
  <2>1. k = sh[s].key /\ IsTree(captures')
    BY <1>1, <1>4, CapturesStep
  <2>2. At(s, "capture") /\ UNCHANGED client /\ (MadeCapture(s) \/ MadeNone(s))
    BY <1>1, <1>4, <2>1, CapturesStep
  <2>3. ~ MadeNone(s)
    BY <1>1, <1>4 DEF MadeNone
  <2>4. sh'[s].pc = "save"
    BY <2>2, <2>3 DEF MadeCapture
  <2>5. PICK n : n = client[s].acks - 1
    OBVIOUS
  <2>6. n \in Offers(s) /\ k = Name(s, n) /\ n + 1 = client[s].acks
    BY <2>1, <2>2, <2>5, InHand DEF At, Storing
  <2>7. n \in Offers(s)' /\ Name(s, n)' = k
    BY <1>2, <2>6 DEF Standing
  <2>8. client'[s].acks = n + 1
    BY <2>2, <2>6
  <2>. QED
    BY <2>4, <2>7, <2>8
<1>. QED
  BY <1>3, <1>4

\* Every byte of a file is from one of these contents, which is there from that
\* byte up to its end.
Whole(file, contents) ==
    \A i \in DOMAIN file : \E c \in contents :
        /\ Len(c) \in i..Len(file)
        /\ \A j \in i..Len(c) : file[j] = c[j]

\* So it is of an empty file.
LEMMA WholeEmpty == ASSUME NEW X PROVE Whole(<<>>, X)
BY DOMAIN <<>> = {} DEF Whole

\* More contents do no harm.
LEMMA WholeMore ==
    ASSUME NEW f, NEW X, NEW Y, Whole(f, X), X \subseteq Y PROVE Whole(f, Y)
BY DEF Whole

\* Nor does writing one of the contents over such a file.
LEMMA WholeOver ==
    ASSUME NEW X, X \subseteq Seq(Bytes), NEW f \in Seq(Bytes), NEW d \in X, Whole(f, X)
    PROVE  Whole(Overwritten(f, d), X)
<1>. DEFINE w == Overwritten(f, d)
<1>1. /\ w \in Seq(Bytes) /\ Len(w) = (IF Len(d) < Len(f) THEN Len(f) ELSE Len(d))
      /\ \A i \in 1..Len(w) : w[i] = IF i <= Len(d) THEN d[i] ELSE f[i]
  BY OverwrittenBytes
<1>. HIDE DEF w
<1>2. /\ Len(d) \in Nat /\ Len(f) \in Nat /\ Len(w) \in Nat
      /\ DOMAIN w = 1..Len(w) /\ DOMAIN f = 1..Len(f)
  BY <1>1
<1>3. SUFFICES ASSUME NEW i \in 1..Len(w)
               PROVE  \E c \in X : /\ Len(c) \in i..Len(w)
                                   /\ \A j \in i..Len(c) : w[j] = c[j]
  BY <1>2 DEF Whole, w
<1>4. CASE i <= Len(d)
  <2>1. Len(d) \in i..Len(w) /\ \A j \in i..Len(d) : j \in 1..Len(w) /\ j <= Len(d)
    BY <1>1, <1>2, <1>4
  <2>. QED
    BY <1>1, <2>1
<1>5. CASE i > Len(d)
  <2>1. i \in DOMAIN f /\ Len(f) = Len(w)
    BY <1>1, <1>2, <1>5
  <2>2. PICK c \in X : Len(c) \in i..Len(f) /\ \A j \in i..Len(c) : f[j] = c[j]
    BY <2>1 DEF Whole
  <2>3. \A j \in i..Len(c) : j \in 1..Len(w) /\ ~ j <= Len(d)
    BY <1>2, <1>5, <2>1, <2>2
  <2>4. \A j \in i..Len(c) : w[j] = c[j]
    BY <1>1, <2>2, <2>3
  <2>. QED
    BY <2>1, <2>2, <2>4
<1>. QED
  BY <1>2, <1>4, <1>5

\* What may be captured under a name is bytes.
ReceivesBytes == Typed /\ Paced => \A k : Received(k) \subseteq Seq(Bytes)
LEMMA ReceivedBytes == ReceivesBytes
BY OfferFacts DEF Received, ReceivesBytes

\* The start of what may have been kept of a file, when the disk has failed.
ShortIsSent ==
    Typed /\ Paced => \A s \in Shells : \A n \in Offers(s) : \A c \in Sent(s, n) :
        Name(s, n) \in failed => Prefixes(c) \subseteq Sent(s, n)
LEMMA ShortOfSent == ShortIsSent
<1>1. SUFFICES ASSUME Typed, Paced, NEW s \in Shells, NEW n \in Offers(s),
                      NEW c \in Sent(s, n), Name(s, n) \in failed, NEW d \in Prefixes(c)
               PROVE  d \in Sent(s, n)
  BY DEF ShortIsSent
<1>. DEFINE v == plan[s].upload[n + 1].v
<1>2. v \in Seq(Bytes)
  <2>1. n \in 1..Len(plan[s].upload) /\ plan[s].upload[n].t = "C"
    BY <1>1, OfferFacts
  <2>2. plan[s].upload[n + 1] \in FileData
    BY <1>1, <2>1, UploadFacts DEF Typed
  <2>. QED
    BY <2>2, DataPart
<1>3. Sent(s, n) = Prefixes(v)
  BY <1>1 DEF Sent
<1>. HIDE DEF v
<1>4. PICK l \in 0..Len(v) : c = SubSeq(v, 1, l)
  BY <1>3 DEF Prefixes
<1>5. Len(c) = l
  BY <1>2, <1>4, PrefixIsSeq
<1>6. PICK m \in 0..l : d = SubSeq(c, 1, m)
  BY <1>5 DEF Prefixes
<1>7. d = SubSeq(v, 1, m) /\ m \in 0..Len(v)
  BY <1>2, <1>4, <1>6, PrefixOfPrefix
<1>. QED
  BY <1>2, <1>3, <1>7, PrefixIsSeq

\* What may be captured under a name only grows.
LEMMA ReceivedGrows ==
    ASSUME Typed, Paced, \A r \in Shells : Standing(r), NEW k
    PROVE  Received(k) \subseteq Received(k)'
<1>1. SUFFICES ASSUME NEW c \in Received(k) PROVE c \in Received(k)'
  OBVIOUS
<1>2. PICK r \in Shells : \E n \in Offers(r) : Name(r, n) = k /\ c \in Sent(r, n)
  BY <1>1 DEF Received
<1>3. PICK n \in Offers(r) : Name(r, n) = k /\ c \in Sent(r, n)
  BY <1>2
<1>4. n \in Offers(r)' /\ Name(r, n)' = k /\ c \in Sent(r, n)'
  BY <1>3 DEF Standing
<1>. QED
  BY <1>4 DEF Received

\* A capture is whole when it has been made, and stays so when it is written.
LEMMA CapturedWholeStep ==
    ASSUME Typed, Scripted, Paced, InStep, Grown, Capturing, CapturedWhole,
           NEW s \in Shells, Shell(s) \/ Sending(s)
    PROVE  CapturedWhole'
<1>1. SUFFICES ASSUME NEW k, FileExists(captures', k)
               PROVE  Whole(captures'[k], Received(k)')
  BY DEF CapturedWhole, Whole
<1>2. FileExists(captures, k) => Whole(captures[k], Received(k))
  BY DEF CapturedWhole, Whole, FileExists
<1>3. Received(k) \subseteq Received(k)'
  BY OffersStep, ReceivedGrows
<1>4. CASE FileExists(captures, k) /\ captures'[k] = captures[k]
  BY <1>2, <1>3, <1>4, WholeMore
<1>5. CASE ~ FileExists(captures, k) \/ captures'[k] # captures[k]
  <2>1. k = sh[s].key /\ IsTree(captures')
    BY <1>1, <1>5, CapturesStep
  <2>2. \/ At(s, "capture") /\ MadeCapture(s)
        \/ At(s, "save") /\ Copying(s) /\ FileExists(captures, k)
    <3>1. ~ MadeNone(s)
      BY <1>1, <1>5 DEF MadeNone
    <3>2. ~ UNCHANGED captures
      BY <1>1, <1>5
    <3>. QED
      BY <2>1, <3>1, <3>2, CapturesStep
  <2>3. CASE MadeCapture(s)
    BY <2>1, <2>3, WholeEmpty DEF MadeCapture
  <2>4. CASE At(s, "save") /\ Copying(s) /\ FileExists(captures, k)
    <3>1. PICK n : n = client[s].acks - 1
      OBVIOUS
    <3>2. n \in Offers(s) /\ k = Name(s, n) /\ sh[s].data \in Sent(s, n)
      BY <2>1, <2>4, <3>1, InHand DEF At, Storing
    <3>3. PICK data \in Prefixes(sh[s].data) :
             /\ captures' = [captures EXCEPT ![k] = Overwritten(@, data)]
             /\ data = sh[s].data \/ k \in failed'
      BY <2>1, <2>4 DEF Copying, Fail
    <3>4. captures'[k] = Overwritten(captures[k], data)
      BY <2>4, <3>3 DEF FileExists
    <3>5. data \in Received(k)' /\ Received(k)' \subseteq Seq(Bytes)
      <4>1. Typed' /\ Paced'
        BY TypedStep, PacedStep DEF InStep
      <4>2. n \in Offers(s)' /\ Name(s, n)' = k /\ sh[s].data \in Sent(s, n)'
        BY <3>2, OffersStep DEF Standing
      <4>3. data \in Sent(s, n)'
        <5>1. ShortIsSent'
          BY ShortOfSent, PTL
        <5>2. CASE data = sh[s].data
          BY <4>2, <5>2
        <5>3. CASE k \in failed'
          BY <3>3, <4>1, <4>2, <5>1, <5>3 DEF ShortIsSent
        <5>. QED
          BY <3>3, <5>2, <5>3
      <4>4. Received(k)' \subseteq Seq(Bytes)
        <5>1. ReceivesBytes'
          BY ReceivedBytes, PTL
        <5>. QED
          BY <4>1, <5>1 DEF ReceivesBytes
      <4>. QED
        BY <4>2, <4>3, <4>4 DEF Received
    <3>6. captures[k] \in Seq(Bytes)
      BY <2>4 DEF Grown, IsTree, FileExists
    <3>7. Whole(captures[k], Received(k)')
      BY <1>2, <1>3, <2>4, WholeMore
    <3>. QED
      BY <3>4, <3>5, <3>6, <3>7, WholeOver
  <2>. QED
    BY <2>2, <2>3, <2>4
<1>. QED
  BY <1>4, <1>5

-----------------------------------------------------------------------------
(* The initial states                                                      *)

\* A shell that has been made and has not read anything.
LEMMA NewShell ==
    ASSUME Init, NEW s \in Shells
    PROVE  /\ sh[s] \in ShellState
           /\ sh[s].pc \in {"line", "read"} /\ (sh[s].pc = "read" <=> ~ plan[s].exec)
           /\ sh[s].history = <<>> /\ sh[s].file = NoFile
           /\ sh[s].target.from = "root"
           /\ sh[s].queue = (IF plan[s].exec THEN <<>> ELSE plan[s].inputs)
           /\ sh[s].lines = (IF plan[s].exec THEN plan[s].inputs[1] ELSE <<>>)
           /\ client[s] = [sent |-> 0, acks |-> 0, end |-> "open"] /\ wire[s] = <<>>
<1>1. /\ plan[s].inputs \in Seq(Seq(Lines))
      /\ plan[s].exec => Len(plan[s].inputs) = 1
  BY PlanFacts DEF Init
<1>2. sh[s] = NewFakeShell(s, plan[s])
  BY DEF Init
<1>3. plan[s].exec => plan[s].inputs[1] \in Seq(Lines)
  BY <1>1
<1>4. User[s] \in Paths
  BY PlansAssumption
<1>5. NewFakeShell(s, plan[s]) \in ShellState
  <2>1. (IF plan[s].exec THEN <<>> ELSE plan[s].inputs) \in Seq(Seq(Lines))
    BY <1>1
  <2>2. (IF plan[s].exec THEN plan[s].inputs[1] ELSE <<>>) \in Seq(Lines)
    BY <1>3
  <2>3. Root \in Paths /\ <<>> \in Seq(Bytes) /\ <<>> \in Seq(Args) /\ <<>> \in Seq(Paths)
    BY EmptySeq DEF Root, Paths
  <2>4. [from |-> "root", path |-> Root] \in Args
    BY <2>3 DEF Args
  <2>5. (IF plan[s].exec THEN "line" ELSE "read") \in Locations
    BY DEF Locations
  <2>. QED
    BY <1>4, <2>1, <2>2, <2>3, <2>4, <2>5 DEF NewFakeShell, ShellState
<1>. QED
  BY <1>2, <1>5 DEF Init, NewFakeShell

\* The parts of the invariant, in an initial state.
LEMMA InitTyped == ASSUME Init PROVE Typed
<1>1. \A s \in Shells : sh[s] \in ShellState
  BY NewShell
<1>2. sh \in [Shells -> ShellState]
  BY <1>1 DEF Init
<1>3. wire \in [Shells -> Seq(Token)]
  BY EmptySeq DEF Init
<1>. QED
  BY <1>2, <1>3 DEF Init, Typed

\* Nothing has been run: the script lies ahead.
LEMMA InitScripted == ASSUME Init PROVE Scripted
<1>1. SUFFICES ASSUME NEW s \in Shells PROVE OnScript(s)
  BY DEF Scripted
<1>2. /\ plan[s].inputs \in Seq(Seq(Lines)) /\ Script(s) \in Seq(Lines)
      /\ plan[s].exec => Len(plan[s].inputs) = 1
  BY PlanFacts DEF Init
<1>3. (<<>> \o sh[s].lines) \o FlattenSeq(sh[s].queue) = Script(s)
  <2>1. CASE plan[s].exec
    <3>1. plan[s].inputs[1] \in Seq(Lines)
      BY <1>2, <2>1
    <3>2. plan[s].inputs = <<plan[s].inputs[1]>>
      BY <1>2, <2>1
    <3>3. Script(s) = plan[s].inputs[1]
      BY <3>1, <3>2, FlattenSmall DEF Script
    <3>4. FlattenSeq(<<>>) = <<>>
      BY <3>1, FlattenSmall
    <3>5. sh[s].lines = plan[s].inputs[1] /\ sh[s].queue = <<>>
      BY <2>1, NewShell
    <3>. QED
      BY <3>1, <3>3, <3>4, <3>5, ConcatEmptySeq
  <2>2. CASE ~ plan[s].exec
    <3>1. sh[s].lines = <<>> /\ sh[s].queue = plan[s].inputs
      BY <2>2, NewShell
    <3>2. <<>> \in Seq(Lines)
      BY EmptySeq
    <3>. QED
      BY <1>2, <3>1, <3>2, ConcatEmptySeq DEF Script
  <2>. QED
    BY <2>1, <2>2
<1>4. /\ sh[s].history = <<>> /\ client[s].acks = 0 /\ sh[s].target.from = "root"
      /\ plan[s].exec => sh[s].queue = <<>>
      /\ sh[s].pc = "read" => sh[s].lines = <<>> /\ ~ plan[s].exec
  BY NewShell
<1>5. (sh[s].history \o sh[s].lines) \o FlattenSeq(sh[s].queue) = Script(s)
  BY <1>3, <1>4
<1>6. ~ client[s].acks > 0 /\ sh[s].target.from \in {"root", "cwd"}
  BY <1>4
<1>. QED
  BY <1>4, <1>5, <1>6 DEF OnScript, At

\* Nothing has been sent or acknowledged.
LEMMA InitPaced == ASSUME Init PROVE Paced
<1>1. SUFFICES ASSUME NEW s \in Shells PROVE Waits(s)
  BY DEF Paced
<1>2. Len(plan[s].upload) \in Nat
  BY UploadFacts DEF Init
<1>. QED
  BY <1>2, NewShell DEF Waits

\* No shell is in cmdScp.
LEMMA InitInStep == ASSUME Init PROVE InStep
BY NewShell DEF InStep, InStepAtType, InStepAwaiting, InStepStoring, Awaiting, Storing, At

\* The file system is mounted, the captures are empty.
LEMMA InitGrown == ASSUME Init PROVE Grown
<1>1. IsTree(tree)
  <2>1. <<"home">> \in Paths
    BY PlansAssumption DEF Paths
  <2>. QED
    BY <2>1, PlansAssumption, MountedTree DEF Init
<1>2. IsTree(captures)
  BY EmptySeq DEF Init, IsTree, DirExists, Paths, Root
<1>. QED
  BY <1>1, <1>2, NewShell DEF Grown, At

\* The counter and the histories begin empty.
LEMMA InitRecording == ASSUME Init PROVE Recording
<1>1. \A s \in Shells : Counted(sh[s].history) = {}
  BY NewShell DEF Counted
<1>2. \A s \in Shells : Records(s)
  BY NewShell DEF Records
<1>3. UNION {{s} \X Counted(sh[s].history) : s \in Shells} = {}
  BY <1>1
<1>. QED
  BY <1>2, <1>3, FS_EmptySet DEF Recording, Init

\* There is no capture, no offer and no file in hand.
LEMMA InitCaptured ==
    ASSUME Init PROVE Owned /\ Capturing /\ UploadCaptured /\ CapturedWhole
<1>1. \A k : ~ FileExists(captures, k)
  BY DEF Init, FileExists
<1>2. \A s \in Shells : Offers(s) = {}
  BY NewShell DEF Offers
<1>3. Capturing
  BY NewShell DEF Capturing, Captures, At
<1>. QED
  BY <1>1, <1>2, <1>3 DEF Owned, UploadCaptured, CapturedWhole

-----------------------------------------------------------------------------
(* The theorems                                                            *)

\* All that the proofs rely on, about the sessions, the uploads, the two trees
\* and the recordings, holds in every state.
LEMMA InitInv == Init => IndInv
BY InitTyped, InitScripted, InitPaced, InitInStep, InitGrown, InitRecording, InitCaptured
   DEF IndInv

\* Every step of a shell or its client preserves it, and so does stuttering.
LEMMA NextInv == IndInv /\ [Next]_vars => IndInv'
<1>1. SUFFICES ASSUME IndInv, [Next]_vars PROVE IndInv'
  OBVIOUS
<1>2. CASE Next
  <2>1. PICK s \in Shells : Shell(s) \/ Sending(s)
    BY <1>2 DEF Next, Sending
  <2>2. InStepAwaiting
    BY <1>1 DEF IndInv, InStep
  <2>. QED
    BY <1>1, <2>1, <2>2, TypedStep, ScriptedStep, PacedStep, InStepStep, GrownStep,
       RecordingStep, OwnedStep, CapturingStep, UploadCapturedStep, CapturedWholeStep
       DEF IndInv
<1>3. CASE UNCHANGED vars
  <2>1. Typed' /\ Scripted' /\ Paced'
    BY <1>1, <1>3 DEF IndInv, vars, Typed, Scripted, OnScript, Paced, Waits, Script, At
  <2>2. InStep'
    <3>1. UNCHANGED <<plan, sh, client, wire, failed>>
      BY <1>3 DEF vars
    <3>2. InStepAtType /\ InStepAwaiting /\ InStepStoring
      BY <1>1 DEF IndInv, InStep
    <3>3. InStepAtType'
      BY <3>1, <3>2 DEF InStepAtType, BetweenFiles, Dirs, From, At
    <3>4. \A r : Base(r)' = Base(r)
      BY <3>1 DEF Base, ToAbs
    <3>5. \A r : OnHeader(r)' <=> OnHeader(r)
      BY <3>1, <3>4 DEF OnHeader, Name, Dirs, From
    <3>6. \A r : Expecting(r)' <=> Expecting(r)
      BY <3>1, <3>5 DEF Expecting
    <3>7. \A r : Holding(r)' <=> Holding(r)
      BY <3>1, <3>5 DEF Holding, Sent, Name, Dirs
    <3>8. InStepAwaiting'
      BY <3>1, <3>2, <3>6 DEF InStepAwaiting
    <3>9. InStepStoring'
      BY <3>1, <3>2, <3>7 DEF InStepStoring
    <3>. QED
      BY <3>3, <3>8, <3>9 DEF InStep
  <2>3. Grown' /\ Recording'
    BY <1>1, <1>3 DEF IndInv, vars, Grown, ToAbs, Recording, Records, At
  <2>4. Owned' /\ Capturing' /\ UploadCaptured' /\ CapturedWhole'
    <3>1. UNCHANGED <<plan, sh, client, captures, failed>>
      BY <1>3 DEF vars
    <3>2. Owned /\ Capturing /\ UploadCaptured /\ CapturedWhole
      BY <1>1 DEF IndInv
    <3>3. Owned'
      BY <3>1, <3>2 DEF Owned, Offers, Name, Dirs
    <3>4. /\ \A r : Offers(r)' = Offers(r)
          /\ \A r, n : Name(r, n)' = Name(r, n) /\ Sent(r, n)' = Sent(r, n)
      BY <3>1 DEF Offers, Name, Dirs, Sent
    <3>5. /\ \A r, k : Alone(r, k)' <=> Alone(r, k)
          /\ \A r, k, n : First(r, k, n)' <=> First(r, k, n)
      BY <3>4 DEF Alone, First
    <3>6. ASSUME NEW r, NEW n PROVE Captured(r, n)' <=> Captured(r, n)
      <4>1. PICK k : k = Name(r, n)
        OBVIOUS
      <4>2. Captured(r, n) <=>
               \/ k \in failed
               \/ DirExists(captures, k)
               \/ /\ FileExists(captures, k)
                  /\ Alone(r, k) => \E m \in Offers(r) :
                        First(r, k, m) /\ captures[k] \in Sent(r, m)
               \/ \E q \in Prefixes(k) \ {k} : FileExists(captures, q)
        BY <4>1 DEF Captured
      <4>3. Name(r, n)' = k
        BY <3>4, <4>1
      <4>. QED
        BY <3>1, <3>4, <3>5, <4>2, <4>3, CapturedAs
    <3>7. ASSUME NEW r \in Shells PROVE Captures(r)'
      <4>1. PICK k, n : k = sh[r].key /\ n = client[r].acks - 1
        OBVIOUS
      <4>2. /\ At(r, "capture") /\ Alone(r, k) => ~ FileExists(captures, k)
            /\ At(r, "save") =>
                  /\ FileExists(captures, k)
                  /\ Alone(r, k) /\ k \notin failed => captures[k] = <<>> /\ First(r, k, n)
            /\ At(r, "done") => Captured(r, n)
        BY <3>2, <4>1 DEF Capturing, Captures
      <4>3. sh'[r].key = k /\ client'[r].acks - 1 = n /\ sh'[r].pc = sh[r].pc
        BY <3>1, <4>1
      <4>. QED
        BY <3>1, <3>5, <3>6, <4>2, <4>3, CapturesAs DEF At
    <3>8. Capturing'
      BY <3>7 DEF Capturing
    <3>9. UploadCaptured'
      BY <3>1, <3>2, <3>4, <3>6 DEF UploadCaptured
    <3>10. \A k : Received(k)' = Received(k)
      BY <3>4 DEF Received
    <3>11. CapturedWhole'
      BY <3>1, <3>2, <3>10 DEF CapturedWhole
    <3>. QED
      BY <3>3, <3>8, <3>9, <3>11
  <2>. QED
    BY <2>1, <2>2, <2>3, <2>4 DEF IndInv
<1>. QED
  BY <1>1, <1>2, <1>3

\* The inductive invariant holds in every state: sessions, uploads, both trees,
\* captures and recordings.
THEOREM Invariant == Spec => []IndInv
BY InitInv, NextInv, PTL DEF Spec

\* What is sent is as long as was announced, or shorter if it was cut off.
LEMMA DataInLeft ==
    ASSUME Typed, NEW s \in Shells, Holding(s)
    PROVE  Len(sh[s].data) <= sh[s].left
<1>. DEFINE v == plan[s].upload[client[s].acks].v
            d == sh[s].data
<1>1. /\ Len(v) = sh[s].left /\ sh[s].left \in Nat
      /\ v \in Seq(Bytes)
      /\ d = v \/ d \in Prefixes(v)
  BY HeaderFacts, DataPart DEF Holding
<1>. HIDE DEF v, d
<1>2. CASE d = v
  BY <1>1, <1>2 DEF d
<1>3. CASE d \in Prefixes(v)
  <2>1. PICK n \in 0..Len(v) : d = SubSeq(v, 1, n)
    BY <1>3 DEF Prefixes
  <2>2. Len(d) = n
    BY <1>1, <2>1, PrefixIsSeq
  <2>. QED
    BY <1>1, <2>1, <2>2 DEF d
<1>. QED
  BY <1>1, <1>2, <1>3

\* The types, the two trees, the file a shell has open and the bounds of its
\* counters.
THEOREM TypeCorrect == Spec => []TypeOK
<1>1. IndInv => TypeOK
  <2>1. SUFFICES ASSUME IndInv PROVE TypeOK
    OBVIOUS
  <2>2. executed \in Nat
    BY <2>1, FS_CardinalityType DEF IndInv, Recording
  <2>3. ASSUME NEW s \in Shells
        PROVE  /\ client[s].sent <= client[s].acks
               /\ client[s].acks <= Len(plan[s].upload) + 1
               /\ sh[s].file # NoFile => FileExists(tree, sh[s].file)
    BY <2>1 DEF IndInv, Paced, Waits, Grown
  <2>4. ASSUME NEW s \in Shells, sh[s].pc \in Storing
        PROVE  Len(sh[s].data) <= sh[s].left
    BY <2>1, <2>4, DataInLeft DEF IndInv, InStep, InStepStoring
  <2>. QED
    BY <2>1, <2>2, <2>3, <2>4 DEF IndInv, Typed, Grown, TypeOK, Storing
<1>. QED
  BY <1>1, Invariant, PTL

\* Both ends of an upload mean the same file by the same name.
THEOREM NamesAgree == Spec => []NamedAsSent
<1>1. IndInv => NamedAsSent
  <2>1. SUFFICES ASSUME IndInv, NEW s \in Shells, sh[s].pc \in Awaiting \cup Storing
                 PROVE  LET n == client[s].acks - 1
                        IN /\ n \in Offers(s)
                           /\ sh[s].key = Name(s, n)
                           /\ sh[s].path = Start(s, n) \o Name(s, n)
    BY DEF NamedAsSent, Awaiting, Storing
  <2>2. /\ OnHeader(s) /\ client[s].acks - 1 \in Offers(s)
        /\ sh[s].key = Name(s, client[s].acks - 1)
    BY <2>1, InHand DEF IndInv
  <2>3. /\ sh[s].dirs = Dirs(s, client[s].acks - 1)
        /\ sh[s].from = From(s, client[s].acks - 1)
        /\ sh[s].path = Base(s) \o sh[s].key
    BY <2>2 DEF OnHeader
  <2>. QED
    BY <2>2, <2>3 DEF Base, Start
<1>. QED
  BY <1>1, Invariant, PTL

\* A captured upload is what was sent under its name, whoever else has sent
\* something under that name at the same time, or the start of it where the
\* disk has failed.
THEOREM CapturesAreWhole == Spec => []CapturedWhole
BY Invariant, PTL DEF IndInv

\* What has been acknowledged has been captured, unless the disk has failed
\* under its name.
THEOREM UploadsAreCaptured == Spec => []UploadCaptured
BY Invariant, PTL DEF IndInv

\* A sequence begins what it is joined to.
LEMMA BeginsJoined ==
    ASSUME NEW S, NEW h \in Seq(S), NEW t \in Seq(S)
    PROVE  IsPrefix(h, h \o t)
<1>. DEFINE w == h \o t
<1>1. /\ w \in Seq(S) /\ Len(w) = Len(h) + Len(t)
      /\ Len(h) \in Nat /\ Len(t) \in Nat
      /\ \A i \in 1..Len(h) : w[i] = h[i]
  BY ConcatProperties
<1>. HIDE DEF w
<1>2. Len(h) \in 0..Len(w) /\ Len(h) <= Len(w)
  BY <1>1
<1>3. /\ SubSeq(w, 1, Len(h)) \in Seq(S) /\ Len(SubSeq(w, 1, Len(h))) = Len(h)
      /\ \A i \in 1..Len(h) : SubSeq(w, 1, Len(h))[i] = w[i]
  BY <1>1, <1>2, PrefixIsSeq
<1>4. SubSeq(w, 1, Len(h)) = h
  BY <1>1, <1>3, SeqEqual
<1>5. SubSeq(h, 1, Len(h)) = h
  BY SubSeqFull
<1>. QED
  BY <1>2, <1>4, <1>5 DEF IsPrefix, w

\* The history of a session is its script up to the first line that exits, all
\* of it when the session ends well, and the counter counts for all shells.
THEOREM HistoryIsScript == Spec => []HistoryAsRun
<1>1. IndInv => HistoryAsRun
  <2>1. SUFFICES ASSUME IndInv PROVE HistoryAsRun
    OBVIOUS
  <2>2. executed = Cardinality(UNION {{s} \X Counted(sh[s].history) : s \in Shells})
    BY <2>1 DEF IndInv, Recording
  <2>3. ASSUME NEW s \in Shells
        PROVE  LET h == sh[s].history
               IN /\ IsPrefix(h, Script(s))
                  /\ \A i \in 1..Len(h) - 1 : Rule(h[i]) # "exit"
                  /\ At(s, "ended") /\ client[s].end # "cut" =>
                        h = Script(s) \/ Rule(Last(h)) = "exit"
    <3>. DEFINE h == sh[s].history
                a == sh[s].lines
                b == FlattenSeq(sh[s].queue)
    <3>1. h \in Seq(Lines) /\ a \in Seq(Lines) /\ b \in Seq(Lines)
      <4>1. sh[s].queue \in Seq(Seq(Lines))
        BY <2>1 DEF IndInv, Typed, ShellState
      <4>2. b \in Seq(Lines)
        BY <4>1, FlattenType
      <4>. QED
        BY <2>1, <4>2 DEF IndInv, Typed, ShellState
    <3>2. (h \o a) \o b = Script(s)
      BY <2>1 DEF IndInv, Scripted, OnScript
    <3>3. /\ \A i \in DOMAIN h : Rule(h[i]) = "exit" => i = Len(h)
          /\ At(s, "ended") /\ client[s].end # "cut" =>
                \/ a = <<>> /\ sh[s].queue = <<>>
                \/ Rule(Last(h)) = "exit"
      BY <2>1 DEF IndInv, Recording, Records, At
    <3>4. sh[s].queue = <<>> => b = <<>>
      BY <3>1, FlattenSmall
    <3>. HIDE DEF h, a, b
    <3>5. IsPrefix(h, Script(s))
      <4>1. a \o b \in Seq(Lines) /\ (h \o a) \o b = h \o (a \o b)
        BY <3>1, JoinOfThree, ConcatProperties
      <4>. QED
        BY <3>1, <3>2, <4>1, BeginsJoined
    <3>6. \A i \in 1..Len(h) - 1 : Rule(h[i]) # "exit"
      <4>1. DOMAIN h = 1..Len(h) /\ Len(h) \in Nat
        BY <3>1
      <4>. QED
        BY <3>3, <4>1
    <3>7. a = <<>> /\ b = <<>> => h = Script(s)
      BY <3>1, <3>2, ConcatEmptySeq
    <3>. QED
      BY <3>3, <3>4, <3>5, <3>6, <3>7 DEF h, a, b
  <2>. QED
    BY <2>2, <2>3 DEF HistoryAsRun
<1>. QED
  BY <1>1, Invariant, PTL

\* No step removes a capture of what was offered, and once the file has been
\* acknowledged none changes it, unless another shell is offered the name: a
\* later upload of the same name finds it and leaves it alone.  Where the disk
\* has failed, only the file is sure to stay, not what it holds.
Kept ==
    \A s \in Shells : \A n \in Offers(s) : \A k \in {Name(s, n)} :
        /\ FileExists(captures, k) => FileExists(captures', k)
        /\ /\ client[s].acks > n + 1 /\ Alone(s, k)'
           /\ FileExists(captures, k) /\ k \notin failed
           => captures'[k] = captures[k]

\* What a sender has been told is captured stays as it is.
THEOREM AcknowledgedKept == Spec => [][Kept]_vars
<1>1. IndInv /\ [Next]_vars => [Kept]_vars
  <2>1. SUFFICES ASSUME IndInv, Next,
                        NEW r \in Shells, NEW n \in Offers(r), NEW k, k = Name(r, n)
                 PROVE  /\ FileExists(captures, k) => FileExists(captures', k)
                        /\ /\ client[r].acks > n + 1 /\ Alone(r, k)'
                           /\ FileExists(captures, k) /\ k \notin failed
                           => captures'[k] = captures[k]
    BY DEF Kept
  <2>2. PICK s \in Shells : Shell(s) \/ Sending(s)
    BY <2>1 DEF Next, Sending
  <2>3. Typed /\ Scripted /\ Paced /\ InStep /\ Grown /\ Capturing
    BY <2>1 DEF IndInv
  <2>4. FileExists(captures, k) => FileExists(captures', k)
    BY <2>2, <2>3, CapturesStep
  <2>5. ASSUME client[r].acks > n + 1, Alone(r, k)', FileExists(captures, k),
               k \notin failed
        PROVE  captures'[k] = captures[k]
    <3>1. Alone(r, k)
      BY <2>2, <2>3, <2>5, OffersStep, StandingNames
    <3>2. ~ First(r, k, client[r].acks - 1)
      <4>1. client[r].acks \in Nat /\ n \in Nat
        BY <2>3, OfferFacts
      <4>2. ~ (client[r].acks - 1 <= n)
        BY <2>5, <4>1
      <4>. QED
        BY <2>1, <4>2 DEF First
    <3>. QED
      BY <2>2, <2>3, <2>5, <3>1, <3>2, OwnCapture
  <2>. QED
    BY <2>4, <2>5
<1>. QED
  BY <1>1, Invariant, PTL DEF Spec
====
