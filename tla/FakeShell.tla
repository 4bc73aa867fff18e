----------------------------- MODULE FakeShell -----------------------------
(***************************************************************************)
(* The fake shells of fake_shell.go and the commands built into them, of   *)
(* fake_shell_commands.go, over the one fake file system (activeFS) and    *)
(* the one directory of captured uploads that all shells share.            *)
(*                                                                         *)
(* A shell runs what its plan gives it: the lines of one command passed    *)
(* along with the connection (exec), or inputs that are typed one by one.  *)
(* A line is what is left of it after the rewriters: the configured rules  *)
(* it matches, its command, and its arguments without flags.  What is      *)
(* printed is left out, except for the acknowledgements of SCP.            *)
(*                                                                         *)
(* Each call on the file system is a step of its own.  Each end reads only *)
(* from its own connection, so what it reads in one go is one step.        *)
(***************************************************************************)
EXTENDS FakeFS, FiniteSets, FiniteSetsExt

CONSTANTS Shells,
          Plans,       \* the sessions TLC tries: each maps shells to plans
          DefaultFS,   \* what has been extracted to defaultfs
          User,        \* shell -> the path of its user's home
          NoFile,      \* the file OpenFile returns for a directory
          DiskFails    \* the plans whose disk of captures fails, or is full

VARIABLES
    plan,      \* shell -> exec, inputs, upload, whitelisted
    sh,        \* the FakeShell of each session, and where its goroutine is
    client,    \* the other end: parts sent, acknowledgements, its connection
    wire,      \* shell -> what has been sent to it and not been read
    tree,      \* activeFS
    captures,  \* captures/scp-uploads, a tree as well
    failed,    \* the names whose capture has gone wrong, which nothing notes
    executed,  \* the counter of executed commands
    payloads   \* histories handed to the payload store

vars == <<plan, sh, client, wire, tree, captures, failed, executed, payloads>>

-----------------------------------------------------------------------------
(* What sessions are made of                                               *)

\* An argument that is a path, and a line of input.
Args  == [from : {"root", "home", "cwd", "outside"}, path : Paths]
Lines == [rules : SUBSET STRING, cmd : STRING, args : Seq(Args),
         bare : BOOLEAN, sink : BOOLEAN]

\* The parts of an upload: headers, and after that of a file its contents.
FileHeader == [t : {"C"}, name : Names, length : Nat]
Header     == FileHeader \cup [t : {"D"}, name : Names] \cup [t : {"E", "T"}]
FileData   == [t : {"data"}, v : Seq(Bytes)]

IsUpload(u) ==
    /\ u \in Seq(Header \cup FileData)
    /\ \A i \in DOMAIN u :
          IF u[i].t = "C"
          THEN i < Len(u) /\ u[i + 1].t = "data" /\ Len(u[i + 1].v) = u[i].length
          ELSE u[i].t = "data" => i > 1 /\ u[i - 1].t = "C"

IsSink(l) == l.cmd = "scp" /\ l.sink

\* A session: a command that is passed along, or inputs; one upload at most,
\* to a target that insideMerged accepts.
IsPlan(p) ==
    LET script == FlattenSeq(p.inputs)
        sinks  == {i \in DOMAIN script : IsSink(script[i])}
    IN /\ p = [exec |-> p.exec, inputs |-> p.inputs,
               upload |-> p.upload, whitelisted |-> p.whitelisted]
       /\ p.exec \in BOOLEAN /\ p.whitelisted \in BOOLEAN
       /\ p.inputs \in Seq(Seq(Lines)) /\ IsUpload(p.upload)
       /\ IF p.exec THEN Len(p.inputs) = 1 ELSE p.upload = <<>>
       /\ \A i, j \in sinks : i = j
       /\ \A i \in sinks : /\ script[i].args # <<>>
                            /\ script[i].args[1].from \in {"root", "cwd"}

ASSUME PlansAssumption ==
    /\ \A p \in Plans : DOMAIN p = Shells /\ \A s \in Shells : IsPlan(p[s])
    /\ User \in [Shells -> Paths]
    /\ NoFile \notin Paths
    /\ DiskFails \subseteq Plans
    /\ "home" \in Names /\ IsTree(Put(DefaultFS, [q \in {Root} |-> Dir]))

\* What is on the wire, and a shell: where its goroutine is, FakeShell's own
\* fields, the loops' variables and those of cmdScp.
Token == Header \cup [t : {"byte"}, v : Bytes] \cup [t : {"nul"}]

Locations == {"read", "line", "close", "ended", "panicked", "rm", "unlink",
              "cat", "touch", "type", "mkdir", "open", "data", "write",
              "check", "capture", "save", "done"}

ShellState ==
    [pc : Locations, cwd : Paths, queue : Seq(Seq(Lines)), lines : Seq(Lines),
     history : Seq(Lines), args : Seq(Args), path : Paths,
     target : Args, from : {"root", "cwd"}, dirs : Seq(Paths),
     file : Paths \cup {NoFile}, left : Nat, key : Paths, data : Seq(Bytes)]

-----------------------------------------------------------------------------
(* Lines                                                                   *)

\* The order in which Exec tries what a line may match.
RuleOrder == <<"blank", "exit", "simple", "denied", "disk", "not found",
               "no file", "not implemented", "bullshit", "builtin">>

\* The first rule that a line matches; the templates take what is left.
Rule(l) == LET i == SelectInSeq(RuleOrder, LAMBDA r : r \in l.rules)
           IN IF i = 0 THEN "template" ELSE RuleOrder[i]

\* toAbs, for a path that is given from the root, the home or the current
\* directory; Clean keeps all but a path with too many ".." inside the root.
ToAbs(s, a) == CASE a.from = "outside" -> Outside
                 [] a.from = "root"    -> a.path
                 [] a.from = "home"    -> User[s] \o a.path
                 [] a.from = "cwd"     -> sh[s].cwd \o a.path

Go(s, f) == sh' = [sh EXCEPT ![s] = Put(@, f)]

Panic(s) == Go(s, [pc |-> "panicked"])

\* What Exec adds to the history, and takes off the lines.  The recording is
\* what has been printed, and left out.
Recorded(s, l) == [history |-> Append(sh[s].history, l),
                   lines   |-> Tail(sh[s].lines)]

Count(l) == executed' = IF Rule(l) \in {"blank", "exit"} THEN executed
                                                        ELSE executed + 1

At(s, pc) == sh[s].pc = pc

\* The next line, if it is run by a built-in command.
Runs(s, cmd) == /\ At(s, "line")
                /\ sh[s].lines # <<>>
                /\ Rule(Head(sh[s].lines)) = "builtin"
                /\ Head(sh[s].lines).cmd = cmd
                /\ Count(Head(sh[s].lines))
                /\ UNCHANGED <<plan, client, wire, captures, failed, payloads>>

-----------------------------------------------------------------------------
(* Reading and dispatching lines                                           *)

\* HandleInput: ReadLine, and the lines the rewriters have made of it.  When
\* the connection is gone it returns io.EOF, or an error that panics.
ReadLine(s) ==
    /\ At(s, "read")
    /\ \/ /\ sh[s].queue # <<>> /\ client[s].end = "open"
          /\ Go(s, [pc |-> "line", lines |-> Head(sh[s].queue),
                    queue |-> Tail(sh[s].queue)])
       \/ client[s].end # "open" /\ Go(s, [pc |-> "close"])
       \/ client[s].end = "cut" /\ Panic(s)
    /\ UNCHANGED <<plan, client, wire, tree, captures, failed, executed, payloads>>

\* The loop over the lines ends: Process closes, HandleInput reads on.
LinesDone(s) ==
    /\ At(s, "line") /\ sh[s].lines = <<>>
    /\ Go(s, [pc |-> IF plan[s].exec THEN "close" ELSE "read"])
    /\ UNCHANGED <<plan, client, wire, tree, captures, failed, executed, payloads>>

\* Mutant of Exec: exit leaves only the loop over the lines of an input.
ExecExitsInner(s) ==
    /\ At(s, "line") /\ sh[s].lines # <<>>
    /\ LET l == Head(sh[s].lines)
       IN /\ Rule(l) # "builtin"
          /\ Count(l)
          /\ Go(s, Put(Recorded(s, l),
                       IF Rule(l) = "exit" THEN [lines |-> <<>>] ELSE <<>>))
    /\ UNCHANGED <<plan, client, wire, tree, captures, failed, payloads>>

\* A line that no built-in command runs: ignored if blank, otherwise answered
\* and recorded.  exit leaves the loop over the lines and the one over inputs.
Exec(s) ==
    /\ At(s, "line") /\ sh[s].lines # <<>>
    /\ LET l == Head(sh[s].lines)
       IN /\ Rule(l) # "builtin"
          /\ Count(l)
          /\ Go(s, Put(Recorded(s, l),
                       IF Rule(l) = "exit" THEN [pc |-> "close"] ELSE <<>>))
    /\ UNCHANGED <<plan, client, wire, tree, captures, failed, payloads>>

\* Close: the write may fail on a connection that has been cut off, with
\* io.EOF, which is fine, or with an error that panics.  Then sessionHandler:
\* the payload, except of a whitelisted host; a recovered panic skips that.
Close(s) ==
    /\ At(s, "close")
    /\ \/ /\ Go(s, [pc |-> "ended"])
          /\ payloads' = IF plan[s].whitelisted THEN payloads
                         ELSE payloads \cup {sh[s].history}
       \/ client[s].end = "cut" /\ Panic(s) /\ UNCHANGED payloads
    /\ UNCHANGED <<plan, client, wire, tree, captures, failed, executed>>

-----------------------------------------------------------------------------
(* Built-in commands                                                       *)

\* Without an argument, home.
CmdCd(s) ==
    /\ Runs(s, "cd")
    /\ LET l    == Head(sh[s].lines)
           path == IF l.args = <<>> THEN User[s] ELSE ToAbs(s, l.args[1])
       IN Go(s, Put(Recorded(s, l),
                    IF DirExists(tree, path) THEN [cwd |-> path] ELSE <<>>))
    /\ UNCHANGED tree

\* cmdLs and cmdPwd change nothing.  ls asserts that every error is one of
\* the kernel's, and for a file prints its argument, of which there is none
\* when the current directory has become a file.
CmdLs(s) ==
    /\ Runs(s, "ls") \/ Runs(s, "pwd")
    /\ LET l == Head(sh[s].lines)
       IN IF /\ l.cmd = "ls"
             /\ IF l.args = <<>> THEN FileExists(tree, sh[s].cwd)
                                 ELSE ToAbs(s, l.args[1]) = Outside
          THEN Go(s, Put(Recorded(s, l), [pc |-> "panicked"]))
          ELSE Go(s, Recorded(s, l))
    /\ UNCHANGED tree

\* cmdRm tests each argument and stops at the first that does not exist.
CmdRm(s) ==
    /\ Runs(s, "rm")
    /\ Go(s, Put(Recorded(s, Head(sh[s].lines)),
                 [pc |-> "rm", args |-> Head(sh[s].lines).args]))
    /\ UNCHANGED tree

RmTest(s) ==
    /\ At(s, "rm")
    /\ IF /\ sh[s].args # <<>>
          /\ LET p == ToAbs(s, Head(sh[s].args))
             IN DirExists(tree, p) \/ FileExists(tree, p)
       THEN Go(s, [pc |-> "unlink"])
       ELSE Go(s, [pc |-> "line"])
    /\ UNCHANGED <<plan, client, wire, tree, captures, failed, executed, payloads>>

\* RemoveFile; it may be gone by now, or not be empty.  A file that some
\* shell has open lives on, without its name.
RmUnlink(s) ==
    /\ At(s, "unlink")
    /\ LET p == ToAbs(s, Head(sh[s].args))
       IN /\ tree' = RemoveFile(tree, p)
          /\ sh' = [r \in Shells |->
                      IF r = s THEN Put(sh[s], [pc |-> "rm", args |-> Tail(sh[s].args)])
                      ELSE IF sh[r].file = p /\ p \notin DOMAIN tree'
                      THEN [sh[r] EXCEPT !.file = NoFile]
                      ELSE sh[r]]
    /\ UNCHANGED <<plan, client, wire, captures, failed, executed, payloads>>

\* cmdCat and cmdTouch: OpenFile makes the missing directories, even to read.
\* With flags only, the argument that is not there is used all the same.
CmdOpen(s) ==
    /\ Runs(s, "cat") \/ Runs(s, "touch")
    /\ LET l == Head(sh[s].lines)
           p == ToAbs(s, l.args[1])
       IN \/ /\ l.args = <<>>
             /\ Go(s, Put(Recorded(s, l),
                          IF l.bare THEN <<>> ELSE [pc |-> "panicked"]))
             /\ UNCHANGED tree
          \/ /\ l.args # <<>>
             /\ IF p \in {Outside, Root} THEN Go(s, Recorded(s, l)) /\ UNCHANGED tree
                ELSE /\ tree' = MkdirAll(tree, Front(p))
                     /\ Go(s, Put(Recorded(s, l), [pc |-> l.cmd, path |-> p]))

\* The file itself: touch creates it, cat only reads it.
Open(s) ==
    /\ \/ At(s, "touch") /\ tree' = IF CanOpen(tree, sh[s].path)
                                    THEN Created(tree, sh[s].path) ELSE tree
       \/ At(s, "cat") /\ UNCHANGED tree
    /\ Go(s, [pc |-> "line"])
    /\ UNCHANGED <<plan, client, wire, captures, failed, executed, payloads>>

-----------------------------------------------------------------------------
(* The SCP receiver                                                        *)

Ack(s) == client' = [client EXCEPT ![s].acks = @ + 1]

\* cmdScp: as a sink it says that it is ready, and is in the target first.
CmdScp(s) ==
    /\ At(s, "line") /\ sh[s].lines # <<>>
    /\ LET l == Head(sh[s].lines)
       IN /\ Rule(l) = "builtin" /\ l.cmd = "scp"
          /\ Count(l)
          /\ IF l.sink THEN /\ Ack(s)
                            /\ Go(s, Put(Recorded(s, l),
                                         [pc |-> "type", target |-> l.args[1],
                                          from |-> l.args[1].from,
                                          dirs |-> <<l.args[1].path>>]))
             ELSE Go(s, Recorded(s, l)) /\ UNCHANGED client
    /\ UNCHANGED <<plan, wire, tree, captures, failed, payloads>>

\* Where the name of an upload starts, which is its directories, joined, and
\* its file name: with no directory it has a slash in front; with directories
\* it has one if the first of them does.
Base(s) == IF sh[s].dirs = <<>> THEN Root
           ELSE ToAbs(s, [from |-> sh[s].from, path |-> <<>>])

\* No further message: the client has hung up, or is gone.
ScpEnd(s) ==
    /\ At(s, "type")
    /\ wire[s] = <<>> /\ client[s].end # "open"
    /\ Go(s, [pc |-> "line"])
    /\ UNCHANGED <<plan, client, wire, tree, captures, failed, executed, payloads>>

\* Takes the next message if it is of one of these types.
Message(s, types) == /\ At(s, "type")
                     /\ wire[s] # <<>> /\ Head(wire[s]).t \in types
                     /\ wire' = [wire EXCEPT ![s] = Tail(@)]
                     /\ UNCHANGED <<plan, captures, failed, executed, payloads>>

\* C, a file: acknowledged before it is opened.
ScpFile(s) ==
    /\ Message(s, {"C"})
    /\ Ack(s)
    /\ LET c   == Head(wire[s])
           key == Append(FlattenSeq(sh[s].dirs), c.name)
       IN Go(s, [pc |-> "mkdir", left |-> c.length, key |-> key,
                 path |-> Base(s) \o key])
    /\ UNCHANGED tree

\* D: enters a directory and creates it, from the root whatever the target.
ScpDir(s) ==
    /\ Message(s, {"D"})
    /\ Ack(s)
    /\ LET dirs == Append(sh[s].dirs, <<Head(wire[s]).name>>)
       IN /\ Go(s, [dirs |-> dirs])
          /\ tree' = MkdirAll(tree, FlattenSeq(dirs))

\* Mutant of ScpLeave: E is acknowledged and forgotten.
ScpLeaveStays(s) ==
    /\ Message(s, {"E"})
    /\ Ack(s)
    /\ UNCHANGED <<tree, sh>>

\* E: leaves a directory; slicing the empty list panics.  When the target has
\* been left, a directory that is entered next is the first, and relative.
ScpLeave(s) ==
    /\ Message(s, {"E"})
    /\ IF sh[s].dirs = <<>> THEN Panic(s) /\ UNCHANGED client
       ELSE LET dirs == Front(sh[s].dirs)
            IN Ack(s) /\ Go(s, [dirs |-> dirs,
                                from |-> IF dirs = <<>> THEN "cwd" ELSE sh[s].from])
    /\ UNCHANGED tree

\* Mutant of ScpOther: every message is acknowledged.
ScpOtherAcks(s) ==
    /\ Message(s, {"T", "nul", "byte"})
    /\ Ack(s)
    /\ UNCHANGED <<tree, sh>>

\* T is acknowledged; whatever else comes, such as the zero byte after the
\* contents of a file, is read over.
ScpOther(s) ==
    /\ Message(s, {"T", "nul", "byte"})
    /\ IF Head(wire[s]).t = "T" THEN Ack(s) ELSE UNCHANGED client
    /\ UNCHANGED <<tree, sh>>

\* OpenFile of an upload, in its two steps.  A directory of that name gives no
\* file and the upload goes on; any other error ends cmdScp.
ScpMkdir(s) ==
    /\ At(s, "mkdir")
    /\ tree' = MkdirAll(tree, Front(sh[s].path))
    /\ Go(s, [pc |-> "open"])
    /\ UNCHANGED <<plan, client, wire, captures, failed, executed, payloads>>

ScpOpen(s) ==
    /\ At(s, "open")
    /\ LET p == sh[s].path
       IN IF ~ CanOpen(tree, p) THEN Go(s, [pc |-> "line"]) /\ UNCHANGED tree
          ELSE /\ tree' = Created(tree, p)
               /\ Go(s, [pc |-> "data",
                         file |-> IF DirExists(tree, p) THEN NoFile ELSE p])
    /\ UNCHANGED <<plan, client, wire, captures, failed, executed, payloads>>

\* ReadBytesUntilEOF: as many bytes as were announced, or as there are.
\* Only an error other than EOF breaks the upload off.
ScpData(s) ==
    /\ At(s, "data")
    /\ LET n == Min({sh[s].left, Len(wire[s])})
       IN /\ n = sh[s].left \/ client[s].end # "open"
          /\ \/ Go(s, [pc |-> "write", data |-> [i \in 1..n |-> wire[s][i].v]])
             \/ client[s].end = "cut" /\ n < sh[s].left
                /\ Go(s, [pc |-> "line", file |-> NoFile])
          /\ wire' = [wire EXCEPT ![s] = SubSeq(@, n + 1, Len(@))]
    /\ UNCHANGED <<plan, client, tree, captures, failed, executed, payloads>>

\* file.Write, from the start of the file, if it is one and has its name yet.
ScpWrite(s) ==
    /\ At(s, "write")
    /\ tree' = IF sh[s].file = NoFile THEN tree
               ELSE [tree EXCEPT ![sh[s].file] = Overwritten(@, sh[s].data)]
    /\ Go(s, [pc |-> "check"])
    /\ UNCHANGED <<plan, client, wire, captures, failed, executed, payloads>>

\* Mutant of ScpCheck: looks for the upload in the fake file system.
ScpCheckTree(s) ==
    /\ At(s, "check")
    /\ Go(s, [pc |-> IF FileExists(tree, sh[s].path) THEN "done"
                                                    ELSE "capture"])
    /\ UNCHANGED <<plan, client, wire, tree, captures, failed, executed, payloads>>

\* The captured copy: tested, then created or truncated, then written, and
\* acknowledged whatever came of it; errors are ignored.
ScpCheck(s) ==
    /\ At(s, "check")
    /\ Go(s, [pc |-> IF FileExists(captures, sh[s].key) THEN "done"
                                                       ELSE "capture"])
    /\ UNCHANGED <<plan, client, wire, tree, captures, failed, executed, payloads>>

\* The disk fails, is full or does not let the server in: MkdirAll makes the
\* parents with mode 0644, which only root enters.  The copy is missing, or is
\* cut short.
Fail(s) == plan \in DiskFails /\ failed' = failed \cup {sh[s].key}

\* MkdirAll, which may get to any of the parents, and the open of WriteFile.
ScpCapture(s) ==
    /\ At(s, "capture")
    /\ LET key     == sh[s].key
           parents == MkdirAll(captures, Front(key))
       IN \/ /\ CanOpen(parents, key) /\ ~ DirExists(parents, key)
             /\ captures' = Put(parents, [q \in {key} |-> <<>>])
             /\ Go(s, [pc |-> "save"])
             /\ UNCHANGED failed
          \/ /\ ~ CanOpen(parents, key) \/ DirExists(parents, key)
             /\ captures' = parents
             /\ Go(s, [pc |-> "done"])
             /\ UNCHANGED failed
          \/ /\ \E q \in Prefixes(Front(key)) : captures' = MkdirAll(captures, q)
             /\ Go(s, [pc |-> "done"])
             /\ Fail(s)
    /\ UNCHANGED <<plan, client, wire, tree, executed, payloads>>

\* Mutant of ScpSave: appended to whatever another shell has written.
ScpSaveAppends(s) ==
    /\ At(s, "save")
    /\ captures' = [captures EXCEPT ![sh[s].key] = @ \o sh[s].data]
    /\ Go(s, [pc |-> "done"])
    /\ UNCHANGED <<plan, client, wire, tree, failed, executed, payloads>>

ScpSave(s) ==
    /\ At(s, "save")
    /\ \E data \in Prefixes(sh[s].data) :
          /\ captures' = [captures EXCEPT ![sh[s].key] = Overwritten(@, data)]
          /\ IF data = sh[s].data THEN UNCHANGED failed ELSE Fail(s)
    /\ Go(s, [pc |-> "done"])
    /\ UNCHANGED <<plan, client, wire, tree, executed, payloads>>

\* Mutant of ScpDone: the second acknowledgement is missing.
ScpDoneSilent(s) ==
    /\ At(s, "done")
    /\ Go(s, [pc |-> "type", file |-> NoFile])
    /\ UNCHANGED <<plan, client, wire, tree, captures, failed, executed, payloads>>

\* The file stays open until cmdScp returns, but is not used again.
ScpDone(s) ==
    /\ At(s, "done")
    /\ Ack(s)
    /\ Go(s, [pc |-> "type", file |-> NoFile])
    /\ UNCHANGED <<plan, wire, tree, captures, failed, executed, payloads>>

-----------------------------------------------------------------------------
(* The other end (external)                                                *)

\* What an SCP sender sends, one part per acknowledgement: each header, and
\* the contents of a file with a zero byte at the end.
Part(u) ==
    IF u.t # "data" THEN <<u>>
    ELSE [j \in 1..Len(u.v) |-> [t |-> "byte", v |-> u.v[j]]] \o <<[t |-> "nul"]>>

\* The next part, once what came before it has been acknowledged.
Send(s) ==
    /\ client[s].end = "open"
    /\ client[s].sent < client[s].acks
    /\ client[s].sent < Len(plan[s].upload)
    /\ client' = [client EXCEPT ![s].sent = @ + 1]
    /\ wire' = [wire EXCEPT ![s] = @ \o Part(plan[s].upload[client[s].sent + 1])]
    /\ UNCHANGED <<plan, sh, tree, captures, failed, executed, payloads>>

\* It hangs up after the last acknowledgement, or its last input.
HangUp(s) ==
    /\ client[s].end = "open"
    /\ IF plan[s].exec THEN client[s].acks > Len(plan[s].upload)
                       ELSE sh[s].queue = <<>>
    /\ client' = [client EXCEPT ![s].end = "eof"]
    /\ UNCHANGED <<plan, sh, wire, tree, captures, failed, executed, payloads>>

\* The connection breaks, or runs into max_idle or max_session_age, and
\* some of what was under way is lost.
Cut(s) ==
    /\ client[s].end = "open"
    /\ client' = [client EXCEPT ![s].end = "cut"]
    /\ \E n \in 0..Len(wire[s]) : wire' = [wire EXCEPT ![s] = SubSeq(@, 1, n)]
    /\ UNCHANGED <<plan, sh, tree, captures, failed, executed, payloads>>

-----------------------------------------------------------------------------
\* NewFakeShell, and Process: a command that came along, or inputs.
NewFakeShell(s, p) ==
    [pc |-> IF p.exec THEN "line" ELSE "read", cwd |-> User[s],
     queue |-> IF p.exec THEN <<>> ELSE p.inputs,
     lines |-> IF p.exec THEN p.inputs[1] ELSE <<>>,
     history |-> <<>>, args |-> <<>>, path |-> Root,
     target |-> [from |-> "root", path |-> Root], from |-> "root", dirs |-> <<>>,
     file |-> NoFile, left |-> 0, key |-> Root, data |-> <<>>]

Init ==
    /\ plan \in Plans
    /\ sh = [s \in Shells |-> NewFakeShell(s, plan[s])]
    /\ client = [s \in Shells |-> [sent |-> 0, acks |-> 0, end |-> "open"]]
    /\ wire = [s \in Shells |-> <<>>]
    /\ tree = Mounted(DefaultFS, <<"home">>)
    /\ captures = [q \in {Root} |-> Dir]
    /\ failed = {}
    /\ executed = 0
    /\ payloads = {}

\* A step of the goroutine that serves a session.
Shell(s) ==
    \/ ReadLine(s) \/ LinesDone(s) \/ Exec(s) \/ Close(s)
    \/ CmdCd(s) \/ CmdLs(s) \/ CmdRm(s) \/ RmTest(s) \/ RmUnlink(s)
    \/ CmdOpen(s) \/ Open(s) \/ CmdScp(s) \/ ScpEnd(s)
    \/ ScpFile(s) \/ ScpDir(s) \/ ScpLeave(s) \/ ScpOther(s)
    \/ ScpMkdir(s) \/ ScpOpen(s) \/ ScpData(s) \/ ScpWrite(s)
    \/ ScpCheck(s) \/ ScpCapture(s) \/ ScpSave(s) \/ ScpDone(s)

Next == \E s \in Shells : Shell(s) \/ Send(s) \/ HangUp(s) \/ Cut(s)

Spec == Init /\ [][Next]_vars

\* Goroutines are scheduled; a client goes on, or hangs up, or the server's
\* max_idle and max_session_age cut it off.
Fairness == \A s \in Shells : /\ WF_vars(Shell(s))
                              /\ WF_vars(Send(s) \/ HangUp(s))

FairSpec == Spec /\ Fairness

-----------------------------------------------------------------------------
(* Properties                                                              *)

\* The types; both directory trees are trees as the kernel keeps them, a shell
\* writes only to a file that has its name yet and at most what was announced,
\* and there are never more acknowledgements than parts, and one to begin with.
TypeOK ==
    /\ plan \in Plans
    /\ sh \in [Shells -> ShellState]
    /\ client \in [Shells -> [sent : Nat, acks : Nat, end : {"open", "eof", "cut"}]]
    /\ wire \in [Shells -> Seq(Token)]
    /\ IsTree(tree) /\ IsTree(captures)
    /\ failed \subseteq Paths /\ (failed # {} => plan \in DiskFails)
    /\ executed \in Nat
    /\ \A h \in payloads : h \in Seq(Lines)
    /\ \A s \in Shells :
          /\ client[s].sent <= client[s].acks
          /\ client[s].acks <= Len(plan[s].upload) + 1
          /\ sh[s].file # NoFile => FileExists(tree, sh[s].file)
          /\ sh[s].pc \in {"write", "check", "capture", "save", "done"} =>
                Len(sh[s].data) <= sh[s].left

\* The sender's own view of a name: the directories it has entered and not
\* left with the headers up to a part, and the name of the file.
Turn(dirs, u) == CASE u.t = "D" -> Append(dirs, <<u.name>>)
                   [] u.t = "E" /\ dirs # <<>> -> Front(dirs)
                   [] OTHER -> dirs

Walk(target, u) ==
    LET dirs[n \in 0..Len(u)] == IF n = 0 THEN <<target>> ELSE Turn(dirs[n - 1], u[n])
    IN dirs

Dirs(s, n) == Walk(sh[s].target.path, plan[s].upload)[n]

Name(s, n) == Append(FlattenSeq(Dirs(s, n)), plan[s].upload[n].name)

\* The parts of s, out of those sent, that are headers of files.
Offers(s) == {n \in 1..client[s].sent : plan[s].upload[n].t = "C"}

\* What the receiver may have kept of the file of header n.
Sent(s, n) == LET v == plan[s].upload[n + 1].v
              IN IF client[s].end = "cut" \/ Name(s, n) \in failed
                 THEN Prefixes(v) ELSE {v}

\* Where names start: at the target until the sender has left it, then at the
\* root, or below the current directory once he has entered another directory.
From(s, n)  == IF \E m \in 0..n : Dirs(s, m) = <<>> THEN "cwd" ELSE sh[s].target.from
Start(s, n) == IF Dirs(s, n) = <<>> THEN Root
               ELSE ToAbs(s, [from |-> From(s, n), path |-> <<>>])

\* While a file is received, the last part that was acknowledged is its header,
\* and its names in the fake file system and in the captures are the one the
\* sender means, with the start that the directories left so far give it: both
\* ends walk the same tree, over all the headers, acknowledgements and files
\* that came before.
NamedAsSent ==
    \A s \in Shells :
        sh[s].pc \in {"mkdir", "open", "data", "write", "check", "capture", "save", "done"}
        => LET n == client[s].acks - 1
           IN /\ n \in Offers(s)
              /\ sh[s].key = Name(s, n)
              /\ sh[s].path = Start(s, n) \o Name(s, n)

\* Whatever was offered under a name, part of it if the sender was cut off or
\* the disk has failed.
Received(k) ==
    UNION {UNION {Sent(s, n) : n \in {m \in Offers(s) : Name(s, m) = k}} : s \in Shells}

\* A captured upload is what was sent under that name, or the start of it if
\* the sender was cut off or the disk has failed under it.  Shells that capture
\* the same name at the same time, each having found nothing there, can leave
\* one over the other, so that from every position on it is one of them up to
\* its end; nothing else is ever in a file.
CapturedWhole ==
    \A k \in DOMAIN captures :
        FileExists(captures, k) =>
            \A i \in DOMAIN captures[k] : \E c \in Received(k) :
                /\ Len(c) \in i..Len(captures[k])
                /\ \A j \in i..Len(c) : captures[k][j] = c[j]

\* n is the first offer of s under that name.
First(s, k, n) == /\ n \in Offers(s) /\ Name(s, n) = k
                  /\ \A m \in Offers(s) : Name(s, m) = k => n <= m

\* No other shell is offered that name.
Alone(s, k) == \A r \in Shells \ {s} : \A m \in Offers(r) : Name(r, m) # k

\* When a sender has the acknowledgement for a file, a capture of that name
\* exists, unless a file is in place of a directory above it or the disk has
\* failed under that name; and if no other shell is offered that name, it is
\* the first he sent, in full.
Captured(s, n) ==
    LET k == Name(s, n)
    IN \/ k \in failed
       \/ DirExists(captures, k)
       \/ /\ FileExists(captures, k)
          /\ Alone(s, k) => \E m \in Offers(s) : First(s, k, m) /\ captures[k] \in Sent(s, m)
       \/ \E q \in Prefixes(k) \ {k} : FileExists(captures, q)

UploadCaptured ==
    \A s \in Shells : \A n \in Offers(s) :
        client[s].acks > n + 1 => Captured(s, n)

\* The lines a session is given, in order.
Script(s) == FlattenSeq(plan[s].inputs)

\* The lines of a history that count.
Counted(h) == {i \in DOMAIN h : Rule(h[i]) \notin {"blank", "exit"}}

\* The history is the script, up to the first line that exits, and all of it
\* when a session has ended well; the counter of executed commands counts all
\* shells, whatever becomes of their sessions.
HistoryAsRun ==
    /\ \A s \in Shells :
          LET h == sh[s].history
          IN /\ IsPrefix(h, Script(s))
             /\ \A i \in 1..Len(h) - 1 : Rule(h[i]) # "exit"
             /\ At(s, "ended") /\ client[s].end # "cut" =>
                   h = Script(s) \/ Rule(Last(h)) = "exit"
    /\ executed = Cardinality(UNION {{s} \X Counted(sh[s].history) : s \in Shells})

\* Uses of a built-in command that panic, and so cost a session its payload.
Careless(s) ==
    \/ \E i \in DOMAIN Script(s) :
          LET l == Script(s)[i]
          IN \/ l.cmd \in {"cat", "touch"} /\ l.args = <<>> /\ ~ l.bare
             \/ l.cmd = "ls"
    \/ \E n \in 1..Len(plan[s].upload) : Dirs(s, n) = <<>>

\* Every session ends, an upload that was cut off included, and hands over its
\* history, unless it was cut off or has used one of the built-in commands in
\* a way that panics.
SessionsEnd ==
    \A s \in Shells :
        <>(\/ /\ At(s, "ended")
              /\ plan[s].whitelisted \/ sh[s].history \in payloads
           \/ At(s, "panicked") /\ (client[s].end = "cut" \/ Careless(s)))
====
