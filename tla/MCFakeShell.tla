---------------------------- MODULE MCFakeShell ----------------------------
(* An instance of FakeShell for TLC.                                       *)
EXTENDS FakeShell, TLC

CONSTANTS s1, s2

TheNames == {"etc", "f", "home", "u1", "u2", "x", "d", "g", "up"}
TheBytes == 1..9

TheUsers == (s1 :> <<"home", "u1">>) @@ (s2 :> <<"home", "u2">>)
TheFS    == [q \in {<<"etc">>, <<"home">>} |-> Dir] @@ (<<"etc", "f">> :> <<9>>)

Arg(from, path) == [from |-> from, path |-> path]

\* Lines, by the rules they match.
Line(rules, cmd, args) ==
    [rules |-> rules, cmd |-> cmd, args |-> args, bare |-> args = <<>>,
     sink |-> cmd = "scp"]
Builtin(cmd, args) == Line({"builtin"}, cmd, args)
Flags(cmd)         == [Builtin(cmd, <<>>) EXCEPT !.bare = FALSE]
Scp(target)        == Builtin("scp", <<target>>)
BlankLine          == Line({"blank"}, "", <<>>)
ExitLine           == Line({"exit", "simple"}, "exit", <<>>)
Simple             == Line({"simple", "builtin"}, "ls", <<>>)
Template           == Line({}, "uname", <<>>)

\* Sessions.
Passed(lines, upload) == [exec |-> TRUE, inputs |-> <<lines>>,
                          upload |-> upload, whitelisted |-> FALSE]
Typed(inputs) == [exec |-> FALSE, inputs |-> inputs, upload |-> <<>>,
                  whitelisted |-> FALSE]
Trusted(p) == [p EXCEPT !.whitelisted = TRUE]

\* Parts of an upload, to be joined.
C(name, v) == <<[t |-> "C", name |-> name, length |-> Len(v)], [t |-> "data", v |-> v]>>
D(name)    == <<[t |-> "D", name |-> name]>>
E          == <<[t |-> "E"]>>
T          == <<[t |-> "T"]>>

Pair(p, q) == (s1 :> p) @@ (s2 :> q)

Up   == Arg("root", <<"up">>)
Here == Arg("cwd", <<>>)

\* Uploads to a disk that fails: one name twice, one name from
\* both shells, and one below a directory that the other uploads as a file.
DiskPlans == {
    Pair(Passed(<<Scp(Up)>>, C("f", <<3>>) \o C("f", <<4, 5>>)),
         Typed(<<<<Template>>>>)),
    Pair(Passed(<<Scp(Up)>>, C("f", <<1>>)), Passed(<<Scp(Up)>>, C("f", <<2, 3>>))),
    Pair(Passed(<<Scp(Up)>>, D("d") \o C("f", <<1, 2>>)),
         Passed(<<Scp(Up)>>, C("d", <<4>>)))}

ThePlans == DiskPlans \cup {
    \* Two uploads of one name, the second of them twice.
    Pair(Passed(<<Scp(Up)>>, C("f", <<1, 2>>)),
         Passed(<<Scp(Up)>>, C("f", <<3>>) \o C("f", <<4, 5>>))),
    \* A tree is uploaded; files appear and go in its place.
    Pair(Passed(<<Builtin("cd", <<Arg("root", <<"etc">>)>>), Scp(Here)>>,
                T \o D("d") \o C("f", <<1>>) \o E \o C("g", <<>>) \o C("d", <<3>>)),
         Typed(<<<<Builtin("touch", <<Arg("root", <<"etc", "d">>)>>)>>,
                 <<Builtin("rm", <<Arg("root", <<"etc", "d">>),
                                   Arg("root", <<"etc", "g">>)>>)>>>>)),
    \* One upload makes a file where the other one has a directory.
    Pair(Passed(<<Scp(Up)>>, D("d") \o C("f", <<1>>) \o E),
         Trusted(Passed(<<Scp(Up), Template>>, C("d", <<2>>)))),
    \* Inputs of several lines, exit among them, and commands that panic.
    Pair(Typed(<<<<BlankLine, Simple, Builtin("cd", <<>>), Builtin("pwd", <<>>)>>,
                 <<Template, ExitLine, Template>>, <<Template>>>>),
         Trusted(Typed(<<<<Builtin("touch", <<>>),
                           Builtin("cat", <<Arg("root", <<"home", "u1", "x">>)>>)>>,
                         <<Builtin("rm", <<Arg("home", <<>>)>>),
                           Builtin("ls", <<Arg("outside", <<>>)>>), Template>>>>))),
    \* More directories are left than were entered; flags without a file.
    Pair(Passed(<<Scp(Here)>>, E \o C("f", <<1>>) \o E),
         Typed(<<<<Builtin("touch", <<Arg("root", <<"home", "u2">>)>>)>>,
                 <<Builtin("ls", <<>>)>>>>)),
    \* The target is left, and another directory entered.
    Pair(Passed(<<Scp(Up)>>, C("f", <<1>>) \o E \o D("d") \o C("g", <<2>>)),
         Typed(<<<<Template>>>>)),
    Pair(Passed(<<[Scp(Up) EXCEPT !.sink = FALSE],
                  Builtin("cat", <<Arg("root", <<>>)>>), Flags("touch")>>, <<>>),
         Passed(<<ExitLine, Template>>, <<>>))}
====
