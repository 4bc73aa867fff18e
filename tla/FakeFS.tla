------------------------------- MODULE FakeFS -------------------------------
(***************************************************************************)
(* The fake file system of fake_file_system.go: the operations of FakeFS   *)
(* on the merged directory, as functions of a tree, and the tree a node    *)
(* starts with.  A path is the sequence of its names; a tree maps the      *)
(* paths that exist to Dir or to the contents of a file, a sequence of     *)
(* bytes.  The kernel's part (what os.Remove, os.MkdirAll and os.OpenFile  *)
(* do for root, who passes every permission check) is external.            *)
(***************************************************************************)
EXTENDS Integers, Sequences, SequencesExt

CONSTANTS Names,    \* of files and directories
          Bytes,
          Dir,      \* a directory
          Outside   \* a path that insideMerged refuses

Paths == Seq(Names)
Root  == <<>>

ASSUME FSAssumption == Dir \notin Seq(Bytes) /\ Outside \notin Paths

DirExists(t, p)  == p \in DOMAIN t /\ t[p] = Dir
FileExists(t, p) == p \in DOMAIN t /\ t[p] # Dir

\* The tree with the nodes of f, which are new or replace those of t.
Put(t, f) == [p \in DOMAIN t \cup DOMAIN f |-> IF p \in DOMAIN f THEN f[p] ELSE t[p]]

\* MkdirAll: all missing directories, or nothing if a file is in the way.
MkdirAll(t, p) ==
    IF \E q \in Prefixes(p) : FileExists(t, q) THEN t
    ELSE Put(t, [q \in Prefixes(p) |-> Dir])

\* RemoveFile, not recursive: a file or an empty directory.
RemoveFile(t, p) ==
    IF p = Root \/ \E q \in DOMAIN t : IsStrictPrefix(p, q) THEN t
    ELSE [q \in DOMAIN t \ {p} |-> t[q]]

\* OpenFile, after its MkdirAll of the parent: with O_CREATE, without O_TRUNC.
CanOpen(t, p) == p \in DOMAIN t \/ (p # Root /\ DirExists(t, Front(p)))
Created(t, p) == IF p \in DOMAIN t THEN t ELSE Put(t, [q \in {p} |-> <<>>])

\* Write at offset 0: what was longer keeps its tail.
Overwritten(old, data) == data \o SubSeq(old, Len(data) + 1, Len(old))

\* Init, NewSession, Mount and initOverlayFS: a sandbox of its own for every
\* start, over what has been extracted to defaultfs, with a /home in it.
Mounted(defaultfs, home) == MkdirAll(Put(defaultfs, [q \in {Root} |-> Dir]), home)

\* A tree as the kernel keeps it: every node is in a directory.
IsTree(t) == /\ t = [p \in DOMAIN t |-> t[p]] /\ DOMAIN t \subseteq Paths
             /\ \A p \in DOMAIN t : t[p] = Dir \/ t[p] \in Seq(Bytes)
             /\ DirExists(t, Root)
             /\ \A p \in DOMAIN t \ {Root} : DirExists(t, Front(p))
====
