------------------------------- MODULE Store -------------------------------
(***************************************************************************)
(* One JSON file of internal/store (plan.json or config.json), written by  *)
(* writeJSON through a temporary file of a fixed name and read by          *)
(* readJSON.  Each system call is a step of its own.                       *)
(*                                                                         *)
(* The file system is external: two directory entries, inodes with their   *)
(* content, and what a power loss may do - an inode written since its last *)
(* fsync keeps any prefix, and the entry of the file may be the one before *)
(* a rename that has not reached the disk.  A document is as many blocks   *)
(* as its size; a write at offset 0 covers that many blocks and leaves     *)
(* what lies behind them.                                                  *)
(***************************************************************************)
EXTENDS Naturals, Sequences, FiniteSets

CONSTANTS
    Writer,     \* API handlers that may be in Save
    Inode,
    None,       \* no inode: the directory entry does not exist
    Doc,        \* documents
    Size,       \* their lengths in blocks
    Absent      \* what the file holds when it does not exist

ASSUME NoneAssumption   == None \notin Inode
ASSUME AbsentAssumption == Absent \notin Doc
ASSUME SizeAssumption   == Size \in [Doc -> Nat \ {0}]

VARIABLES
    path,       \* inode of the file
    tmp,        \* inode of path + ".tmp"
    data,       \* content of an inode, as the running system sees it
    dirty,      \* inodes written since their last fsync
    older,      \* inodes the file's entry may still have on the disk
    pc, doc, fd, \* per writer: where it is in writeJSON, what it saves, its file
    rfd, got    \* readJSON: its open file and what it returned

fs   == <<path, tmp, data, dirty, older>>
vars == <<fs, pc, doc, fd, rfd, got>>

Whole(d) == [i \in 1..Size[d] |-> d]

Content == Seq(Doc)

\* What json.Unmarshal makes of the bytes.
Decode(content) ==
    IF content = <<>> THEN "zero"
    ELSE IF \E d \in Doc : content = Whole(d)
         THEN CHOOSE d \in Doc : content = Whole(d)
         ELSE "error"

Overwrite(old, new) ==
    new \o (IF Len(old) > Len(new) THEN SubSeq(old, Len(new) + 1, Len(old)) ELSE <<>>)

Prefixes(c) == {SubSeq(c, 1, k) : k \in 0..Len(c)}

-----------------------------------------------------------------------------
Init ==
    /\ path = None /\ tmp = None
    /\ data = [i \in Inode |-> <<>>]
    /\ dirty = {} /\ older = {}
    /\ pc = [w \in Writer |-> "idle"]
    /\ doc = [w \in Writer |-> Absent]
    /\ fd = [w \in Writer |-> None]
    /\ rfd = None /\ got = "none"

-----------------------------------------------------------------------------
(* writeJSON *)

\* Inodes nothing names, nothing has open and the disk does not refer to.
Free == Inode \ ({path, tmp, rfd} \cup older \cup {fd[w] : w \in Writer})

Call(w, d) ==
    /\ pc[w] = "idle"
    /\ pc' = [pc EXCEPT ![w] = "open"]
    /\ doc' = [doc EXCEPT ![w] = d]
    /\ UNCHANGED <<fs, fd, rfd, got>>

\* Mutants: no O_TRUNC; the temporary file is skipped and path opened itself.
OpenTmp_NoTrunc(w) ==
    /\ pc[w] = "open"
    /\ \E i \in IF tmp = None THEN Free ELSE {tmp} :
          /\ tmp' = i
          /\ fd' = [fd EXCEPT ![w] = i]
    /\ UNCHANGED data
    /\ pc' = [pc EXCEPT ![w] = "write"]
    /\ UNCHANGED <<path, dirty, older, doc, rfd, got>>
OpenTmp_InPlace(w) ==
    /\ pc[w] = "open"
    /\ \E i \in IF path = None THEN Free ELSE {path} :
          /\ tmp' = i
          /\ fd' = [fd EXCEPT ![w] = i]
          /\ data' = [data EXCEPT ![i] = <<>>]
          /\ dirty' = dirty \cup {i}
    /\ pc' = [pc EXCEPT ![w] = "write"]
    /\ UNCHANGED <<path, older, doc, rfd, got>>

\* os.OpenFile(tmp, O_WRONLY|O_CREATE|O_TRUNC)
OpenTmp(w) ==
    /\ pc[w] = "open"
    /\ \E i \in IF tmp = None THEN Free ELSE {tmp} :
          /\ tmp' = i
          /\ fd' = [fd EXCEPT ![w] = i]
          /\ data' = [data EXCEPT ![i] = <<>>]
          /\ dirty' = dirty \cup {i}
    /\ pc' = [pc EXCEPT ![w] = "write"]
    /\ UNCHANGED <<path, older, doc, rfd, got>>

\* f.Write: all of it, or a prefix and an error (a full disk).
Write(w) ==
    /\ pc[w] = "write"
    /\ \E k \in 0..Size[doc[w]] :
          /\ data' = [data EXCEPT ![fd[w]] = Overwrite(@, SubSeq(Whole(doc[w]), 1, k))]
          /\ pc' = [pc EXCEPT ![w] = IF k = Size[doc[w]] THEN "sync" ELSE "remove"]
    /\ dirty' = dirty \cup {fd[w]}
    /\ UNCHANGED <<path, tmp, older, doc, fd, rfd, got>>

\* Mutant: the fsync is left out.
Sync_Skipped(w) ==
    /\ pc[w] = "sync"
    /\ pc' = [pc EXCEPT ![w] = "rename"]
    /\ fd' = [fd EXCEPT ![w] = None]
    /\ UNCHANGED <<fs, doc, rfd, got>>

\* f.Sync and f.Close; an error of either removes the temporary file.
Sync(w) ==
    /\ pc[w] = "sync"
    /\ \/ dirty' = dirty \ {fd[w]} /\ pc' = [pc EXCEPT ![w] = "rename"]
       \/ UNCHANGED dirty /\ pc' = [pc EXCEPT ![w] = "remove"]
    /\ fd' = [fd EXCEPT ![w] = None]
    /\ UNCHANGED <<path, tmp, data, older, doc, rfd, got>>

\* os.Rename; it fails when the temporary file is gone, or of itself.
Rename(w) ==
    /\ pc[w] = "rename"
    /\ \/ /\ tmp # None
          /\ path' = tmp /\ tmp' = None
          /\ older' = older \cup {path}
          /\ pc' = [pc EXCEPT ![w] = "idle"]
       \/ pc' = [pc EXCEPT ![w] = "remove"] /\ UNCHANGED <<path, tmp, older>>
    /\ UNCHANGED <<data, dirty, doc, fd, rfd, got>>

\* The error paths close and remove path + ".tmp", whoever's it is by now.
RemoveTmp(w) ==
    /\ pc[w] = "remove"
    /\ tmp' = None
    /\ fd' = [fd EXCEPT ![w] = None]
    /\ pc' = [pc EXCEPT ![w] = "idle"]
    /\ UNCHANGED <<path, data, dirty, older, doc, rfd, got>>

-----------------------------------------------------------------------------
(* readJSON *)

OpenRead ==
    /\ rfd = None
    /\ IF path = None THEN got' = "fresh" /\ UNCHANGED rfd
                      ELSE rfd' = path /\ UNCHANGED got
    /\ UNCHANGED <<fs, pc, doc, fd>>

Read ==
    /\ rfd # None
    /\ got' = Decode(data[rfd])
    /\ rfd' = None
    /\ UNCHANGED <<fs, pc, doc, fd>>

-----------------------------------------------------------------------------
(* The machine *)

\* The directory's entry reaches the disk.
FlushDir ==
    /\ older # {}
    /\ older' = {}
    /\ UNCHANGED <<path, tmp, data, dirty, pc, doc, fd, rfd, got>>

Stopped ==
    /\ pc' = [w \in Writer |-> "idle"]
    /\ fd' = [w \in Writer |-> None]
    /\ rfd' = None /\ got' = "none"
    /\ UNCHANGED doc

\* The daemon is killed: the page cache survives it.
Kill == Stopped /\ UNCHANGED fs

\* Power is lost: what was not flushed is anybody's guess.
PowerLoss ==
    /\ Stopped
    /\ path' \in older \cup {path}
    /\ tmp' \in ({tmp, path} \ {path'}) \cup {None}
    /\ data' \in {f \in [Inode -> UNION {Prefixes(data[i]) : i \in Inode}] :
                    \A i \in Inode :
                       f[i] \in IF i \notin {path', tmp'} THEN {<<>>}
                               ELSE IF i \in dirty THEN Prefixes(data[i]) ELSE {data[i]}}
    /\ dirty' = {} /\ older' = {}

Save(w) == \/ \E d \in Doc : Call(w, d)
           \/ OpenTmp(w) \/ Write(w) \/ Sync(w) \/ Rename(w) \/ RemoveTmp(w)

Next == \/ \E w \in Writer : Save(w)
        \/ OpenRead \/ Read
        \/ FlushDir \/ Kill \/ PowerLoss

Spec == Init /\ [][Next]_vars

-----------------------------------------------------------------------------
(* Properties *)

TypeOK ==
    /\ path \in Inode \cup {None}
    /\ tmp \in Inode \cup {None}
    /\ tmp # None => tmp \notin older \cup {path}
    /\ data \in [Inode -> Content]
    /\ dirty \subseteq Inode
    /\ older \subseteq Inode \cup {None}
    /\ pc \in [Writer -> {"idle", "open", "write", "sync", "rename", "remove"}]
    /\ doc \in [Writer -> Doc \cup {Absent}]
    /\ fd \in [Writer -> Inode \cup {None}]
    /\ rfd \in Inode \cup {None}
    /\ got \in Doc \cup {"none", "fresh", "zero", "error"}

Holds(i) == i = None \/ (i \notin dirty /\ Decode(data[i]) \in Doc)

\* writeJSON's comment: "the rename only ever exposes fully-flushed content".
\* Whatever the file's entry points to, now or after a power loss, is a whole
\* document that is on the disk.
WholeDocument == \A i \in older \cup {path} : Holds(i)

\* The file behaves as AtomicFile: a save takes effect in one step or not at all.
Value(i) == IF i = None THEN Absent ELSE Decode(data[i])

File == INSTANCE AtomicFile WITH
    value <- Value(path),
    older <- {Value(i) : i \in older}

IsAtomicFile == File!Spec
=============================================================================
