---------------------------- MODULE StoreProofs ----------------------------
(***************************************************************************)
(* Proofs about Store, for any inodes, documents and document sizes:       *)
(*                                                                         *)
(*   - the state keeps its type, however many handlers save at once;       *)
(*   - when saves do not overlap, the file's entry always leads to a whole *)
(*     document that is on the disk, and the file is an AtomicFile.        *)
(*                                                                         *)
(* The second needs its hypothesis: nothing in internal/store serialises   *)
(* writeJSON, and the run store_two shows what two handlers do to it.      *)
(***************************************************************************)
EXTENDS Store, TLAPS

USE NoneAssumption, AbsentAssumption, SizeAssumption

-----------------------------------------------------------------------------
(* The operators on contents *)

\* A document on the disk is a sequence of its blocks, and is not empty.
LEMMA WholeType ==
  ASSUME NEW d \in Doc
  PROVE  /\ Whole(d) \in Content
         /\ Len(Whole(d)) = Size[d]
         /\ Whole(d) # <<>>
  <1>1. Size[d] \in Nat \ {0}
    OBVIOUS
  <1>2. Whole(d) \in [1..Size[d] -> Doc]
    BY DEF Whole
  <1>3. Whole(d) \in Content
    BY <1>1, <1>2 DEF Content
  <1>4. Len(Whole(d)) = Size[d]
    BY <1>1, <1>2, <1>3 DEF Content, Whole
  <1> QED BY <1>1, <1>3, <1>4

\* A whole document reads back as a document.
LEMMA WholeDecodes ==
  ASSUME NEW d \in Doc
  PROVE  Decode(Whole(d)) \in Doc
  BY WholeType DEF Decode

\* What json.Unmarshal can answer.
LEMMA DecodeType ==
  ASSUME NEW c
  PROVE  Decode(c) \in Doc \cup {"zero", "error"}
  BY DEF Decode

\* A prefix of some content is content.
LEMMA PrefixType ==
  ASSUME NEW c \in Content, NEW k \in 0..Len(c)
  PROVE  SubSeq(c, 1, k) \in Content
  BY DEF Content

LEMMA PrefixesType ==
  ASSUME NEW c \in Content
  PROVE  Prefixes(c) \subseteq Content
  <1>1. \A k \in 0..Len(c) : SubSeq(c, 1, k) \in Content
    BY PrefixType
  <1> QED BY <1>1, Zenon DEF Prefixes

\* Writing all of a document into an empty file leaves exactly the document.
LEMMA WriteWhole ==
  ASSUME NEW d \in Doc
  PROVE  Overwrite(<<>>, SubSeq(Whole(d), 1, Size[d])) = Whole(d)
  <1>1. ASSUME NEW c \in Content
        PROVE  SubSeq(c, 1, Len(c)) = c /\ Overwrite(<<>>, c) = c
    BY DEF Overwrite, Content
  <1> QED BY <1>1, WholeType

\* Any write of a prefix of a document leaves some content.
LEMMA WriteType ==
  ASSUME NEW old \in Content, NEW d \in Doc, NEW k \in 0..Size[d]
  PROVE  Overwrite(old, SubSeq(Whole(d), 1, k)) \in Content
  <1>1. ASSUME NEW new \in Content
        PROVE  Overwrite(old, new) \in Content
    BY DEF Overwrite, Content
  <1>2. SubSeq(Whole(d), 1, k) \in Content
    BY WholeType, PrefixType
  <1> QED BY <1>1, <1>2

-----------------------------------------------------------------------------
(* Types, for any number of writers *)

\* What a writer has in hand where its step needs it: a document and an open
\* file.
Equipped ==
    \A w \in Writer :
       /\ pc[w] \in {"open", "write", "sync", "rename"} => doc[w] \in Doc
       /\ pc[w] \in {"write", "sync"} => fd[w] \in Inode

Typed == TypeOK /\ Equipped

LEMMA InitTyped == Init => Typed
  BY DEF Init, Typed, TypeOK, Equipped, Content

LEMMA PowerLossTyped ==
  ASSUME Typed, PowerLoss
  PROVE  Typed'
  <1> USE DEF Typed
  <1>1. path' \in Inode \cup {None} /\ tmp' \in Inode \cup {None}
    BY DEF PowerLoss, TypeOK
  <1>2. (tmp # None => tmp \notin older \cup {path})'
    BY DEF PowerLoss
  <1>3. data' \in [Inode -> Content]
    <2>1. UNION {Prefixes(data[i]) : i \in Inode} \subseteq Content
      BY PrefixesType DEF TypeOK
    <2> QED BY <2>1 DEF PowerLoss
  <1>4. dirty' = {} /\ older' = {} /\ doc' = doc /\ rfd' = None /\ got' = "none"
        /\ pc' = [w \in Writer |-> "idle"] /\ fd' = [w \in Writer |-> None]
    BY DEF PowerLoss, Stopped
  <1> QED BY <1>1, <1>2, <1>3, <1>4 DEF TypeOK, Equipped

LEMMA NextTyped == Typed /\ [Next]_vars => Typed'
  <1> SUFFICES ASSUME Typed, [Next]_vars
               PROVE  Typed'
    OBVIOUS
  <1> USE DEF Typed, TypeOK, Equipped
  <1>1. ASSUME NEW w \in Writer, NEW d \in Doc, Call(w, d)
        PROVE  Typed'
    BY <1>1 DEF Call, fs
  <1>2. ASSUME NEW w \in Writer, OpenTmp(w)
        PROVE  Typed'
    <2>1. PICK i \in IF tmp = None THEN Free ELSE {tmp} :
             /\ tmp' = i
             /\ fd' = [fd EXCEPT ![w] = i]
             /\ data' = [data EXCEPT ![i] = <<>>]
             /\ dirty' = dirty \cup {i}
      BY <1>2 DEF OpenTmp
    <2>2. i \in Inode /\ i \notin older \cup {path}
      BY <2>1 DEF Free
    <2>3. data' \in [Inode -> Content]
      BY <2>1, <2>2 DEF Content
    <2> QED BY <1>2, <2>1, <2>2, <2>3 DEF OpenTmp
  <1>3. ASSUME NEW w \in Writer, Write(w)
        PROVE  Typed'
    <2>1. PICK k \in 0..Size[doc[w]] :
             /\ data' = [data EXCEPT ![fd[w]] = Overwrite(@, SubSeq(Whole(doc[w]), 1, k))]
             /\ pc' = [pc EXCEPT ![w] = IF k = Size[doc[w]] THEN "sync" ELSE "remove"]
      BY <1>3 DEF Write
    <2>2. doc[w] \in Doc /\ fd[w] \in Inode /\ pc[w] = "write"
      BY <1>3 DEF Write
    <2>3. data' \in [Inode -> Content]
      BY <2>1, <2>2, WriteType
    <2> QED BY <1>3, <2>1, <2>2, <2>3 DEF Write
  <1>4. ASSUME NEW w \in Writer, Sync(w)
        PROVE  Typed'
    BY <1>4 DEF Sync
  <1>5. ASSUME NEW w \in Writer, Rename(w)
        PROVE  Typed'
    BY <1>5 DEF Rename
  <1>6. ASSUME NEW w \in Writer, RemoveTmp(w)
        PROVE  Typed'
    BY <1>6 DEF RemoveTmp
  <1>7. CASE OpenRead
    BY <1>7 DEF OpenRead, fs
  <1>8. CASE Read
    BY <1>8, DecodeType DEF Read, fs
  <1>9. CASE FlushDir
    BY <1>9 DEF FlushDir
  <1>10. CASE Kill
    BY <1>10 DEF Kill, Stopped, fs
  <1>11. CASE PowerLoss
    BY <1>11, PowerLossTyped
  <1>12. CASE UNCHANGED vars
    BY <1>12 DEF vars, fs
  <1> QED
    BY <1>1, <1>2, <1>3, <1>4, <1>5, <1>6, <1>7, <1>8, <1>9, <1>10, <1>11, <1>12
    DEF Next, Save

\* The state keeps its type, and the temporary file is never an inode the
\* file's own entry has or may still have on the disk, for any number of
\* handlers inside writeJSON.
THEOREM TypeCorrect == Spec => []TypeOK
  <1>1. Typed => TypeOK
    BY DEF Typed
  <1> QED BY InitTyped, NextTyped, <1>1, PTL DEF Spec

-----------------------------------------------------------------------------
(* One save at a time *)

\* No two handlers are inside writeJSON.  With one writer it always holds.
Serial == \A v, w \in Writer : pc[v] # "idle" /\ pc[w] # "idle" => v = w

\* Where a save has got to with its temporary file.
InHand ==
    \A w \in Writer :
       /\ pc[w] = "write" => fd[w] = tmp /\ data[tmp] = <<>>
       /\ pc[w] = "sync" => fd[w] = tmp /\ data[tmp] = Whole(doc[w])
       /\ pc[w] = "rename" => tmp \in Inode \ dirty /\ data[tmp] = Whole(doc[w])

IInv == Typed /\ InHand /\ WholeDocument

\* A step that leaves the contents alone, dirties nothing and adds no entry
\* keeps the file whole.
LEMMA SameContents ==
  ASSUME WholeDocument, UNCHANGED data, dirty' \subseteq dirty,
         older' \cup {path'} \subseteq older \cup {path}
  PROVE  WholeDocument'
  BY DEF WholeDocument, Holds

\* A step that writes only the temporary file keeps the file whole.
LEMMA OnlyTheTemporary ==
  ASSUME WholeDocument, NEW i, i \notin older \cup {path}, UNCHANGED <<path, older>>,
         dirty' \subseteq dirty \cup {i},
         \A j \in Inode \ {i} : data'[j] = data[j],
         older \cup {path} \subseteq Inode \cup {None}
  PROVE  WholeDocument'
  BY DEF WholeDocument, Holds

\* In a step of the only save in progress, that save's facts are all there is
\* to InHand.
LEMMA OneInHand ==
  ASSUME Serial, NEW w \in Writer, pc[w] # "idle",
         \A v \in Writer \ {w} : pc'[v] = pc[v],
         pc'[w] = "write" => fd'[w] = tmp' /\ data'[tmp'] = <<>>,
         pc'[w] = "sync" => fd'[w] = tmp' /\ data'[tmp'] = Whole(doc'[w]),
         pc'[w] = "rename" => tmp' \in Inode \ dirty' /\ data'[tmp'] = Whole(doc'[w])
  PROVE  InHand'
  BY DEF InHand, Serial

LEMMA InitIInv == Init => IInv
  <1>1. Init => InHand /\ WholeDocument
    BY DEF Init, InHand, WholeDocument, Holds
  <1> QED BY <1>1, InitTyped DEF IInv

\* The entry a power loss leaves leads to an inode that was on the disk.
LEMMA PowerLossWhole ==
  ASSUME IInv, PowerLoss
  PROVE  InHand' /\ WholeDocument'
  <1> USE DEF IInv
  <1>1. pc' = [w \in Writer |-> "idle"] /\ dirty' = {} /\ older' = {}
        /\ path' \in older \cup {path}
    BY DEF PowerLoss, Stopped
  <1>2. Holds(path)'
    <2>1. CASE path' = None
      BY <2>1 DEF Holds
    <2>2. CASE path' # None
      <3>1. path' \in Inode /\ path' \notin dirty
        BY <1>1, <2>2 DEF WholeDocument, Holds, Typed, TypeOK
      <3>2. data'[path'] = data[path']
        BY <3>1 DEF PowerLoss
      <3> QED BY <1>1, <3>1, <3>2, <2>2 DEF WholeDocument, Holds
    <2> QED BY <2>1, <2>2
  <1> QED BY <1>1, <1>2 DEF InHand, WholeDocument

LEMMA NextIInv == IInv /\ Serial /\ [Next]_vars => IInv'
  <1> SUFFICES ASSUME IInv, Serial, [Next]_vars
               PROVE  IInv'
    OBVIOUS
  <1> USE DEF IInv
  <1> Typed'
    BY NextTyped
  <1>1. ASSUME NEW w \in Writer, NEW d \in Doc, Call(w, d)
        PROVE  IInv'
    <2>1. WholeDocument'
      BY <1>1, SameContents DEF Call, fs
    <2>2. InHand'
      BY <1>1 DEF Call, fs, Typed, TypeOK, InHand
    <2> QED BY <2>1, <2>2
  <1>2. ASSUME NEW w \in Writer, OpenTmp(w)
        PROVE  IInv'
    <2>1. PICK i \in IF tmp = None THEN Free ELSE {tmp} :
             /\ tmp' = i
             /\ fd' = [fd EXCEPT ![w] = i]
             /\ data' = [data EXCEPT ![i] = <<>>]
             /\ dirty' = dirty \cup {i}
      BY <1>2 DEF OpenTmp
    <2>2. i \in Inode /\ i \notin older \cup {path}
      BY <2>1 DEF Free, Typed, TypeOK
    <2>3. WholeDocument'
      BY <1>2, <2>1, <2>2, OnlyTheTemporary DEF OpenTmp, Typed, TypeOK
    <2>4. InHand'
      BY <1>2, <2>1, <2>2, OneInHand DEF OpenTmp, Typed, TypeOK
    <2> QED BY <2>3, <2>4
  <1>3. ASSUME NEW w \in Writer, Write(w)
        PROVE  IInv'
    <2>1. PICK k \in 0..Size[doc[w]] :
             /\ data' = [data EXCEPT ![fd[w]] = Overwrite(@, SubSeq(Whole(doc[w]), 1, k))]
             /\ pc' = [pc EXCEPT ![w] = IF k = Size[doc[w]] THEN "sync" ELSE "remove"]
      BY <1>3 DEF Write
    <2>2. /\ doc[w] \in Doc /\ fd[w] = tmp /\ fd[w] \in Inode
          /\ tmp \notin older \cup {path} /\ data[tmp] = <<>>
      BY <1>3 DEF Write, Typed, TypeOK, Equipped, InHand
    <2>3. WholeDocument'
      BY <1>3, <2>1, <2>2, OnlyTheTemporary DEF Write, Typed, TypeOK
    <2>4. k = Size[doc[w]] => data'[tmp] = Whole(doc[w])
      BY <2>1, <2>2, WriteWhole DEF Typed, TypeOK
    <2>5. InHand'
      BY <1>3, <2>1, <2>2, <2>4, OneInHand DEF Write, Typed, TypeOK
    <2> QED BY <2>3, <2>5
  <1>4. ASSUME NEW w \in Writer, Sync(w)
        PROVE  IInv'
    <2>1. WholeDocument'
      BY <1>4, SameContents DEF Sync
    <2>2. fd[w] = tmp /\ tmp \in Inode /\ data[tmp] = Whole(doc[w])
      BY <1>4 DEF Sync, Typed, TypeOK, Equipped, InHand
    <2>3. InHand'
      BY <1>4, <2>2, OneInHand DEF Sync, Typed, TypeOK
    <2> QED BY <2>1, <2>3
  <1>5. ASSUME NEW w \in Writer, Rename(w)
        PROVE  IInv'
    <2>1. tmp \in Inode \ dirty /\ data[tmp] = Whole(doc[w]) /\ doc[w] \in Doc
      BY <1>5 DEF Rename, Typed, Equipped, InHand
    <2>2. Holds(tmp)
      BY <2>1, WholeDecodes DEF Holds
    <2>3. WholeDocument'
      BY <1>5, <2>2 DEF Rename, WholeDocument, Holds
    <2>4. InHand'
      BY <1>5, OneInHand DEF Rename, Typed, TypeOK
    <2> QED BY <2>3, <2>4
  <1>6. ASSUME NEW w \in Writer, RemoveTmp(w)
        PROVE  IInv'
    <2>1. WholeDocument'
      BY <1>6, SameContents DEF RemoveTmp
    <2>2. InHand'
      BY <1>6, OneInHand DEF RemoveTmp, Typed, TypeOK
    <2> QED BY <2>1, <2>2
  <1>7. CASE OpenRead
    BY <1>7, SameContents DEF OpenRead, fs, InHand
  <1>8. CASE Read
    BY <1>8, SameContents DEF Read, fs, InHand
  <1>9. CASE FlushDir
    <2>1. WholeDocument'
      BY <1>9, SameContents DEF FlushDir
    <2> QED BY <1>9, <2>1 DEF FlushDir, InHand
  <1>10. CASE Kill
    <2>1. WholeDocument'
      BY <1>10, SameContents DEF Kill, fs
    <2> QED BY <1>10, <2>1 DEF Kill, Stopped, InHand
  <1>11. CASE PowerLoss
    BY <1>11, PowerLossWhole
  <1>12. CASE UNCHANGED vars
    <2>1. WholeDocument'
      BY <1>12, SameContents DEF vars, fs
    <2> QED BY <1>12, <2>1 DEF vars, fs, InHand
  <1> QED
    BY <1>1, <1>2, <1>3, <1>4, <1>5, <1>6, <1>7, <1>8, <1>9, <1>10, <1>11, <1>12
    DEF Next, Save

\* As long as saves do not overlap, whatever the file's entry leads to, now or
\* after a power loss, is a whole document that is on the disk: the fsync is before the rename and nothing is
\* written to an inode the entry has.
THEOREM WholeDocumentHolds == Spec /\ []Serial => []WholeDocument
  <1>1. IInv => WholeDocument
    BY DEF IInv
  <1> QED BY InitIInv, NextIInv, <1>1, PTL DEF Spec

-----------------------------------------------------------------------------
(* The file is an AtomicFile *)

\* A step that leaves the entries and what they lead to alone is a stutter.
LEMMA SameValues ==
  ASSUME UNCHANGED <<path, older>>,
         \A i \in older \cup {path} : Value(i)' = Value(i)
  PROVE  UNCHANGED File!vars
  BY DEF File!vars

LEMMA InitFile == Init => File!Init
  BY DEF Init, File!Init, Value

\* The rename replaces the document; a power loss leaves the entry's document
\* or an earlier one; the directory reaching the disk settles which; every
\* other step is invisible.
LEMMA NextFile == IInv /\ [Next]_vars => [File!Next]_(File!vars)
  <1> SUFFICES ASSUME IInv, [Next]_vars
               PROVE  [File!Next]_(File!vars)
    OBVIOUS
  <1> USE DEF IInv
  <1>1. ASSUME UNCHANGED <<path, data, older>>
        PROVE  UNCHANGED File!vars
    BY <1>1, SameValues DEF Value
  <1>2. ASSUME NEW w \in Writer, OpenTmp(w)
        PROVE  UNCHANGED File!vars
    <2>1. PICK i \in IF tmp = None THEN Free ELSE {tmp} :
             data' = [data EXCEPT ![i] = <<>>]
      BY <1>2 DEF OpenTmp
    <2>2. i \notin older \cup {path}
      BY <2>1 DEF Free, Typed, TypeOK
    <2>3. \A j \in older \cup {path} : Value(j)' = Value(j)
      BY <2>1, <2>2 DEF Value, Typed, TypeOK
    <2> QED BY <1>2, <2>3, SameValues DEF OpenTmp
  <1>3. ASSUME NEW w \in Writer, Write(w)
        PROVE  UNCHANGED File!vars
    <2>1. fd[w] \notin older \cup {path}
      BY <1>3 DEF Write, InHand, Typed, TypeOK, Equipped
    <2>2. \A j \in Inode \ {fd[w]} : data'[j] = data[j]
      BY <1>3 DEF Write, Typed, TypeOK
    <2>3. \A j \in older \cup {path} : Value(j)' = Value(j)
      BY <2>1, <2>2 DEF Value, Typed, TypeOK
    <2> QED BY <1>3, <2>3, SameValues DEF Write
  <1>4. ASSUME NEW w \in Writer, Rename(w)
        PROVE  File!Replace \/ UNCHANGED File!vars
    <2>1. CASE UNCHANGED path /\ UNCHANGED older
      BY <1>1, <1>4, <2>1 DEF Rename
    <2>2. CASE path' = tmp /\ older' = older \cup {path}
      <3>1. tmp \in Inode /\ data[tmp] = Whole(doc[w]) /\ doc[w] \in Doc
        BY <1>4 DEF Rename, Typed, Equipped, InHand
      <3>2. Value(path)' \in Doc
        BY <1>4, <2>2, <3>1, WholeDecodes DEF Rename, Value
      <3>3. \A i : Value(i)' = Value(i)
        BY <1>4 DEF Rename, Value
      <3>4. {Value(i) : i \in older}' = {Value(i) : i \in older} \cup {Value(path)}
        BY <2>2, <3>3
      <3> QED BY <3>2, <3>4 DEF File!Replace
    <2> QED BY <1>4, <2>1, <2>2 DEF Rename
  <1>5. CASE FlushDir
    BY <1>5 DEF FlushDir, File!Next, File!Settle, Value
  <1>6. CASE PowerLoss
    <2>1. path' \in older \cup {path} /\ older' = {}
      BY <1>6 DEF PowerLoss
    <2>2. Value(path)' = Value(path')
      <3>1. CASE path' = None
        BY <3>1 DEF Value
      <3>2. CASE path' # None
        <4>1. path' \in Inode /\ path' \notin dirty
          BY <2>1, <3>2 DEF WholeDocument, Holds, Typed, TypeOK
        <4>2. data'[path'] = data[path']
          BY <1>6, <4>1 DEF PowerLoss
        <4> QED BY <4>2 DEF Value
      <3> QED BY <3>1, <3>2
    <2> QED BY <2>1, <2>2 DEF File!Next, File!PowerLoss
  <1>7. ASSUME NEW w \in Writer, Save(w)
        PROVE  [File!Next]_(File!vars)
    <2>1. (\E d \in Doc : Call(w, d)) \/ Sync(w) \/ RemoveTmp(w)
             => UNCHANGED <<path, data, older>>
      BY DEF Call, Sync, RemoveTmp, fs
    <2> QED BY <1>1, <1>2, <1>3, <1>4, <1>7, <2>1 DEF Save, File!Next
  <1>8. OpenRead \/ Read \/ Kill \/ UNCHANGED vars => UNCHANGED <<path, data, older>>
    BY DEF OpenRead, Read, Kill, vars, fs
  <1> QED BY <1>1, <1>5, <1>6, <1>7, <1>8 DEF Next

\* As long as saves do not overlap, a save takes effect in one step or not at all, and a power loss brings back
\* a document the file has held, never part of one.
THEOREM ImplementsAtomicFile == Spec /\ []Serial => IsAtomicFile
  BY InitIInv, NextIInv, InitFile, NextFile, PTL DEF Spec, IsAtomicFile, File!Spec

\* With a single handler that saves, both hold of the specification as it
\* stands: the condition above is about nothing else.
THEOREM SoleWriterIsSafe ==
  ASSUME NEW o, Writer = {o}
  PROVE  Spec => []WholeDocument /\ IsAtomicFile
  <1>1. Serial
    BY DEF Serial
  <1> QED BY <1>1, WholeDocumentHolds, ImplementsAtomicFile, PTL
=============================================================================
