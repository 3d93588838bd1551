------------------------- MODULE OffsetStoreProofs -------------------------
(***************************************************************************)
(* For any number of processes, transcripts, schema versions and inodes:   *)
(* OffsetStore keeps its types, every state file a tick can load is exact, *)
(* and every tick works with exactly the lines before its new offset.      *)
(* A stored offset moves backwards only by another tick's record.          *)
(*                                                                         *)
(* ExactSnapshot alone is not inductive: Rename may publish any inode that *)
(* the shared temporary name has come to name, so every inode that holds a *)
(* record must hold an exact one (InodesExact), and each of a tick's steps *)
(* must hand the next one an exact prefix (LoadedExact, SeekedExact,       *)
(* ReadExact).                                                             *)
(***************************************************************************)
EXTENDS OffsetStore, SequenceTheorems, WellFoundedInduction, TLAPS

----------------------------------------------------------------------------
(* What the line splitting of JsonLines guarantees for every file: a reader *)
(* that stops at a confirmed end and resumes there hands out every line    *)
(* once, and what it handed out does not change as the file grows.         *)

(* Every nonempty bounded set of natural numbers has a greatest element.   *)
LEMMA GreatestElement ==
    ASSUME NEW m \in Nat, NEW S \in SUBSET (0 .. m), S # {}
    PROVE  \E e \in S : \A k \in S : k <= e
<1> DEFINE T == {m - k : k \in S}
<1>1. T \subseteq Nat /\ T # {}
  <2>1. \A k \in S : k \in Int /\ k <= m
    OBVIOUS
  <2>2. \A k \in S : m - k \in Nat
    BY <2>1
  <2> QED BY <2>2
<1>2. \E x \in T : \A y \in T : ~ (<<y, x>> \in OpToRel(<, Nat))
  <2> HIDE DEF T
  <2> QED BY <1>1, NatLessThanWellFounded, WFMin, Zenon
<1>3. PICK x \in T : \A y \in T : ~ (y < x)
  BY <1>1, <1>2 DEF OpToRel
<1>4. PICK e \in S : x = m - e
  BY <1>3
<1>5. \A k \in S : ~ (m - k < m - e)
  BY <1>3, <1>4
<1>6. S \subseteq Int /\ e \in Int
  BY <1>4
<1>7. \A k \in S : k <= e
  BY <1>5, <1>6
<1> QED BY <1>7

(* splitLines always finds a confirmed end, and no newline follows it.     *)
LEMMA ConfirmedEndExists ==
    ASSUME NEW d \in Seq(Cell), NEW s \in 0 .. Len(d)
    PROVE  /\ ConfirmedEnd(d, s) \in s .. Len(d)
           /\ IsConfirmedEnd(d, s, ConfirmedEnd(d, s))
<1> DEFINE S == {k \in s .. Len(d) : k = s \/ d[k] = Newline}
<1>1. PICK e \in S : \A k \in S : k <= e
  <2>1. Len(d) \in Nat
    BY LenProperties
  <2>2. S \in SUBSET (0 .. Len(d)) /\ s \in S
    BY <2>1
  <2> HIDE DEF S
  <2> QED BY <2>1, <2>2, GreatestElement
<1>2. e \in s .. Len(d) /\ IsConfirmedEnd(d, s, e)
  BY <1>1, LenProperties DEF IsConfirmedEnd
<1> QED BY <1>2 DEF ConfirmedEnd

(* Segments read from a line start are segments of the whole file.         *)
LEMMA SegmentsFromLineStart ==
    ASSUME NEW d \in Seq(Cell), NEW s \in 0 .. Len(d), LineStart(d, s)
    PROVE  Segments(d, s) = {l \in Segments(d, 0) : l[2] > s}
<1> Len(d) \in Nat
  BY LenProperties
<1>1. ASSUME NEW l \in Segments(d, s)
      PROVE  l \in Segments(d, 0) /\ l[2] > s
  BY <1>1 DEF Segments, LineStart
<1>2. ASSUME NEW l \in Segments(d, 0), l[2] > s
      PROVE  l \in Segments(d, s)
  <2>1. l \in (0 .. Len(d)) \X (0 .. Len(d)) /\ l[1] < l[2] /\ d[l[2]] = Newline
        /\ (l[1] = 0 \/ d[l[1]] = Newline)
        /\ \A k \in l[1] + 1 .. l[2] - 1 : d[k] # Newline
    BY <1>2 DEF Segments
  <2>2. l[1] >= s
    <3> SUFFICES ASSUME l[1] < s PROVE FALSE
      BY <2>1
    <3>1. s \in l[1] + 1 .. l[2] - 1
      BY <1>2, <2>1
    <3>2. d[s] = Newline
      BY <2>1 DEF LineStart
    <3> QED BY <3>1, <3>2, <2>1
  <2>3. l \in (s .. Len(d)) \X (s .. Len(d))
    BY <2>1, <2>2
  <2>4. l[1] = s \/ d[l[1]] = Newline
    BY <2>1, <2>2
  <2> QED BY <2>1, <2>3, <2>4 DEF Segments
<1> QED BY <1>1, <1>2

(* Resuming at a line start hands out exactly the lines that follow it: no *)
(* line twice and none skipped.                                            *)
THEOREM ResumeExactlyOnce ==
    ASSUME NEW d \in Seq(Cell), NEW s \in 0 .. Len(d), LineStart(d, s)
    PROVE  /\ LinesUpTo(d, s) \cap ValidLines(d, s) = {}
           /\ LinesUpTo(d, s) \cup ValidLines(d, s)
                = LinesUpTo(d, ConfirmedEnd(d, s))
           /\ LineStart(d, ConfirmedEnd(d, s))
<1> DEFINE e == ConfirmedEnd(d, s)
<1> Len(d) \in Nat
  BY LenProperties
<1>1. e \in s .. Len(d) /\ (e = s \/ d[e] = Newline)
      /\ \A k \in e + 1 .. Len(d) : d[k] # Newline
  BY ConfirmedEndExists DEF IsConfirmedEnd
<1> HIDE DEF e
<1>2. \A l \in Segments(d, 0) :
         l[1] \in 0 .. Len(d) /\ l[2] \in 0 .. Len(d) /\ d[l[2]] = Newline
  BY DEF Segments
<1>3. \A l \in Segments(d, 0) : l[2] <= e
  BY <1>1, <1>2
<1>4. ValidLines(d, s) = {l \in ValidLines(d, 0) : l[2] > s}
  BY SegmentsFromLineStart DEF ValidLines
<1>5. \A l \in ValidLines(d, 0) : l[2] <= e /\ l[2] \in Int
  BY <1>2, <1>3 DEF ValidLines
<1>6. LinesUpTo(d, s) \cap ValidLines(d, s) = {}
  BY <1>4, <1>5 DEF LinesUpTo
<1>7. LinesUpTo(d, s) \cup ValidLines(d, s) = LinesUpTo(d, e)
  BY <1>4, <1>5 DEF LinesUpTo
<1>8. LineStart(d, e)
  BY <1>1 DEF LineStart
<1> QED BY <1>6, <1>7, <1>8 DEF e

(* Nothing lies before the first line.                                     *)
LEMMA NoLinesUpToZero ==
    ASSUME NEW d \in Seq(Cell)
    PROVE  LinesUpTo(d, 0) = {}
BY LenProperties DEF LinesUpTo, ValidLines, Segments

(* What was handed out up to an offset stays the same as the file grows.   *)
THEOREM AppendPreservesLines ==
    ASSUME NEW d \in Seq(Cell), NEW c \in Cell, NEW o \in 0 .. Len(d)
    PROVE  /\ LinesUpTo(Append(d, c), o) = LinesUpTo(d, o)
           /\ LineStart(Append(d, c), o) <=> LineStart(d, o)
           /\ Len(Append(d, c)) = Len(d) + 1
           /\ Append(d, c) \in Seq(Cell)
<1> DEFINE g == Append(d, c)
<1>1. /\ Len(d) \in Nat /\ Len(g) = Len(d) + 1 /\ g \in Seq(Cell)
      /\ \A k \in 1 .. Len(d) : g[k] = d[k]
  BY LenProperties, AppendProperties
<1>2. ASSUME NEW a \in 1 .. Len(d) + 1, NEW b \in 0 .. Len(d)
      PROVE  SubSeq(g, a, b) = SubSeq(d, a, b)
  BY <1>1
<1> HIDE DEF g
<1>3. ASSUME NEW l, l[2] <= o
      PROVE  l \in Segments(g, 0) <=> l \in Segments(d, 0)
  <2>1. CASE l \in Segments(g, 0)
    <3>1. l \in (0 .. Len(g)) \X (0 .. Len(g)) /\ l[1] < l[2] /\ g[l[2]] = Newline
          /\ (l[1] = 0 \/ g[l[1]] = Newline)
          /\ \A k \in l[1] + 1 .. l[2] - 1 : g[k] # Newline
      BY <2>1 DEF Segments
    <3>2. l \in (0 .. Len(d)) \X (0 .. Len(d))
      BY <1>1, <1>3, <3>1
    <3> QED BY <1>1, <3>1, <3>2, <2>1 DEF Segments
  <2>2. CASE l \in Segments(d, 0)
    <3>1. l \in (0 .. Len(d)) \X (0 .. Len(d)) /\ l[1] < l[2] /\ d[l[2]] = Newline
          /\ (l[1] = 0 \/ d[l[1]] = Newline)
          /\ \A k \in l[1] + 1 .. l[2] - 1 : d[k] # Newline
      BY <2>2 DEF Segments
    <3>2. l \in (0 .. Len(g)) \X (0 .. Len(g))
      BY <1>1, <3>1
    <3> QED BY <1>1, <3>1, <3>2, <2>2 DEF Segments
  <2> QED BY <2>1, <2>2
<1>4. ASSUME NEW l \in Segments(d, 0)
      PROVE  SubSeq(g, l[1] + 1, l[2] - 1) = SubSeq(d, l[1] + 1, l[2] - 1)
  <2>1. l[1] + 1 \in 1 .. Len(d) + 1 /\ l[2] - 1 \in 0 .. Len(d)
    BY <1>1, <1>4 DEF Segments
  <2> QED BY <1>2, <2>1
<1>5. LinesUpTo(g, o) = LinesUpTo(d, o)
  BY <1>3, <1>4 DEF LinesUpTo, ValidLines
<1>6. LineStart(g, o) <=> LineStart(d, o)
  BY <1>1 DEF LineStart
<1> QED BY <1>1, <1>5, <1>6 DEF g

----------------------------------------------------------------------------
(* The parts of the inductive invariant. *)

InodesExact ==
    \A n \in Inode : IsStateFile(content[n]) => Exact(content[n])

(* After loadState: an unusable state file counts as nothing at all.       *)
LoadedExact(s) ==
    /\ s.loaded = s.sf.snap
    /\ s.sf.schema = s.schema
    /\ IF s.sf.path = NoPath THEN s.sf.snap = {} ELSE Exact(s.sf)

(* What the tick has when it starts to read, seen as a record.             *)
Resumed(s) == [schema |-> s.schema, path |-> s.path, off |-> s.start,
               snap |-> s.loaded]

(* After the start offset is settled: the snapshot kept is its prefix.     *)
SeekedExact(s) == Exact(Resumed(s))

ReadExact(s) ==
    /\ s.loaded \cap Fold(s.path, s.schema, s.lines) = {}
    /\ Exact(Record(s))

TicksExact ==
    \A i \in Proc :
        /\ pc[i] = "loaded" => LoadedExact(store[i])
        /\ pc[i] = "seeked" => SeekedExact(store[i])
        /\ pc[i] \in {"read", "opened"} => ReadExact(store[i])

IInv == TypeOK /\ InodesExact /\ TicksExact

----------------------------------------------------------------------------
(* Facts about the operators. *)

LEMMA NewStoreType ==
    ASSUME NEW p \in Path \cup {NoPath}, NEW v \in Schema,
           NEW f \in [schema : Schema, path : Path \cup {NoPath}, off : Nat,
                      snap : SUBSET Folded]
    PROVE  NewStore(p, v, f) \in Store /\ NewStore(p, v, f).fd = NoInode
BY DEF NewStore, Store

LEMMA ZeroStateType ==
    ASSUME NEW v \in Schema
    PROVE  ZeroState(v) \in [schema : Schema, path : Path \cup {NoPath}, off : Nat,
                             snap : SUBSET Folded]
BY DEF ZeroState

LEMMA NoStoreType == NoStore \in Store /\ NoStore.fd = NoInode
<1>1. AnySchema \in Schema
  BY StoreAssumption DEF AnySchema
<1> QED BY <1>1, NewStoreType, ZeroStateType DEF NoStore

LEMMA FoldType ==
    ASSUME NEW p \in Path, NEW v \in Schema, NEW ls \in SUBSET Line
    PROVE  Fold(p, v, ls) \in SUBSET Folded
BY DEF Fold, Folded

LEMMA ValidLinesType ==
    ASSUME NEW d \in Seq(Cell), NEW s \in Nat
    PROVE  ValidLines(d, s) \in SUBSET Line
BY LenProperties DEF ValidLines, Segments, Line

LEMMA RecordType ==
    ASSUME NEW s \in Store, s.path \in Path
    PROVE  Record(s) \in StateFile
<1>1. Fold(s.path, s.schema, s.lines) \in SUBSET Folded
  BY FoldType DEF Store
<1> QED BY <1>1 DEF Record, Accumulated, StateFile, Store

LEMMA FreedType ==
    ASSUME NEW c \in [Inode -> StateFile \cup {Empty, Torn}], NEW n
    PROVE  Freed(c, n) \in [Inode -> StateFile \cup {Empty, Torn}]
BY DEF Freed
----------------------------------------------------------------------------
(* Type correctness. *)

LEMMA InitType == Init => TypeOK
<1> SUFFICES ASSUME Init PROVE TypeOK
  OBVIOUS
<1>1. data \in [Path -> Seq(Cell)]
  BY DEF Init
<1>2. content \in [Inode -> StateFile \cup {Empty, Torn}]
  BY DEF Init
<1>3. store \in [Proc -> Store] /\ \A i \in Proc : store[i].fd = NoInode
  BY NoStoreType DEF Init
<1>4. pc \in [Proc -> {"idle", "loaded", "seeked", "read", "opened", "written"}]
      /\ \A i \in Proc : pc[i] = "idle"
  BY DEF Init
<1> QED BY <1>1, <1>2, <1>3, <1>4 DEF Init, TypeOK

LEMMA ExitType ==
    ASSUME TypeOK, NEW i \in Proc, Exit(i)
    PROVE  /\ pc' \in [Proc -> {"idle", "loaded", "seeked", "read", "opened", "written"}]
           /\ store' \in [Proc -> Store]
           /\ \A j \in Proc : /\ pc'[j] = "opened" <=> store'[j].fd # NoInode
                              /\ pc'[j] # "idle" => store'[j].path \in Path
BY NoStoreType DEF TypeOK, Exit

LEMMA OpenFileType ==
    ASSUME TypeOK, NEW i \in Proc
    PROVE  pc[i] = "opened" => store[i].fd \in Inode
BY DEF TypeOK, Store

LEMMA TmpInodeType ==
    ASSUME TypeOK, tmp # NoInode \/ Inode \ Live # {}
    PROVE  TmpInode \in Inode
BY DEF TypeOK, TmpInode

(* A tick's change of its own Store keeps all Stores well typed.           *)
LEMMA OwnStoreType ==
    ASSUME TypeOK, NEW i \in Proc, NEW s \in Store, s.path \in Path,
           NEW q \in {"loaded", "seeked", "read", "opened", "written"},
           q = "opened" <=> s.fd # NoInode,
           pc' = [pc EXCEPT ![i] = q], store' = [store EXCEPT ![i] = s]
    PROVE  /\ pc' \in [Proc -> {"idle", "loaded", "seeked", "read", "opened", "written"}]
           /\ store' \in [Proc -> Store]
           /\ \A j \in Proc : /\ pc'[j] = "opened" <=> store'[j].fd # NoInode
                              /\ pc'[j] # "idle" => store'[j].path \in Path
BY DEF TypeOK

LEMMA NextType == TypeOK /\ [Next]_vars => TypeOK'
<1> SUFFICES ASSUME TypeOK, [Next]_vars PROVE TypeOK'
  OBVIOUS
<1>1. ASSUME NEW p \in Path, AppendCell(p) PROVE TypeOK'
  <2>1. data' \in [Path -> Seq(Cell)]
    BY <1>1 DEF AppendCell, TypeOK
  <2> QED BY <1>1, <2>1 DEF AppendCell, TypeOK, files
<1>2. ASSUME NEW i \in Proc, NEW p \in Path, NEW v \in Schema, LoadState(i, p, v)
      PROVE  TypeOK'
  <2> DEFINE f == IF Usable(v) THEN content[target] ELSE ZeroState(v)
             s == NewStore(p, v, f)
  <2>1. f \in [schema : Schema, path : Path \cup {NoPath}, off : Nat,
                snap : SUBSET Folded]
    BY ZeroStateType DEF TypeOK, Usable, IsStateFile, StateFile
  <2>2. s \in Store /\ s.fd = NoInode /\ s.path \in Path
    BY <2>1, NewStoreType DEF NewStore
  <2>3. pc' = [pc EXCEPT ![i] = "loaded"] /\ store' = [store EXCEPT ![i] = s]
    BY <1>2 DEF LoadState, Goto
  <2> HIDE DEF s, f
  <2> QED BY <1>2, <2>2, <2>3, OwnStoreType DEF LoadState, TypeOK, files
<1>3. ASSUME NEW i \in Proc, ResolveStart(i) PROVE TypeOK'
  <2> DEFINE n == Len(data[store[i].path])
             s == [store[i] EXCEPT
                      !.start  = IF Resume(store[i], n) THEN store[i].sf.off ELSE 0,
                      !.loaded = IF Discard(store[i], n) THEN {} ELSE @]
  <2>1. store[i] \in Store /\ store[i].path \in Path /\ store[i].fd = NoInode
    BY <1>3 DEF TypeOK, ResolveStart, Goto
  <2>2. s \in Store /\ s.fd = NoInode /\ s.path \in Path
    BY <2>1 DEF Store
  <2>3. pc' = [pc EXCEPT ![i] = "seeked"] /\ store' = [store EXCEPT ![i] = s]
    BY <1>3 DEF ResolveStart, Goto, TypeOK
  <2> HIDE DEF s, n
  <2> QED BY <1>3, <2>2, <2>3, OwnStoreType DEF ResolveStart, TypeOK, files
<1>4. ASSUME NEW i \in Proc, ReadAll(i) PROVE TypeOK'
  <2> DEFINE d == data[store[i].path]
             e == IF store[i].start <= Len(d) THEN ConfirmedEnd(d, store[i].start)
                                              ELSE store[i].start
             s == [store[i] EXCEPT !.lines  = ValidLines(d, store[i].start),
                                   !.offset = e]
  <2>1. store[i] \in Store /\ store[i].path \in Path /\ store[i].fd = NoInode
    BY <1>4 DEF TypeOK, ReadAll, Goto
  <2>2. d \in Seq(Cell) /\ Len(d) \in Nat /\ store[i].start \in Nat
    BY <2>1, LenProperties DEF TypeOK, Store
  <2>3. e \in Nat
    <3>1. CASE store[i].start <= Len(d)
      <4>1. ConfirmedEnd(d, store[i].start) \in store[i].start .. Len(d)
        BY <2>2, <3>1, ConfirmedEndExists
      <4> QED BY <2>2, <3>1, <4>1
    <3> QED BY <2>2, <3>1
  <2>4. ValidLines(d, store[i].start) \in SUBSET Line
    BY <2>2, ValidLinesType
  <2>5. pc' = [pc EXCEPT ![i] = "read"] /\ store' = [store EXCEPT ![i] = s]
    BY <1>4 DEF ReadAll, Goto, TypeOK
  <2> HIDE DEF d, e
  <2>6. s \in Store /\ s.fd = NoInode /\ s.path \in Path
    BY <2>1, <2>3, <2>4 DEF Store
  <2> HIDE DEF s
  <2> QED BY <1>4, <2>5, <2>6, OwnStoreType DEF ReadAll, TypeOK, files
<1>5. ASSUME NEW i \in Proc, OpenTmp(i) PROVE TypeOK'
  <2> DEFINE n == TmpInode
             s == [store[i] EXCEPT !.fd = n]
  <2>1. n \in Inode
    BY <1>5, TmpInodeType DEF OpenTmp
  <2>2. store[i] \in Store /\ store[i].path \in Path
    BY <1>5 DEF TypeOK, OpenTmp, Goto
  <2>3. pc' = [pc EXCEPT ![i] = "opened"] /\ store' = [store EXCEPT ![i] = s]
    BY <1>5 DEF OpenTmp, Goto, TypeOK
  <2>4. content' = [content EXCEPT ![n] = Empty] /\ tmp' = n /\ stale' = stale \ {n}
        /\ UNCHANGED <<data, target, sweeping, faults, truncs>>
    BY <1>5 DEF OpenTmp
  <2> HIDE DEF n
  <2>5. s \in Store /\ s.fd # NoInode /\ s.path \in Path
    BY <2>1, <2>2, StoreAssumption DEF Store
  <2> HIDE DEF s
  <2>6. content' \in [Inode -> StateFile \cup {Empty, Torn}]
    BY <2>4 DEF TypeOK
  <2> QED BY <2>1, <2>3, <2>4, <2>5, <2>6, OwnStoreType DEF TypeOK
<1>6. ASSUME NEW i \in Proc, WriteTmp(i) PROVE TypeOK'
  <2> DEFINE n == store[i].fd
             s == [store[i] EXCEPT !.fd = NoInode]
  <2>1. store[i] \in Store /\ store[i].path \in Path /\ n \in Inode
    BY <1>6, OpenFileType DEF TypeOK, WriteTmp, Goto
  <2>2. s \in Store /\ s.fd = NoInode /\ s.path \in Path
    BY <2>1 DEF Store
  <2>3. pc' = [pc EXCEPT ![i] = "written"] /\ store' = [store EXCEPT ![i] = s]
    BY <1>6 DEF WriteTmp, Goto, TypeOK
  <2>4. content' \in [Inode -> StateFile \cup {Empty, Torn}]
    <3>1. PICK c \in WriteOver(content[n], Record(store[i])) :
             content' = Freed([content EXCEPT ![n] = c], n)
      BY <1>6 DEF WriteTmp
    <3>2. c \in StateFile \cup {Empty, Torn}
      BY <2>1, <3>1, RecordType DEF WriteOver
    <3>3. [content EXCEPT ![n] = c] \in [Inode -> StateFile \cup {Empty, Torn}]
      BY <3>2 DEF TypeOK
    <3> QED BY <3>1, <3>3, FreedType
  <2> HIDE DEF s
  <2> QED BY <1>6, <2>2, <2>3, <2>4, OwnStoreType DEF WriteTmp, TypeOK
<1>7. ASSUME NEW i \in Proc, Rename(i) PROVE TypeOK'
  <2>1. content' \in [Inode -> StateFile \cup {Empty, Torn}]
    BY <1>7, FreedType DEF Rename, TypeOK
  <2>2. target' \in Inode \cup {NoInode} /\ tmp' \in Inode \cup {NoInode}
    BY <1>7 DEF Rename, TypeOK
  <2> QED BY <1>7, <2>1, <2>2, ExitType DEF Rename, TypeOK
<1>8. ASSUME NEW i \in Proc, Quit(i) PROVE TypeOK'
  <2>1. content' \in [Inode -> StateFile \cup {Empty, Torn}]
    BY <1>8, FreedType DEF Quit, TypeOK
  <2>2. faults' \in Nat
    BY <1>8 DEF Quit, TypeOK
  <2> QED BY <1>8, <2>1, <2>2, ExitType DEF Quit, TypeOK
<1>9. ASSUME NEW i \in Proc, WriteFails(i) PROVE TypeOK'
  <2>1. content' \in [Inode -> StateFile \cup {Empty, Torn}]
    <3>1. [content EXCEPT ![store[i].fd] = Torn] \in [Inode -> StateFile \cup {Empty, Torn}]
      BY DEF TypeOK
    <3> QED BY <1>9, <3>1, FreedType DEF WriteFails
  <2>2. faults' \in Nat
    BY <1>9 DEF WriteFails, TypeOK
  <2> QED BY <1>9, <2>1, <2>2, ExitType DEF WriteFails, TypeOK
<1>10. CASE Sweep
  <2>1. content' \in [Inode -> StateFile \cup {Empty, Torn}]
    BY <1>10, FreedType DEF Sweep, Age, SweepInfo, SweepRemove, TypeOK, files
  <2> QED BY <1>10, <2>1 DEF Sweep, Age, SweepInfo, SweepRemove, TypeOK, files
<1>11. CASE UNCHANGED vars
  BY <1>11 DEF vars, TypeOK
<1> QED BY <1>1, <1>2, <1>3, <1>4, <1>5, <1>6, <1>7, <1>8, <1>9, <1>10, <1>11
        DEF Next, Tick, Fault

(* No run of the store leaves its types: in particular a process holds an  *)
(* open temporary file exactly between opening and writing it.             *)
THEOREM TypeCorrect == Spec => []TypeOK
BY InitType, NextType, PTL DEF Spec
----------------------------------------------------------------------------
(* The inductive invariant. *)

LEMMA InitExact == Init => IInv
<1> SUFFICES ASSUME Init PROVE IInv
  OBVIOUS
<1>1. TypeOK
  BY InitType
<1>2. InodesExact
  BY DEF Init, InodesExact, IsStateFile
<1>3. TicksExact
  BY DEF Init, TicksExact
<1> QED BY <1>1, <1>2, <1>3 DEF IInv

(* An exact record stays exact: a step grows a transcript by a cell at most*)
LEMMA ExactStable ==
    ASSUME TypeOK, [Next]_vars
    PROVE  \A f \in StateFile :
              ExactFor(data[f.path], f) => ExactFor(data'[f.path], f)
<1>1. ASSUME NEW p \in Path
      PROVE  data'[p] = data[p] \/ \E c \in Cell : data'[p] = Append(data[p], c)
  <2>1. CASE \E q \in Path : AppendCell(q)
    BY <2>1 DEF AppendCell, TypeOK
  <2>2. CASE data' = data
    BY <2>2
  <2> QED BY <2>1, <2>2 DEF Next, Tick, Fault, Sweep, LoadState, ResolveStart, ReadAll,
             OpenTmp, WriteTmp, Rename, Quit, WriteFails, Age, SweepInfo, SweepRemove, vars
<1>2. ASSUME NEW f \in StateFile, NEW d \in Seq(Cell), NEW c \in Cell, ExactFor(d, f)
      PROVE  ExactFor(Append(d, c), f)
  <2>1. f.off \in 0 .. Len(d) /\ Len(d) \in Nat
    BY <1>2, LenProperties DEF ExactFor, StateFile
  <2>2. /\ LinesUpTo(Append(d, c), f.off) = LinesUpTo(d, f.off)
        /\ LineStart(Append(d, c), f.off) <=> LineStart(d, f.off)
        /\ Len(Append(d, c)) = Len(d) + 1
    BY <2>1, AppendPreservesLines
  <2> QED BY <1>2, <2>1, <2>2 DEF ExactFor
<1> SUFFICES ASSUME NEW f \in StateFile, ExactFor(data[f.path], f)
             PROVE  ExactFor(data'[f.path], f)
  OBVIOUS
<1>3. f.path \in Path /\ data[f.path] \in Seq(Cell)
  BY DEF StateFile, TypeOK
<1> QED BY <1>1, <1>2, <1>3

(* A tick that does not move keeps what it has: its own Store is exact.    *)
LEMMA TickKept ==
    ASSUME IInv, [Next]_vars, NEW j \in Proc, pc'[j] = pc[j], store'[j] = store[j]
    PROVE  /\ pc'[j] = "loaded" => LoadedExact(store[j])'
           /\ pc'[j] = "seeked" => SeekedExact(store[j])'
           /\ pc'[j] \in {"read", "opened"} => ReadExact(store[j])'
<1> TypeOK /\ TicksExact
  BY DEF IInv
<1> DEFINE s == store[j]
<1>1. s \in Store /\ (pc[j] # "idle" => s.path \in Path)
  BY DEF TypeOK
<1>2. \A f \in StateFile : ExactFor(data[f.path], f) => ExactFor(data'[f.path], f)
  BY ExactStable
<1>3. CASE pc[j] = "loaded"
  <2>1. LoadedExact(s)
    BY <1>3 DEF TicksExact
  <2>2. CASE s.sf.path = NoPath
    BY <2>1, <2>2, <1>3 DEF LoadedExact
  <2>3. CASE s.sf.path # NoPath
    <3>1. s.sf \in StateFile
      BY <1>1, <2>3 DEF Store, StateFile
    <3> QED BY <1>2, <1>3, <2>1, <2>3, <3>1 DEF LoadedExact, Exact
  <2> QED BY <2>2, <2>3
<1>4. CASE pc[j] = "seeked"
  <2>1. Resumed(s) \in StateFile
    BY <1>1, <1>4 DEF Store, StateFile, Resumed
  <2>2. ExactFor(data[Resumed(s).path], Resumed(s))
    BY <1>4 DEF TicksExact, SeekedExact, Exact
  <2>3. Resumed(s)' = Resumed(s)
    BY DEF Resumed
  <2> QED BY <1>2, <1>4, <2>1, <2>2, <2>3 DEF SeekedExact, Exact
<1>5. CASE pc[j] \in {"read", "opened"}
  <2>1. Record(s) \in StateFile
    BY <1>1, <1>5, RecordType
  <2>2. ReadExact(s)
    BY <1>5 DEF TicksExact
  <2>3. Record(s)' = Record(s)
    BY DEF Record, Accumulated
  <2>4. ExactFor(data'[Record(s).path], Record(s))
    BY <1>2, <2>1, <2>2 DEF ReadExact, Exact
  <2> QED BY <1>5, <2>2, <2>3, <2>4 DEF ReadExact, Exact
<1> QED BY <1>3, <1>4, <1>5

(* Inodes whose content does not change, or is no record, stay exact.      *)
LEMMA InodesKept ==
    ASSUME IInv, [Next]_vars,
           \A n \in Inode : \/ content'[n] = content[n]
                            \/ content'[n] \in {Empty, Torn}
                            \/ /\ content'[n] \in StateFile
                               /\ ExactFor(data[content'[n].path], content'[n])
    PROVE  InodesExact'
<1> TypeOK /\ InodesExact
  BY DEF IInv
<1>1. \A f \in StateFile : ExactFor(data[f.path], f) => ExactFor(data'[f.path], f)
  BY ExactStable
<1> SUFFICES ASSUME NEW n \in Inode, IsStateFile(content'[n])
             PROVE  Exact(content[n])'
  BY DEF InodesExact
<1>2. CASE content'[n] = content[n]
  <2>1. content[n] \in StateFile
    BY <1>2 DEF TypeOK, IsStateFile
  <2> QED BY <1>1, <1>2, <2>1 DEF InodesExact, Exact
<1>3. CASE content'[n] \in StateFile /\ ExactFor(data[content'[n].path], content'[n])
  BY <1>1, <1>3 DEF Exact
<1> QED BY <1>2, <1>3 DEF IsStateFile
(* The three steps of a tick that establish what the next one relies on.   *)

LEMMA LoadEstablishes ==
    ASSUME IInv, NEW i \in Proc, NEW p \in Path, NEW v \in Schema, LoadState(i, p, v)
    PROVE  LoadedExact(store[i])'
<1> DEFINE f == IF Usable(v) THEN content[target] ELSE ZeroState(v)
<1>1. store'[i] = NewStore(p, v, f) /\ data' = data
  BY DEF LoadState, IInv, TypeOK
<1>2. f.schema = v
  BY DEF Usable, ZeroState
<1>3. IF f.path = NoPath THEN f.snap = {} ELSE Exact(f)
  <2>1. CASE Usable(v)
    <3>1. content[target] \in StateFile /\ Exact(content[target])
      BY <2>1 DEF Usable, IInv, TypeOK, InodesExact, IsStateFile
    <3>2. content[target].path # NoPath
      BY <3>1, StoreAssumption DEF StateFile
    <3> QED BY <2>1, <3>1, <3>2
  <2>2. CASE ~ Usable(v)
    BY <2>2 DEF ZeroState
  <2> QED BY <2>1, <2>2
<1> HIDE DEF f
<1>4. /\ store'[i].sf = f /\ store'[i].loaded = f.snap /\ store'[i].schema = v
  BY <1>1 DEF NewStore
<1> QED BY <1>1, <1>2, <1>3, <1>4 DEF LoadedExact, Exact

LEMMA ResolveEstablishes ==
    ASSUME IInv, NEW i \in Proc, ResolveStart(i)
    PROVE  SeekedExact(store[i])'
<1> DEFINE s == store[i]
           d == data[s.path]
           n == Len(d)
<1>1. s \in Store /\ s.path \in Path /\ LoadedExact(s)
  BY DEF ResolveStart, Goto, IInv, TypeOK, TicksExact
<1>2. d \in Seq(Cell) /\ n \in Nat /\ s.sf.off \in Nat
  BY <1>1, LenProperties DEF IInv, TypeOK, Store
<1>3. /\ store'[i].start  = IF Resume(s, n) THEN s.sf.off ELSE 0
      /\ store'[i].loaded = IF Discard(s, n) THEN {} ELSE s.loaded
      /\ store'[i].path = s.path /\ store'[i].schema = s.schema /\ data' = data
  BY <1>1 DEF ResolveStart, IInv, TypeOK, Store
<1> HIDE DEF d, n
<1>4. CASE Resume(s, n)
  <2>1. s.sf.path = s.path /\ s.sf.path # NoPath /\ ~ Discard(s, n)
    BY <1>1, <1>2, <1>4, StoreAssumption DEF Resume, Discard
  <2>2. ExactFor(d, s.sf) /\ s.loaded = s.sf.snap /\ s.sf.schema = s.schema
    BY <1>1, <2>1 DEF LoadedExact, Exact, d
  <2>3. ExactFor(d, [schema |-> s.schema, path |-> s.path, off |-> s.sf.off,
                     snap |-> s.loaded])
    BY <2>1, <2>2 DEF ExactFor
  <2> QED BY <1>3, <1>4, <2>1, <2>3 DEF SeekedExact, Exact, Resumed, d
<1>5. CASE ~ Resume(s, n)
  <2>1. LinesUpTo(d, 0) = {} /\ Fold(s.path, s.schema, {}) = {}
    BY <1>2, NoLinesUpToZero DEF Fold
  <2>2. ~ Discard(s, n) => s.loaded = {}
    <3> SUFFICES ASSUME ~ Discard(s, n) PROVE s.loaded = {}
      OBVIOUS
    <3>1. CASE s.sf.path = NoPath
      BY <1>1, <3>1 DEF LoadedExact
    <3>2. CASE s.sf.path # NoPath
      <4>1. s.sf.path = s.path /\ s.sf.off = 0
        BY <1>2, <1>5, <3>2 DEF Resume, Discard
      <4>2. ExactFor(d, s.sf) /\ s.loaded = s.sf.snap /\ s.sf.schema = s.schema
        BY <1>1, <3>2, <4>1 DEF LoadedExact, Exact, d
      <4> QED BY <2>1, <4>1, <4>2 DEF ExactFor
    <3> QED BY <3>1, <3>2
  <2>3. store'[i].start = 0 /\ store'[i].loaded = {}
    BY <1>3, <1>5, <2>2
  <2>4. ExactFor(d, [schema |-> s.schema, path |-> s.path, off |-> 0, snap |-> {}])
    <3>1. 0 <= Len(d)
      BY <1>2 DEF n
    <3>2. LineStart(d, 0)
      BY DEF LineStart
    <3>3. Fold(s.path, s.schema, LinesUpTo(d, 0)) = {}
      BY <2>1
    <3> QED BY <3>1, <3>2, <3>3 DEF ExactFor
  <2> QED BY <1>3, <2>3, <2>4 DEF SeekedExact, Exact, Resumed, d
<1> QED BY <1>4, <1>5

LEMMA ReadEstablishes ==
    ASSUME IInv, NEW i \in Proc, ReadAll(i)
    PROVE  ReadExact(store[i])'
<1> DEFINE s == store[i]
           t == store'[i]
           d == data[s.path]
           e == ConfirmedEnd(d, s.start)
<1>1. s \in Store /\ s.path \in Path /\ SeekedExact(s)
  BY DEF ReadAll, Goto, IInv, TypeOK, TicksExact
<1>2. d \in Seq(Cell) /\ Len(d) \in Nat /\ s.start \in Nat
  BY <1>1, LenProperties DEF IInv, TypeOK, Store
<1>3. /\ s.start \in 0 .. Len(d) /\ LineStart(d, s.start)
      /\ s.loaded = Fold(s.path, s.schema, LinesUpTo(d, s.start))
  BY <1>1, <1>2 DEF SeekedExact, Resumed, Exact, ExactFor
<1>4. /\ t.lines = ValidLines(d, s.start) /\ t.offset = e
      /\ t.path = s.path /\ t.schema = s.schema /\ t.loaded = s.loaded
      /\ data' = data
  BY <1>1, <1>2, <1>3 DEF ReadAll, IInv, TypeOK, Store
<1>5. /\ LinesUpTo(d, s.start) \cap ValidLines(d, s.start) = {}
      /\ LinesUpTo(d, s.start) \cup ValidLines(d, s.start) = LinesUpTo(d, e)
      /\ LineStart(d, e)
  BY <1>2, <1>3, ResumeExactlyOnce
<1>6. e <= Len(d)
  BY <1>2, <1>3, ConfirmedEndExists
<1> HIDE DEF t, d, e
<1>7. t.loaded \cap Fold(t.path, t.schema, t.lines) = {}
  BY <1>3, <1>4, <1>5 DEF Fold
<1>8. Accumulated(t) = Fold(s.path, s.schema, LinesUpTo(d, e))
  BY <1>3, <1>4, <1>5 DEF Accumulated, Fold
<1>9. ExactFor(d, Record(t)) /\ Record(t).path = s.path
  BY <1>4, <1>5, <1>6, <1>8 DEF Record, ExactFor
<1>10. Exact(Record(store[i]))'
  BY <1>4, <1>9 DEF Exact, d, t, Record, Accumulated
<1>11. (store[i].loaded \cap Fold(store[i].path, store[i].schema, store[i].lines) = {})'
  BY <1>7 DEF t
<1> QED BY <1>10, <1>11 DEF ReadExact
LEMMA NextExact == IInv /\ [Next]_vars => IInv'
<1> SUFFICES ASSUME IInv, [Next]_vars PROVE IInv'
  OBVIOUS
<1> TypeOK /\ InodesExact /\ TicksExact
  BY DEF IInv
<1>1. TypeOK'
  BY NextType
<1> DEFINE Ok(j) == /\ pc[j] = "loaded" => LoadedExact(store[j])
                    /\ pc[j] = "seeked" => SeekedExact(store[j])
                    /\ pc[j] \in {"read", "opened"} => ReadExact(store[j])
<1>2. ASSUME NEW i \in Proc, Ok(i)',
             \A j \in Proc \ {i} : pc'[j] = pc[j] /\ store'[j] = store[j]
      PROVE  TicksExact'
  BY <1>2, TickKept DEF TicksExact
<1>3. ASSUME pc' = pc, store' = store
      PROVE  TicksExact'
  BY <1>3, TickKept DEF TicksExact
<1>4. ASSUME content' = content
      PROVE  InodesExact'
  BY <1>4, InodesKept
<1>5. ASSUME NEW p \in Path, AppendCell(p) PROVE InodesExact' /\ TicksExact'
  BY <1>3, <1>4, <1>5 DEF AppendCell, files
<1>6. ASSUME NEW i \in Proc, NEW p \in Path, NEW v \in Schema, LoadState(i, p, v)
      PROVE  InodesExact' /\ TicksExact'
  <2>1. Ok(i)'
    BY <1>6, LoadEstablishes DEF LoadState, Goto, TypeOK
  <2>2. \A j \in Proc \ {i} : pc'[j] = pc[j] /\ store'[j] = store[j]
    BY <1>6 DEF LoadState, Goto, TypeOK
  <2> QED BY <1>2, <1>4, <1>6, <2>1, <2>2 DEF LoadState, files
<1>7. ASSUME NEW i \in Proc, ResolveStart(i) PROVE InodesExact' /\ TicksExact'
  <2>1. Ok(i)'
    BY <1>7, ResolveEstablishes DEF ResolveStart, Goto, TypeOK
  <2>2. \A j \in Proc \ {i} : pc'[j] = pc[j] /\ store'[j] = store[j]
    BY <1>7 DEF ResolveStart, Goto, TypeOK
  <2> QED BY <1>2, <1>4, <1>7, <2>1, <2>2 DEF ResolveStart, files
<1>8. ASSUME NEW i \in Proc, ReadAll(i) PROVE InodesExact' /\ TicksExact'
  <2>1. Ok(i)'
    BY <1>8, ReadEstablishes DEF ReadAll, Goto, TypeOK
  <2>2. \A j \in Proc \ {i} : pc'[j] = pc[j] /\ store'[j] = store[j]
    BY <1>8 DEF ReadAll, Goto, TypeOK
  <2> QED BY <1>2, <1>4, <1>8, <2>1, <2>2 DEF ReadAll, files
<1>9. ASSUME NEW i \in Proc, OpenTmp(i) PROVE InodesExact' /\ TicksExact'
  <2> DEFINE s == store[i]
             t == store'[i]
  <2>1. ReadExact(s) /\ s \in Store
    BY <1>9 DEF OpenTmp, Goto, TicksExact, TypeOK
  <2>2. /\ t.loaded = s.loaded /\ t.path = s.path /\ t.schema = s.schema
        /\ t.lines = s.lines /\ t.offset = s.offset
        /\ data' = data /\ pc'[i] = "opened"
    BY <1>9, <2>1 DEF OpenTmp, Goto, TypeOK, Store
  <2>3. ReadExact(store[i])'
    BY <2>1, <2>2 DEF ReadExact, Exact, Record, Accumulated
  <2>4. \A j \in Proc \ {i} : pc'[j] = pc[j] /\ store'[j] = store[j]
    BY <1>9 DEF OpenTmp, Goto, TypeOK
  <2>5. \A n \in Inode : content'[n] = content[n] \/ content'[n] \in {Empty, Torn}
    BY <1>9 DEF OpenTmp, TypeOK
  <2>6. InodesExact'
    BY <2>5, InodesKept
  <2>7. Ok(i)'
    BY <2>2, <2>3
  <2> QED BY <1>2, <2>4, <2>6, <2>7
<1>10. ASSUME NEW i \in Proc, WriteTmp(i) PROVE InodesExact' /\ TicksExact'
  <2> DEFINE r == Record(store[i])
             n == store[i].fd
  <2>1. r \in StateFile /\ ExactFor(data[r.path], r)
    BY <1>10, RecordType DEF WriteTmp, Goto, TypeOK, TicksExact, ReadExact, Exact
  <2>2. PICK c \in WriteOver(content[n], r) : content' = Freed([content EXCEPT ![n] = c], n)
    BY <1>10 DEF WriteTmp
  <2> HIDE DEF r, n
  <2>3. c = r \/ c = Torn
    BY <2>2 DEF WriteOver
  <2>4. \A m \in Inode : content'[m] \in {content[m], c, Empty}
    BY <2>2 DEF Freed, TypeOK
  <2>5. InodesExact'
    BY <2>1, <2>3, <2>4, InodesKept
  <2>6. /\ pc'[i] = "written"
        /\ \A j \in Proc \ {i} : pc'[j] = pc[j] /\ store'[j] = store[j]
    BY <1>10 DEF WriteTmp, Goto, TypeOK
  <2> QED BY <1>2, <2>5, <2>6
<1>11. ASSUME NEW i \in Proc, Exit(i),
              \A n \in Inode : content'[n] = content[n] \/ content'[n] \in {Empty, Torn}
       PROVE  InodesExact' /\ TicksExact'
  <2>1. /\ pc'[i] = "idle"
        /\ \A j \in Proc \ {i} : pc'[j] = pc[j] /\ store'[j] = store[j]
    BY <1>11 DEF Exit, TypeOK
  <2> QED BY <1>2, <1>11, <2>1, InodesKept
<1>12. ASSUME NEW i \in Proc, Rename(i) \/ Quit(i) \/ WriteFails(i)
       PROVE  InodesExact' /\ TicksExact'
  <2>1. Exit(i)
    BY <1>12 DEF Rename, Quit, WriteFails
  <2>2. \A n \in Inode : content'[n] = content[n] \/ content'[n] \in {Empty, Torn}
    BY <1>12 DEF Rename, Quit, WriteFails, Freed, TypeOK
  <2> QED BY <1>11, <2>1, <2>2
<1>13. ASSUME Sweep PROVE InodesExact' /\ TicksExact'
  <2>1. pc' = pc /\ store' = store
    BY <1>13 DEF Sweep, Age, SweepInfo, SweepRemove
  <2>2. \A n \in Inode : content'[n] = content[n] \/ content'[n] \in {Empty, Torn}
    BY <1>13 DEF Sweep, Age, SweepInfo, SweepRemove, Freed, TypeOK, files
  <2> QED BY <1>3, <2>1, <2>2, InodesKept
<1>14. ASSUME UNCHANGED vars PROVE InodesExact' /\ TicksExact'
  BY <1>3, <1>4, <1>14 DEF vars
<1>15. InodesExact' /\ TicksExact'
  <2> HIDE DEF Ok
  <2> QED BY <1>5, <1>6, <1>7, <1>8, <1>9, <1>10, <1>12, <1>13, <1>14 DEF Next, Tick, Fault
<1> QED BY <1>1, <1>15 DEF IInv

LEMMA Inductive == Spec => []IInv
BY InitExact, NextExact, PTL DEF Spec

(* However many ticks overlap and wherever they are killed, a state file   *)
(* that a later tick can load holds an offset and the fold of exactly the  *)
(* lines before it (Save, loadState).                                      *)
THEOREM SnapshotsAreExact == Spec => []ExactSnapshot
<1>1. IInv => ExactSnapshot
  BY DEF IInv, TypeOK, InodesExact, ExactSnapshot
<1> QED BY <1>1, Inductive, PTL

(* Every tick is handed lines its snapshot does not hold yet, and all of   *)
(* those the snapshot it is about to save must hold (ReadIncremental).     *)
THEOREM TicksAreExact == Spec => []ExactTick
<1>1. IInv => ExactTick
  BY DEF IInv, TicksExact, ReadExact, ExactTick
<1> QED BY <1>1, Inductive, PTL

----------------------------------------------------------------------------
(* Offsets never fall behind what was loaded. *)

(* A tick that has loaded a record of its own transcript starts at its      *)
(* offset or later, and so will save one that is no smaller.               *)
AheadOf(s, o) == s.sf.path = s.path => s.sf.off <= o

OffsetsInv ==
    \A i \in Proc :
        /\ pc[i] = "seeked" => AheadOf(store[i], store[i].start)
        /\ pc[i] \in {"read", "opened", "written"} => AheadOf(store[i], store[i].offset)

(* The record a tick has loaded never says more than the transcript has, so *)
(* ResolveStart takes its offset unless that is 0.                         *)
LEMMA ResolveAhead ==
    ASSUME IInv, NEW i \in Proc, ResolveStart(i)
    PROVE  AheadOf(store[i], store[i].start)'
<1> DEFINE s == store[i]
           n == Len(data[s.path])
<1>1. s \in Store /\ s.path \in Path /\ LoadedExact(s)
  BY DEF ResolveStart, Goto, IInv, TypeOK, TicksExact
<1>2. n \in Nat /\ s.sf.off \in Nat
  BY <1>1, LenProperties DEF IInv, TypeOK, Store
<1>3. /\ store'[i].start = IF Resume(s, n) THEN s.sf.off ELSE 0
      /\ store'[i].path = s.path /\ store'[i].sf = s.sf
  BY <1>1 DEF ResolveStart, IInv, TypeOK, Store
<1>4. s.sf.path = s.path => s.sf.off <= n
  BY <1>1, StoreAssumption DEF LoadedExact, Exact, ExactFor
<1> HIDE DEF n
<1>5. s.sf.path = s.path => Resume(s, n) \/ s.sf.off = 0
  BY <1>2, <1>4 DEF Resume
<1> QED BY <1>2, <1>3, <1>5 DEF AheadOf

LEMMA ReadAhead ==
    ASSUME IInv, OffsetsInv, NEW i \in Proc, ReadAll(i)
    PROVE  AheadOf(store[i], store[i].offset)'
<1> DEFINE s == store[i]
           d == data[s.path]
<1>1. s \in Store /\ s.path \in Path /\ SeekedExact(s) /\ AheadOf(s, s.start)
  BY DEF ReadAll, Goto, IInv, TypeOK, TicksExact, OffsetsInv
<1>2. d \in Seq(Cell) /\ Len(d) \in Nat /\ s.start \in Nat /\ s.sf.off \in Nat
  BY <1>1, LenProperties DEF IInv, TypeOK, Store
<1>3. s.start \in 0 .. Len(d)
  BY <1>1, <1>2 DEF SeekedExact, Resumed, Exact, ExactFor
<1>4. /\ store'[i].offset = ConfirmedEnd(d, s.start)
      /\ store'[i].path = s.path /\ store'[i].sf = s.sf
  BY <1>1, <1>2, <1>3 DEF ReadAll, IInv, TypeOK, Store
<1> HIDE DEF d
<1>5. ConfirmedEnd(d, s.start) \in s.start .. Len(d)
  BY <1>2, <1>3, ConfirmedEndExists
<1> QED BY <1>1, <1>2, <1>4, <1>5 DEF AheadOf

LEMMA NextOffsets == IInv /\ OffsetsInv /\ [Next]_vars => OffsetsInv'
<1> SUFFICES ASSUME IInv, OffsetsInv, [Next]_vars PROVE OffsetsInv'
  OBVIOUS
<1> DEFINE Ok(j) == /\ pc[j] = "seeked" => AheadOf(store[j], store[j].start)
                    /\ pc[j] \in {"read", "opened", "written"} => AheadOf(store[j], store[j].offset)
<1>1. ASSUME NEW i \in Proc, Ok(i)',
             \A j \in Proc \ {i} : pc'[j] = pc[j] /\ store'[j] = store[j]
      PROVE  OffsetsInv'
  BY <1>1 DEF OffsetsInv, AheadOf
<1>2. ASSUME pc' = pc, store' = store PROVE OffsetsInv'
  BY <1>2 DEF OffsetsInv, AheadOf
<1>3. ASSUME NEW i \in Proc, NEW p \in Path, NEW v \in Schema, LoadState(i, p, v)
      PROVE  OffsetsInv'
  BY <1>1, <1>3 DEF LoadState, Goto, IInv, TypeOK
<1>4. ASSUME NEW i \in Proc, ResolveStart(i) PROVE OffsetsInv'
  <2>1. Ok(i)'
    BY <1>4, ResolveAhead DEF ResolveStart, Goto, IInv, TypeOK
  <2> QED BY <1>1, <1>4, <2>1 DEF ResolveStart, Goto, IInv, TypeOK
<1>5. ASSUME NEW i \in Proc, ReadAll(i) PROVE OffsetsInv'
  <2>1. Ok(i)'
    BY <1>5, ReadAhead DEF ReadAll, Goto, IInv, TypeOK
  <2> QED BY <1>1, <1>5, <2>1 DEF ReadAll, Goto, IInv, TypeOK
<1>6. ASSUME NEW i \in Proc, OpenTmp(i) \/ WriteTmp(i) PROVE OffsetsInv'
  <2>1. /\ pc[i] \in {"read", "opened"} /\ pc'[i] \in {"opened", "written"}
        /\ store'[i].sf = store[i].sf /\ store'[i].path = store[i].path
        /\ store'[i].offset = store[i].offset
    BY <1>6 DEF OpenTmp, WriteTmp, Goto, IInv, TypeOK, Store
  <2>2. Ok(i)'
    BY <2>1 DEF OffsetsInv, AheadOf
  <2>3. \A j \in Proc \ {i} : pc'[j] = pc[j] /\ store'[j] = store[j]
    BY <1>6 DEF OpenTmp, WriteTmp, Goto, IInv, TypeOK
  <2> QED BY <1>1, <2>2, <2>3
<1>7. ASSUME NEW i \in Proc, Rename(i) \/ Fault(i) PROVE OffsetsInv'
  <2>1. Exit(i)
    BY <1>7 DEF Rename, Fault, Quit, WriteFails
  <2> QED BY <1>1, <2>1 DEF Exit, IInv, TypeOK
<1>8. ASSUME Sweep \/ UNCHANGED vars \/ \E p \in Path : AppendCell(p) PROVE OffsetsInv'
  BY <1>2, <1>8 DEF Sweep, Age, SweepInfo, SweepRemove, AppendCell, vars
<1> QED
  <2> HIDE DEF Ok
  <2> QED BY <1>3, <1>4, <1>5, <1>6, <1>7, <1>8 DEF Next, Tick

(* What a step makes of the state file, when both are records: the file is  *)
(* as it was, or it holds the record of the tick that moved, and it cannot *)
(* have a smaller offset than the one that tick has loaded.                *)
LEMMA StepNeverRegresses ==
    ASSUME IInv, OffsetsInv, [Next]_vars,
           target # NoInode, target' # NoInode,
           IsStateFile(content[target]), IsStateFile(content'[target']),
           content[target].path = content'[target'].path,
           content'[target'].off < content[target].off
    PROVE  \E i \in Proc : /\ pc'[i] # pc[i]
                           /\ \/ store[i].sf # content[target]
                              \/ Record(store[i]) # content'[target']
<1>1. PICK f, g : f = content[target] /\ g = content'[target']
  OBVIOUS
<1>2. f \in StateFile /\ g \in StateFile /\ f.off \in Nat /\ g.off \in Nat
  <2>1. TypeOK /\ TypeOK'
    BY NextType DEF IInv
  <2> QED BY <1>1, <2>1 DEF TypeOK, IsStateFile, StateFile
<1>3. f # g
  BY <1>1, <1>2
<1>4. ASSUME NEW i \in Proc, pc[i] \in {"read", "opened", "written"},
             store[i].sf = f, Record(store[i]) = g
      PROVE  FALSE
  <2>1. AheadOf(store[i], store[i].offset)
    BY <1>4 DEF OffsetsInv
  <2>2. g.off = store[i].offset /\ g.path = store[i].path
    BY <1>4 DEF Record
  <2>3. f.off <= g.off
    BY <1>1, <1>4, <2>1, <2>2 DEF AheadOf
  <2> QED BY <1>1, <1>2, <2>3
<1>5. ASSUME NEW i \in Proc, WriteTmp(i) \/ Rename(i)
      PROVE  pc'[i] # pc[i] /\ (store[i].sf # f \/ Record(store[i]) # g)
  <2>1. pc[i] \in {"opened", "written"} /\ pc'[i] # pc[i]
    BY <1>5 DEF WriteTmp, Rename, Goto, Exit, IInv, TypeOK
  <2> QED BY <1>4, <2>1
<1>6. ASSUME target' = target,
             \A n \in Inode : content'[n] = content[n] \/ content'[n] \in {Empty, Torn}
      PROVE  FALSE
  BY <1>1, <1>3, <1>6 DEF IInv, TypeOK, IsStateFile
<1>7. ASSUME NEW i \in Proc, \/ \E p \in Path, v \in Schema : LoadState(i, p, v)
                            \/ ResolveStart(i) \/ ReadAll(i)
      PROVE  FALSE
  BY <1>6, <1>7 DEF LoadState, ResolveStart, ReadAll, files
<1>8. ASSUME NEW i \in Proc, OpenTmp(i) \/ Fault(i) PROVE FALSE
  <2>1. target' = target
    BY <1>8 DEF OpenTmp, Fault, Quit, WriteFails
  <2>2. \A n \in Inode : content'[n] = content[n] \/ content'[n] \in {Empty, Torn}
    BY <1>8 DEF OpenTmp, Fault, Quit, WriteFails, Freed, IInv, TypeOK
  <2> QED BY <1>6, <2>1, <2>2
<1>9. ASSUME Sweep \/ UNCHANGED vars \/ \E p \in Path : AppendCell(p) PROVE FALSE
  BY <1>1, <1>3, <1>9 DEF Sweep, Age, SweepInfo, SweepRemove, AppendCell, files, vars
<1> QED BY <1>1, <1>5, <1>7, <1>8, <1>9 DEF Next, Tick

(* However ticks, kills and sweeps interleave, a stored offset moves        *)
(* backwards only when ticks overlap: the record that is now there is       *)
(* another tick's, or its tick has loaded another one than was there.      *)
THEOREM OffsetsDoNotRegress == Spec => OffsetNeverRegresses
<1>1. Init => OffsetsInv
  BY DEF Init, OffsetsInv
<1>2. IInv /\ OffsetsInv /\ [Next]_vars =>
        [ LET f == content[target]
              g == content'[target']
          IN  (/\ target # NoInode /\ target' # NoInode
               /\ IsStateFile(f) /\ IsStateFile(g)
               /\ f.path = g.path /\ f.schema = g.schema
               /\ g.off < f.off)
              => \E i \in Proc : /\ pc'[i] # pc[i]
                                /\ (store[i].sf # f \/ Record(store[i]) # g) ]_vars
  BY StepNeverRegresses
<1> QED BY <1>1, <1>2, Inductive, NextOffsets, PTL DEF Spec, OffsetNeverRegresses
----------------------------------------------------------------------------
(* The refinement of FullExtraction. *)

(* A confirmed end is unique, and one found from a line start on is the    *)
(* one of the whole file: after it no newline follows, and before it is    *)
(* one, if only at the line start.                                         *)
LEMMA ConfirmedEndFromLineStart ==
    ASSUME NEW d \in Seq(Cell), NEW s \in 0 .. Len(d), LineStart(d, s)
    PROVE  ConfirmedEnd(d, s) = ConfirmedEnd(d, 0)
<1> DEFINE e == ConfirmedEnd(d, s)
           f == ConfirmedEnd(d, 0)
<1> Len(d) \in Nat
  BY LenProperties
<1>1. /\ e \in s .. Len(d) /\ (e = s \/ d[e] = Newline)
      /\ \A k \in e + 1 .. Len(d) : d[k] # Newline
  BY ConfirmedEndExists DEF IsConfirmedEnd
<1>2. /\ f \in 0 .. Len(d) /\ (f = 0 \/ d[f] = Newline)
      /\ \A k \in f + 1 .. Len(d) : d[k] # Newline
  BY ConfirmedEndExists DEF IsConfirmedEnd
<1>3. e = 0 \/ d[e] = Newline
  BY <1>1 DEF LineStart
<1> HIDE DEF e, f
<1>4. ~ (e < f)
  BY <1>1, <1>2
<1>5. ~ (f < e)
  BY <1>1, <1>2, <1>3
<1> QED BY <1>1, <1>2, <1>4, <1>5 DEF e, f

(* What one complete read of p gives, in the terms of this module.         *)
LEMMA FullExtractIs ==
    ASSUME NEW p, NEW v
    PROVE  Promise!FullExtract(p, v) =
              [schema |-> v, path |-> p, off |-> ConfirmedEnd(data[p], 0),
               snap |-> Fold(p, v, LinesUpTo(data[p], ConfirmedEnd(data[p], 0)))]
<1>1. ASSUME NEW d, NEW e
      PROVE  Promise!LinesUpTo(d, e) = LinesUpTo(d, e)
  BY DEF Promise!LinesUpTo, LinesUpTo, Promise!ValidLines, ValidLines,
         Promise!Segments, Segments
<1>2. ASSUME NEW d, NEW n
      PROVE  Promise!ConfirmedEnd(d, n) = ConfirmedEnd(d, n)
  BY DEF Promise!ConfirmedEnd, ConfirmedEnd, Promise!IsConfirmedEnd, IsConfirmedEnd
<1> QED BY <1>1, <1>2 DEF Promise!FullExtract, Fold

(* A tick that resumed somewhere has, once it has read, what one that read *)
(* everything would have.                                                  *)
LEMMA ReadIsFull ==
    ASSUME IInv, NEW i \in Proc, ReadAll(i)
    PROVE  Record(store'[i]) = Promise!FullExtract(store[i].path, store[i].schema)
<1> DEFINE s == store[i]
           t == store'[i]
           d == data[s.path]
           e == ConfirmedEnd(d, s.start)
<1>1. s \in Store /\ s.path \in Path /\ SeekedExact(s)
  BY DEF ReadAll, Goto, IInv, TypeOK, TicksExact
<1>2. d \in Seq(Cell) /\ Len(d) \in Nat /\ s.start \in Nat
  BY <1>1, LenProperties DEF IInv, TypeOK, Store
<1>3. /\ s.start \in 0 .. Len(d) /\ LineStart(d, s.start)
      /\ s.loaded = Fold(s.path, s.schema, LinesUpTo(d, s.start))
  BY <1>1, <1>2 DEF SeekedExact, Resumed, Exact, ExactFor
<1>4. /\ t.lines = ValidLines(d, s.start) /\ t.offset = e
      /\ t.path = s.path /\ t.schema = s.schema /\ t.loaded = s.loaded
  BY <1>1, <1>2, <1>3 DEF ReadAll, IInv, TypeOK, Store
<1>5. LinesUpTo(d, s.start) \cup ValidLines(d, s.start) = LinesUpTo(d, e)
  BY <1>2, <1>3, ResumeExactlyOnce
<1>6. e = ConfirmedEnd(d, 0)
  BY <1>2, <1>3, ConfirmedEndFromLineStart
<1> HIDE DEF t, d, e
<1>7. Accumulated(t) = Fold(s.path, s.schema, LinesUpTo(d, e))
  BY <1>3, <1>4, <1>5 DEF Accumulated, Fold
<1>8. Record(t) = [schema |-> s.schema, path |-> s.path, off |-> e,
                   snap |-> Fold(s.path, s.schema, LinesUpTo(d, e))]
  BY <1>4, <1>7 DEF Record
<1> QED BY <1>6, <1>8, FullExtractIs DEF t, d

(* A step that reads no transcript creates no record and leaves the state  *)
(* file, loses it, or makes it one of the records there were.              *)
LEMMA SettleStep ==
    ASSUME TypeOK', data' = data,
           \A n \in Inode : \/ content'[n] \in {content[n], Empty, Torn}
                            \/ content'[n] \in Extracted,
           \A i \in Proc : pc'[i] \in {"read", "opened"} =>
              pc[i] \in {"read", "opened"} /\ Record(store'[i]) = Record(store[i])
    PROVE  Promise!Settle
<1>1. ASSUME NEW n \in Inode, IsStateFile(content'[n])
      PROVE  content'[n] \in Extracted
  BY <1>1 DEF Extracted, IsStateFile
<1>2. ASSUME NEW i \in Proc, pc'[i] \in {"read", "opened"}
      PROVE  Record(store'[i]) \in Extracted
  BY <1>2 DEF Extracted
<1>3. \A i \in Proc : Record(store[i])' = Record(store'[i])
  BY DEF Record, Accumulated
<1>4. Extracted' \subseteq Extracted
  BY <1>1, <1>2, <1>3 DEF Extracted, IsStateFile
<1>5. Saved' = {} \/ Saved' = Saved \/ \E r \in Extracted : Saved' = {r}
  <2>1. CASE target' # NoInode /\ IsStateFile(content'[target'])
    <3>1. target' \in Inode
      BY <2>1 DEF TypeOK
    <3>2. Saved' = {content'[target']}
      BY <2>1 DEF Saved, IsStateFile
    <3> QED BY <1>1, <2>1, <3>1, <3>2
  <2>2. CASE ~ (target' # NoInode /\ IsStateFile(content'[target']))
    BY <2>2 DEF Saved, IsStateFile
  <2> QED BY <2>1, <2>2
<1> QED BY <1>4, <1>5 DEF Promise!Settle, Promise!Save, Promise!Lose, Promise!GiveUp

LEMMA StepImplements == IInv /\ IInv' /\ [Next]_vars => [Promise!Next]_(Promise!vars)
<1> SUFFICES ASSUME IInv, TypeOK', [Next]_vars PROVE Promise!Next \/ UNCHANGED Promise!vars
  BY DEF IInv
<1> TypeOK
  BY DEF IInv
<1> DEFINE Kept(n) == content'[n] \in {content[n], Empty, Torn}
           Same(i) == pc'[i] \in {"read", "opened"} =>
                        pc[i] \in {"read", "opened"} /\ Record(store'[i]) = Record(store[i])
<1>1. \A i \in Proc : Record(store[i])' = Record(store'[i])
  BY DEF Record, Accumulated
<1>2. ASSUME NEW p \in Path, AppendCell(p) PROVE Promise!Next
  <2>1. UNCHANGED <<target, content, pc, store>>
    BY <1>2 DEF AppendCell, files
  <2>2. Extracted' = Extracted /\ Saved' = Saved
    BY <2>1 DEF Extracted, Saved, IsStateFile, Record, Accumulated
  <2>3. Promise!AppendCell(p)
    BY <1>2, <2>2 DEF AppendCell, Promise!AppendCell, Promise!Cell, Cell
  <2> QED BY <2>3 DEF Promise!Next
<1>3. ASSUME NEW i \in Proc, ReadAll(i) PROVE Promise!Next
  <2> DEFINE f == Promise!FullExtract(store[i].path, store[i].schema)
  <2>1. Record(store'[i]) = f
    BY <1>3, ReadIsFull
  <2>2. /\ UNCHANGED <<data, target, content>>
        /\ pc[i] = "seeked" /\ pc'[i] = "read"
        /\ \A j \in Proc \ {i} : pc'[j] = pc[j] /\ store'[j] = store[j]
    BY <1>3 DEF ReadAll, Goto, TypeOK, files
  <2>3. store[i].path \in Path /\ store[i].schema \in Schema
    BY <2>2 DEF TypeOK, Store
  <2> HIDE DEF f
  <2>4. {Record(store'[j]) : j \in {j \in Proc : pc'[j] \in {"read", "opened"}}}
          = {Record(store[j]) : j \in {j \in Proc : pc[j] \in {"read", "opened"}}} \cup {f}
    BY <2>1, <2>2
  <2>5. Extracted' = Extracted \cup {f}
    BY <1>1, <2>2, <2>4 DEF Extracted, IsStateFile
  <2>6. Saved' = Saved
    BY <2>2 DEF Saved, IsStateFile
  <2> QED BY <2>2, <2>3, <2>5, <2>6 DEF Promise!Next, Promise!Extract, f
<1>4. ASSUME data' = data, \A n \in Inode : Kept(n), \A i \in Proc : Same(i)
      PROVE  Promise!Next
  BY <1>4, SettleStep DEF Promise!Next
<1>5. ASSUME pc' = pc, store' = store PROVE \A i \in Proc : Same(i)
  BY <1>5
<1>6. ASSUME NEW i \in Proc, \A j \in Proc \ {i} : pc'[j] = pc[j] /\ store'[j] = store[j],
             Same(i)
      PROVE  \A j \in Proc : Same(j)
  BY <1>6
<1>7. ASSUME NEW i \in Proc, (\E p \in Path, v \in Schema : LoadState(i, p, v)) \/ ResolveStart(i)
      PROVE  Promise!Next
  <2>1. /\ UNCHANGED <<data, content>> /\ pc'[i] \in {"loaded", "seeked"}
        /\ \A j \in Proc \ {i} : pc'[j] = pc[j] /\ store'[j] = store[j]
    BY <1>7 DEF LoadState, ResolveStart, Goto, TypeOK, files
  <2> QED BY <1>4, <1>6, <2>1
<1>8. ASSUME NEW i \in Proc, OpenTmp(i) PROVE Promise!Next
  <2>1. /\ data' = data /\ pc[i] = "read"
        /\ \A j \in Proc \ {i} : pc'[j] = pc[j] /\ store'[j] = store[j]
    BY <1>8 DEF OpenTmp, Goto, TypeOK
  <2>2. \A n \in Inode : Kept(n)
    BY <1>8 DEF OpenTmp, TypeOK
  <2>3. Record(store'[i]) = Record(store[i])
    BY <1>8 DEF OpenTmp, TypeOK, Store, Record, Accumulated
  <2> QED BY <1>4, <1>6, <2>1, <2>2, <2>3
<1>9. ASSUME NEW i \in Proc, WriteTmp(i) PROVE Promise!Next
  <2> DEFINE r == Record(store[i])
             n == store[i].fd
  <2>1. /\ data' = data /\ pc[i] = "opened" /\ pc'[i] = "written"
        /\ \A j \in Proc \ {i} : pc'[j] = pc[j] /\ store'[j] = store[j]
    BY <1>9 DEF WriteTmp, Goto, TypeOK
  <2>2. r \in Extracted
    BY <2>1 DEF Extracted
  <2>3. PICK c \in WriteOver(content[n], r) : content' = Freed([content EXCEPT ![n] = c], n)
    BY <1>9 DEF WriteTmp
  <2> HIDE DEF r, n
  <2>4. c = r \/ c = Torn
    BY <2>3 DEF WriteOver
  <2>5. \A m \in Inode : content'[m] \in {content[m], c, Empty}
    BY <2>3 DEF Freed, TypeOK
  <2>6. \A m \in Inode : content'[m] \in {content[m], Empty, Torn} \/ content'[m] \in Extracted
    BY <2>2, <2>4, <2>5
  <2>7. \A j \in Proc : Same(j)
    BY <1>6, <2>1
  <2> QED BY <2>1, <2>6, <2>7, SettleStep DEF Promise!Next
<1>10. ASSUME NEW i \in Proc, Rename(i) \/ Fault(i) PROVE Promise!Next
  <2>1. data' = data /\ Exit(i) /\ \A n \in Inode : Kept(n)
    BY <1>10 DEF Rename, Fault, Quit, WriteFails, Freed, TypeOK
  <2>2. /\ pc'[i] = "idle"
        /\ \A j \in Proc \ {i} : pc'[j] = pc[j] /\ store'[j] = store[j]
    BY <2>1 DEF Exit, TypeOK
  <2> QED BY <1>4, <1>6, <2>1, <2>2
<1>11. ASSUME Sweep PROVE Promise!Next
  <2>1. UNCHANGED <<data, pc, store>>
    BY <1>11 DEF Sweep, Age, SweepInfo, SweepRemove
  <2>2. \A n \in Inode : Kept(n)
    BY <1>11 DEF Sweep, Age, SweepInfo, SweepRemove, Freed, TypeOK, files
  <2> QED BY <1>4, <1>5, <2>1, <2>2
<1>12. ASSUME UNCHANGED vars PROVE Promise!Next
  BY <1>4, <1>5, <1>12 DEF vars
<1> HIDE DEF Kept, Same
<1> QED BY <1>2, <1>3, <1>7, <1>8, <1>9, <1>10, <1>11, <1>12 DEF Next, Tick

(* However ticks overlap, are killed, fail or are swept away, reading on    *)
(* from the persisted offset and adding to the persisted snapshot is like  *)
(* reading the whole transcript at every tick.                             *)
THEOREM IncrementalIsFull == Spec => LikeFullExtraction
<1>1. Init => Promise!Init
  <2> SUFFICES ASSUME Init PROVE Promise!Init
    OBVIOUS
  <2>1. Extracted = {} /\ Saved = {}
    BY DEF Init, Extracted, Saved, IsStateFile
  <2> QED BY <2>1 DEF Init, Promise!Init
<1>2. IInv /\ IInv' /\ [Next]_vars => [Promise!Next]_(Promise!vars)
  BY StepImplements
<1> QED BY <1>1, <1>2, Inductive, PTL DEF Spec, LikeFullExtraction, Promise!Spec
============================================================================
