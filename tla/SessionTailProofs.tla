-------------------------- MODULE SessionTailProofs --------------------------
(***************************************************************************)
(* For every writer, size limit and placement of failing reads, the        *)
(* watcher of SessionTail is shown whole lines, each once and none skipped. *)
(*                                                                         *)
(* None of the properties is inductive.  What a line is depends on the     *)
(* cells the writer has still to write, so the invariant speaks of File,   *)
(* the session file as it will be; and what a reader may skip depends on   *)
(* where it stands: at the start of a line, behind the text of a line      *)
(* whose newline is missing, or inside a line that is oversized already.   *)
(***************************************************************************)
EXTENDS SessionTail, SequenceTheorems, WellFoundedInduction, TLAPS

File == data \o rest

(* The file is made of the writer's lines, and what is missing of it, at   *)
(* the end of n cells, lies within one line.                               *)
Written(f, n) ==
    /\ f = <<>> \/ f[Len(f)] = Newline
    /\ \A k \in n + 1 .. Len(f) - 1 : f[k] # Newline
    /\ \A l \in Segments(f, 0) : SubSeq(f, l[1] + 1, l[2] - 1) \in LineTexts

(* At the start of a line, or behind its text.                             *)
AtLine(f, p) == LineStart(f, p) \/ (p < Len(f) /\ f[p + 1] = Newline)

InOversized(f, p) ==
    \E b \in 0 .. p : /\ LineStart(f, b) /\ p - b > MaxLine
                      /\ \A k \in b + 1 .. p : f[k] # Newline

(* Every entry that begins before p is in X.                               *)
Seen(f, X, p) == \A l \in Entries(f) : l[1] < p => l \in X

Positions ==
    /\ offset <= term /\ term <= read /\ read <= Len(data)
    /\ AtLine(File, offset) /\ AtLine(File, term)
    /\ AtLine(File, read) \/ InOversized(File, read)

Messages ==
    /\ shown \cup msgs \subseteq Entries(File)
    /\ Seen(File, shown, offset) /\ Seen(File, shown \cup msgs, read)
    /\ \A l \in shown : l[1] < offset
    /\ \A l \in msgs : offset <= l[1] /\ l[1] < term

IInv == TypeOK /\ Written(File, Len(data)) /\ Positions /\ Messages

----------------------------------------------------------------------------
(* Facts about files. *)

LEMMA FileFacts ==
    ASSUME TypeOK
    PROVE  /\ File \in Seq(Cell) /\ Len(File) = Len(data) + Len(rest)
           /\ Len(data) \in Nat /\ Len(rest) \in Nat /\ Len(File) \in Nat
           /\ \A k \in 1 .. Len(data) : File[k] = data[k]
<1>1. data \in Seq(Cell) /\ rest \in Seq(Cell)
  BY DEF TypeOK
<1> QED  BY <1>1, ConcatProperties, LenProperties DEF File

(* A nonempty set of numbers above s has a least element.                  *)
LEMMA LeastElement ==
    ASSUME NEW s \in Nat, NEW m \in Nat, NEW S \in SUBSET (s + 1 .. m), S # {}
    PROVE  \E n \in S : \A k \in S : n <= k
<1>1. S \in SUBSET Nat
  OBVIOUS
<1>2. \E n \in S : \A k \in S : ~ (<<k, n>> \in OpToRel(<, Nat))
  BY <1>1, NatLessThanWellFounded, WFMin, Zenon
<1>3. PICK n \in S : \A k \in S : ~ (k < n)
  BY <1>1, <1>2 DEF OpToRel
<1> QED  BY <1>1, <1>3

(* Where a line of a written file ends.                                    *)
LEMMA LineEnd ==
    ASSUME NEW f \in Seq(Cell), NEW n \in 0 .. Len(f), Written(f, n),
           NEW b \in 0 .. Len(f) - 1
    PROVE  \E e \in b + 1 .. Len(f) : f[e] = Newline /\ \A k \in b + 1 .. e - 1 : f[k] # Newline
<1> DEFINE S == {k \in b + 1 .. Len(f) : f[k] = Newline}
<1>1. Len(f) \in Nat
  BY LenProperties
<1>2. Len(f) \in S
  BY <1>1, LenProperties DEF Written
<1>3. PICK e \in S : \A k \in S : e <= k
  <2>1. S \in SUBSET (b + 1 .. Len(f)) /\ S # {}
    BY <1>2
  <2>2. b \in Nat
    BY <1>1
  <2> HIDE DEF S
  <2> QED  BY <2>1, <2>2, <1>1, LeastElement
<1> QED  BY <1>1, <1>3

LEMMA LineIsSegment ==
    ASSUME NEW f \in Seq(Cell), NEW b \in 0 .. Len(f), NEW e \in b + 1 .. Len(f),
           LineStart(f, b), f[e] = Newline, \A k \in b + 1 .. e - 1 : f[k] # Newline
    PROVE  <<b, e>> \in Segments(f, 0)
<1>1. Len(f) \in Nat
  BY LenProperties
<1> QED  BY <1>1 DEF Segments, LineStart

LEMMA SegmentFacts ==
    ASSUME NEW f \in Seq(Cell), NEW l \in Segments(f, 0)
    PROVE  /\ l[1] \in 0 .. Len(f) /\ l[2] \in 0 .. Len(f) /\ l[1] < l[2]
           /\ l[1] = 0 \/ f[l[1]] = Newline
           /\ f[l[2]] = Newline /\ \A k \in l[1] + 1 .. l[2] - 1 : f[k] # Newline
           /\ l = <<l[1], l[2]>>
  BY DEF Segments

(* Entries are segments, and two segments do not overlap.                  *)
LEMMA EntryFacts ==
    ASSUME NEW f \in Seq(Cell), NEW l \in Entries(f)
    PROVE  /\ l \in Segments(f, 0) /\ l[1] \in Nat /\ l[2] \in Nat /\ l = <<l[1], l[2]>>
           /\ l[1] < l[2] /\ l[2] <= Len(f)
           /\ LineStart(f, l[1]) /\ f[l[2]] = Newline
           /\ \A k \in l[1] + 1 .. l[2] - 1 : f[k] # Newline
           /\ l[2] - 1 - l[1] <= MaxLine
<1>1. Len(f) \in Nat
  BY LenProperties
<1> QED  BY <1>1 DEF Entries, ValidLines, Segments, LineStart

(* An entry that begins in a stretch without newlines begins where the     *)
(* stretch does.                                                           *)
LEMMA NoEntryWithin ==
    ASSUME NEW f \in Seq(Cell), NEW p \in Nat, NEW n \in Nat, p <= n, n <= Len(f),
           \A k \in p + 1 .. n : f[k] # Newline,
           NEW l \in Entries(f), l[1] <= n
    PROVE  l[1] < p \/ (l[1] = p /\ LineStart(f, p))
<1>1. l[1] \in Nat /\ (l[1] = 0 \/ f[l[1]] = Newline)
  BY EntryFacts DEF LineStart
<1>2. ~ (l[1] \in p + 1 .. n)
  BY <1>1
<1>3. l[1] <= p
  BY <1>1, <1>2
<1> QED  BY <1>1, <1>3 DEF LineStart

(* A piece of the file that the writer has written already.                *)
LEMMA PieceOfFile ==
    ASSUME TypeOK, NEW p \in Nat, NEW e \in p + 1 .. Len(data)
    PROVE  SubSeq(data, p + 1, e) = SubSeq(File, p + 1, e)
<1>1. data \in Seq(Cell) /\ rest \in Seq(Cell) /\ Len(data) \in Nat
  BY LenProperties DEF TypeOK
<1>2. p + 1 \in 1 .. Len(data) /\ e \in 1 .. Len(data)
  BY <1>1
<1> QED  BY <1>1, <1>2, SubSeqOfConcat1 DEF File

(* A piece of the line <<b, e>>.                                           *)
LEMMA PieceOfLine ==
    ASSUME NEW f \in Seq(Cell), NEW n, Written(f, n), NEW b \in Nat, NEW e \in b + 2 .. Len(f),
           <<b, e>> \in Segments(f, 0), NEW i \in b .. e - 2, NEW j \in i + 1 .. e - 1
    PROVE  \E w \in LineTexts :
               /\ Len(w) = e - 1 - b
               /\ SubSeq(f, i + 1, j) = SubSeq(w, i - b + 1, j - b)
<1> DEFINE w == SubSeq(f, b + 1, e - 1)
<1>1. Len(f) \in Nat
  BY LenProperties
<1>2. w \in LineTexts
  BY DEF Written
<1>3. Len(w) = e - 1 - b
  <2>1. \A k \in b + 1 .. e - 1 : f[k] \in Cell
    BY <1>1, ElementOfSeq
  <2>2. b + 1 \in Int /\ e - 1 \in Int /\ b + 1 <= e - 1
    BY <1>1
  <2>3. Len(w) = (e - 1) - (b + 1) + 1
    BY <2>1, <2>2, SubSeqProperties, Zenon
  <2> QED  BY <2>3, <1>1
<1>4. SubSeq(w, i - b + 1, j - b) = SubSeq(f, (b + 1) + (i - b + 1) - 1, (b + 1) + (j - b) - 1)
  <2>1. b + 1 \in 1 .. Len(f) /\ e - 1 \in 1 .. Len(f)
    BY <1>1
  <2>2. i - b + 1 \in 1 .. (e - 1) - (b + 1) + 1 /\ j - b \in 1 .. (e - 1) - (b + 1) + 1
    BY <1>1
  <2> QED  BY <2>1, <2>2, SubSeqOfSubSeq
<1>5. (b + 1) + (i - b + 1) - 1 = i + 1 /\ (b + 1) + (j - b) - 1 = j
  BY <1>1
<1> QED  BY <1>2, <1>3, <1>4, <1>5

----------------------------------------------------------------------------
(* The writer. *)

(* A cell that moves from the line in progress to the file changes nothing *)
(* of what the file will be.                                               *)
LEMMA CellMoves ==
    ASSUME NEW d \in Seq(Cell), NEW w \in Seq(Cell), w # <<>>
    PROVE  /\ Append(d, Head(w)) \o Tail(w) = d \o w
           /\ Append(d, Head(w)) \in Seq(Cell) /\ Tail(w) \in Seq(Cell)
           /\ Len(Append(d, Head(w))) = Len(d) + 1
<1>1. Len(w) \in Nat \ {0} /\ Len(d) \in Nat
  BY EmptySeq, LenProperties
<1>2. Head(w) = w[1] /\ Head(w) \in Cell /\ Tail(w) \in Seq(Cell)
  BY HeadTailProperties, <1>1
<1>3. w = <<Head(w)>> \o Tail(w)
  <2>1. 1 \in 1 .. Len(w) /\ Len(w) \in 1 .. Len(w)
    BY <1>1
  <2>2. SubSeq(w, 1, Len(w)) = <<w[1]>> \o SubSeq(w, 1 + 1, Len(w))
    BY <2>1, SubSeqRecursiveFirst
  <2>3. SubSeq(w, 1, Len(w)) = w /\ Tail(w) = SubSeq(w, 2, Len(w))
    BY SubSeqFull, TailIsSubSeq
  <2> QED  BY <2>2, <2>3, <1>2
<1>4. Append(d, Head(w)) = d \o <<Head(w)>>
  BY <1>2, AppendIsConcat
<1>5. <<Head(w)>> \in Seq(Cell)
  BY <1>2
<1>6. (d \o <<Head(w)>>) \o Tail(w) = d \o (<<Head(w)>> \o Tail(w))
  BY <1>2, <1>5, ConcatAssociative
<1> QED  BY <1>2, <1>3, <1>4, <1>6, AppendProperties

(* The file g is f and the line of the text t.                             *)
IsLineAdded(f, t, g) ==
    /\ g \in Seq(Cell) /\ Len(g) = Len(f) + Len(t) + 1
    /\ Len(f) \in Nat /\ Len(t) \in Nat
    /\ \A k \in 1 .. Len(f) : g[k] = f[k]
    /\ \A k \in Len(f) + 1 .. Len(g) - 1 : g[k] # Newline
    /\ g[Len(g)] = Newline
    /\ SubSeq(g, Len(f) + 1, Len(g) - 1) = t

(* Another line is added to a file of whole lines.                         *)
LEMMA LineAdded ==
    ASSUME NEW f \in Seq(Cell), NEW t \in LineTexts, NEW g, g = f \o Append(t, Newline)
    PROVE  IsLineAdded(f, t, g)
<1> DEFINE w == Append(t, Newline)
<1>1. t \in Seq(Text) /\ t \in Seq(Cell) /\ Newline \in Cell
  <2>1. t \in Seq(Text) /\ Text \subseteq Cell
    BY LineAssumption DEF Cell
  <2> QED  BY <2>1, SeqMonotonic DEF Cell
<1>2. /\ w \in Seq(Cell) /\ Len(w) = Len(t) + 1 /\ w[Len(t) + 1] = Newline
      /\ \A k \in 1 .. Len(t) : w[k] = t[k]
  BY <1>1, AppendProperties
<1>3. Len(f) \in Nat /\ Len(t) \in Nat
  BY <1>1, LenProperties
<1>4. /\ g \in Seq(Cell) /\ Len(g) = Len(f) + Len(w)
      /\ \A k \in 1 .. Len(f) + Len(w) : g[k] = IF k <= Len(f) THEN f[k] ELSE w[k - Len(f)]
  BY <1>2, ConcatProperties
<1>5. \A k \in 1 .. Len(t) : t[k] # Newline
  BY <1>1, ElementOfSeq, CellAssumption
<1>6. ASSUME NEW k \in Len(f) + 1 .. Len(g) - 1 PROVE g[k] # Newline
  <2>1. k - Len(f) \in 1 .. Len(t) /\ k \in 1 .. Len(f) + Len(w) /\ ~ (k <= Len(f))
    BY <1>2, <1>3, <1>4
  <2> QED  BY <2>1, <1>2, <1>4, <1>5
<1>7. g[Len(g)] = Newline
  BY <1>2, <1>3, <1>4
<1>8. SubSeq(g, Len(f) + 1, Len(g) - 1) = t
  <2>1. CASE Len(t) = 0
    <3>1. t = <<>>
      BY <2>1, <1>1, EmptySeq
    <3>2. Len(g) - 1 < Len(f) + 1 /\ Len(g) - 1 \in Int /\ Len(f) + 1 \in Int
      BY <2>1, <1>2, <1>3, <1>4
    <3> QED  BY <3>1, <3>2, SubSeqEmpty
  <2>2. CASE Len(t) > 0
    <3>1. /\ Len(f) + 1 \in Len(f) + 1 .. Len(f) + Len(w)
          /\ Len(g) - 1 \in Len(f) + 1 .. Len(f) + Len(w)
      BY <2>2, <1>2, <1>3, <1>4
    <3>2. SubSeq(f \o w, Len(f) + 1, Len(g) - 1)
              = SubSeq(w, (Len(f) + 1) - Len(f), (Len(g) - 1) - Len(f))
      BY <3>1, <1>2, SubSeqOfConcat2
    <3>3. (Len(f) + 1) - Len(f) = 1 /\ (Len(g) - 1) - Len(f) = Len(t)
      BY <1>2, <1>3, <1>4
    <3>4. w = t \o <<Newline>> /\ <<Newline>> \in Seq(Cell)
      BY <1>1, AppendIsConcat
    <3>5. SubSeq(t \o <<Newline>>, 1, Len(t)) = SubSeq(t, 1, Len(t))
      <4>1. 1 \in 1 .. Len(t) /\ Len(t) \in 1 .. Len(t)
        BY <2>2, <1>3
      <4> QED  BY <4>1, <1>1, <3>4, SubSeqOfConcat1
    <3>6. SubSeq(t, 1, Len(t)) = t
      BY <1>1, SubSeqFull
    <3> QED  BY <3>2, <3>3, <3>4, <3>5, <3>6
  <2> QED  BY <2>1, <2>2, <1>3
<1> QED  BY <1>2, <1>3, <1>4, <1>6, <1>7, <1>8 DEF IsLineAdded

(* The entries of the longer file, and the reader's places in it.          *)
LEMMA LineAddedEntries ==
    ASSUME NEW f \in Seq(Cell), Written(f, Len(f)), NEW t \in LineTexts,
           NEW g, g = f \o Append(t, Newline)
    PROVE  /\ \A n \in Nat : n >= Len(f) => Written(g, n)
           /\ Entries(f) \subseteq Entries(g)
           /\ \A l \in Entries(g) : l[1] < Len(f) => l \in Entries(f)
           /\ \A p \in 0 .. Len(f) : /\ AtLine(f, p) => AtLine(g, p)
                                     /\ InOversized(f, p) => InOversized(g, p)
<1>1. /\ g \in Seq(Cell) /\ Len(g) = Len(f) + Len(t) + 1
      /\ Len(f) \in Nat /\ Len(t) \in Nat
      /\ \A k \in 1 .. Len(f) : g[k] = f[k]
      /\ \A k \in Len(f) + 1 .. Len(g) - 1 : g[k] # Newline
      /\ g[Len(g)] = Newline
      /\ SubSeq(g, Len(f) + 1, Len(g) - 1) = t
  <2>1. IsLineAdded(f, t, g)
    BY LineAdded
  <2> QED  BY <2>1 DEF IsLineAdded
<1>2. f = <<>> \/ f[Len(f)] = Newline
  BY DEF Written
<1>3. Len(f) > 0 => f[Len(f)] = Newline
  BY <1>2
<1>a. \A k \in 0 .. Len(g) : k > Len(f) /\ g[k] = Newline => k = Len(g)
  BY <1>1
<1>b. Len(f) > 0 => g[Len(f)] = Newline
  BY <1>1, <1>3
<1>c. Len(f) \in Nat /\ Len(g) \in Nat /\ Len(f) < Len(g)
  BY <1>1
<1>4. ASSUME NEW l \in Segments(g, 0)
      PROVE  \/ l \in Segments(f, 0) /\ l[2] <= Len(f)
             \/ l[1] = Len(f) /\ l[2] = Len(g)
  <2>0. l = <<l[1], l[2]>>
    BY <1>1, SegmentFacts
  <2>1. /\ l[1] \in 0 .. Len(g) /\ l[2] \in 0 .. Len(g) /\ l[1] < l[2]
        /\ l[1] = 0 \/ g[l[1]] = Newline
        /\ g[l[2]] = Newline /\ \A k \in l[1] + 1 .. l[2] - 1 : g[k] # Newline
    BY <1>1, SegmentFacts
  <2>2. CASE l[2] <= Len(f)
    <3>1. l[1] \in 0 .. Len(f) /\ l[2] \in 1 .. Len(f)
      BY <2>1, <2>2, <1>1
    <3>2. f[l[2]] = Newline /\ (l[1] = 0 \/ f[l[1]] = Newline)
      BY <3>1, <2>1, <1>1
    <3>3. \A k \in l[1] + 1 .. l[2] - 1 : f[k] # Newline
      BY <3>1, <2>1, <1>1
    <3>4. l \in (0 .. Len(f)) \X (0 .. Len(f))
      BY <2>0, <3>1, <1>1
    <3> QED  BY <2>1, <2>2, <3>2, <3>3, <3>4 DEF Segments
  <2>3. CASE l[2] > Len(f)
    <3>1. l[2] = Len(g)
      BY <2>1, <2>3, <1>a
    <3>2. ~ (l[1] > Len(f))
      BY <2>1, <3>1, <1>a, <1>c
    <3>3. ~ (l[1] < Len(f))
      BY <2>1, <3>1, <1>b, <1>c
    <3> QED  BY <3>1, <3>2, <3>3, <2>1, <1>c
  <2> QED  BY <2>1, <2>2, <2>3, <1>1
<1>5. ASSUME NEW l \in Segments(f, 0)
      PROVE  /\ l \in Segments(g, 0) /\ l[1] + 1 \in Int /\ l[2] - 1 \in Int
             /\ SubSeq(g, l[1] + 1, l[2] - 1) = SubSeq(f, l[1] + 1, l[2] - 1)
  <2>0. l = <<l[1], l[2]>>
    BY SegmentFacts
  <2>1. /\ l[1] \in 0 .. Len(f) /\ l[2] \in 0 .. Len(f) /\ l[1] < l[2]
        /\ l[1] = 0 \/ f[l[1]] = Newline
        /\ f[l[2]] = Newline /\ \A k \in l[1] + 1 .. l[2] - 1 : f[k] # Newline
    BY SegmentFacts
  <2>2. l \in Segments(g, 0)
    <3>1. l \in (0 .. Len(g)) \X (0 .. Len(g))
      BY <2>0, <2>1, <1>1
    <3>2. g[l[2]] = Newline /\ (l[1] = 0 \/ g[l[1]] = Newline)
      BY <2>1, <1>1
    <3>3. \A k \in l[1] + 1 .. l[2] - 1 : g[k] # Newline
      BY <2>1, <1>1
    <3> QED  BY <2>1, <3>1, <3>2, <3>3 DEF Segments
  <2>3. ASSUME l[1] + 1 > l[2] - 1
        PROVE  SubSeq(g, l[1] + 1, l[2] - 1) = SubSeq(f, l[1] + 1, l[2] - 1)
    <3>1. l[1] + 1 \in Int /\ l[2] - 1 \in Int /\ l[2] - 1 < l[1] + 1
      BY <2>1, <2>3, <1>1
    <3>2. SubSeq(g, l[1] + 1, l[2] - 1) = <<>> /\ SubSeq(f, l[1] + 1, l[2] - 1) = <<>>
      BY <3>1, <1>1, SubSeqEmpty
    <3> QED  BY <3>2, Zenon
  <2>4. ASSUME l[1] + 1 <= l[2] - 1
        PROVE  SubSeq(g, l[1] + 1, l[2] - 1) = SubSeq(f, l[1] + 1, l[2] - 1)
    <3>1. l[1] + 1 \in 1 .. Len(f) /\ l[2] - 1 \in 1 .. Len(f)
      BY <2>1, <2>4, <1>c
    <3>2. Append(t, Newline) \in Seq(Cell)
      <4>1. t \in Seq(Text) /\ Text \subseteq Cell /\ Newline \in Cell
        BY LineAssumption DEF Cell
      <4> QED  BY <4>1, SeqMonotonic, AppendProperties
    <3>3. SubSeq(f \o Append(t, Newline), l[1] + 1, l[2] - 1) = SubSeq(f, l[1] + 1, l[2] - 1)
      BY <3>1, <3>2, SubSeqOfConcat1
    <3> QED  BY <3>3, Zenon
  <2>5. l[1] + 1 \in Int /\ l[2] - 1 \in Int
    BY <2>1, <1>c
  <2>6. l[1] + 1 > l[2] - 1 \/ l[1] + 1 <= l[2] - 1
    BY <2>5
  <2> QED  BY <2>2, <2>3, <2>4, <2>5, <2>6, Zenon
<1>6. ASSUME NEW n \in Nat, n >= Len(f) PROVE Written(g, n)
  <2>1. \A l \in Segments(g, 0) : SubSeq(g, l[1] + 1, l[2] - 1) \in LineTexts
    BY <1>1, <1>4, <1>5 DEF Written
  <2>2. \A k \in n + 1 .. Len(g) - 1 : g[k] # Newline
    BY <1>1, <1>6
  <2> QED  BY <1>1, <2>1, <2>2 DEF Written
<1>7. Entries(f) \subseteq Entries(g)
  BY <1>5 DEF Entries, ValidLines
<1>8. ASSUME NEW l \in Entries(g), l[1] < Len(f) PROVE l \in Entries(f)
  <2>1. l \in Segments(g, 0) /\ SubSeq(g, l[1] + 1, l[2] - 1) \in JSON /\ l[2] - 1 - l[1] <= MaxLine
    BY DEF Entries, ValidLines
  <2>2. l \in Segments(f, 0)
    BY <2>1, <1>4, <1>8, <1>1
  <2> QED  BY <2>1, <2>2, <1>5 DEF Entries, ValidLines
<1>9. ASSUME NEW p \in 0 .. Len(f)
      PROVE  /\ LineStart(f, p) => LineStart(g, p)
             /\ AtLine(f, p) => AtLine(g, p)
             /\ InOversized(f, p) => InOversized(g, p)
  <2>1. \A q \in 0 .. Len(f) : LineStart(f, q) => LineStart(g, q)
    BY <1>1 DEF LineStart
  <2>2. p < Len(f) => p < Len(g) /\ g[p + 1] = f[p + 1]
    BY <1>1
  <2>3. \A b \in 0 .. p : (\A k \in b + 1 .. p : f[k] # Newline) => \A k \in b + 1 .. p : g[k] # Newline
    BY <1>1
  <2>4. \A b \in 0 .. p : b \in 0 .. Len(f)
    BY <1>1
  <2> QED  BY <2>1, <2>2, <2>3, <2>4 DEF AtLine, InOversized
<1> QED  BY <1>6, <1>7, <1>8, <1>9

LEMMA AppendKeeps ==
    ASSUME IInv, AppendCell
    PROVE  IInv'
<1> USE DEF IInv
<1>1. data \in Seq(Cell) /\ rest \in Seq(Cell) /\ Len(data) \in Nat
  BY FileFacts DEF TypeOK
<1>2. UNCHANGED <<mode, offset, read, term, msgs, shown, errors>> /\ event' = TRUE
  BY DEF AppendCell, reader
<1>3. offset \in Nat /\ read \in Nat /\ term \in Nat
  BY DEF TypeOK
<1>4. CASE rest # <<>>
  <2>1. data' = Append(data, Head(rest)) /\ rest' = Tail(rest)
    BY <1>4 DEF AppendCell
  <2>2. /\ File' = File /\ data' \in Seq(Cell) /\ rest' \in Seq(Cell)
        /\ Len(data') = Len(data) + 1
    BY <1>1, <1>4, <2>1, CellMoves DEF File
  <2>3. TypeOK'
    BY <1>2, <2>2 DEF TypeOK
  <2>4. Written(File, Len(data) + 1)
    BY <1>1 DEF Written
  <2>5. Written(File, Len(data))'
    BY <2>2, <2>4
  <2>6. Positions'
    BY <1>1, <1>2, <1>3, <2>2 DEF Positions
  <2>7. Messages'
    BY <1>2, <2>2 DEF Messages
  <2> QED  BY <2>3, <2>5, <2>6, <2>7
<1>5. CASE rest = <<>>
  <2>1. PICK t \in LineTexts : /\ data' = Append(data, Head(Append(t, Newline)))
                               /\ rest' = Tail(Append(t, Newline))
    BY <1>5 DEF AppendCell
  <2> DEFINE w == Append(t, Newline)
  <2>2. w \in Seq(Cell) /\ w # <<>>
    <3>1. t \in Seq(Text) /\ Text \subseteq Cell /\ Newline \in Cell
      BY LineAssumption DEF Cell
    <3> QED  BY <3>1, SeqMonotonic, AppendProperties
  <2> HIDE DEF w
  <2>3. /\ File' = data \o w /\ data' \in Seq(Cell) /\ rest' \in Seq(Cell)
        /\ Len(data') = Len(data) + 1
    BY <1>1, <2>1, <2>2, CellMoves DEF File, w
  <2>4. File = data
    BY <1>1, <1>5, ConcatEmptySeq DEF File
  <2>5. Written(data, Len(data))
    BY <2>4
  <2>6. /\ \A n \in Nat : n >= Len(data) => Written(File', n)
        /\ Entries(data) \subseteq Entries(File')
        /\ \A l \in Entries(File') : l[1] < Len(data) => l \in Entries(data)
        /\ \A p \in 0 .. Len(data) : /\ AtLine(data, p) => AtLine(File', p)
                                     /\ InOversized(data, p) => InOversized(File', p)
    BY <1>1, <2>3, <2>5, LineAddedEntries DEF w
  <2>7. offset \in 0 .. Len(data) /\ term \in 0 .. Len(data) /\ read \in 0 .. Len(data)
    BY <1>1, <1>3 DEF Positions
  <2>8. \A l \in Entries(File') : l[1] \in Nat
    BY <2>3, <1>1, <2>2, ConcatProperties, EntryFacts
  <2>9. TypeOK'
    BY <1>2, <2>3 DEF TypeOK
  <2>10. Written(File, Len(data))'
    BY <1>1, <2>3, <2>6
  <2>11. Positions'
    BY <1>1, <1>2, <1>3, <2>3, <2>4, <2>6, <2>7 DEF Positions
  <2>12. \A X, p : p \in 0 .. Len(data) /\ Seen(data, X, p) => Seen(File', X, p)
    BY <1>1, <2>6, <2>8 DEF Seen
  <2>13. Messages'
    BY <1>2, <2>4, <2>6, <2>7, <2>12 DEF Messages
  <2> QED  BY <2>9, <2>10, <2>11, <2>13
<1> QED  BY <1>4, <1>5

----------------------------------------------------------------------------
(* The reader. *)

(* A piece without newlines that does not begin a line does not parse: it  *)
(* is empty, or lies inside an oversized line.                             *)
LEMMA NoPieceParses ==
    ASSUME NEW f \in Seq(Cell), NEW n \in 0 .. Len(f), Written(f, n),
           NEW p \in Nat, NEW q \in p .. Len(f), \A k \in p + 1 .. q : f[k] # Newline,
           AtLine(f, p) \/ InOversized(f, p), ~ LineStart(f, p)
    PROVE  SubSeq(f, p + 1, q) \notin JSON
<1>1. Len(f) \in Nat /\ MaxLine \in Nat
  BY LenProperties, LineAssumption
<1>2. CASE q = p
  <2>1. SubSeq(f, p + 1, q) = <<>>
    BY <1>2, SubSeqEmpty
  <2> QED  BY <2>1, CellAssumption
<1>3. CASE q > p
  <2>1. f[p + 1] # Newline
    BY <1>1, <1>3
  <2>2. PICK b \in 0 .. p : /\ LineStart(f, b) /\ p - b > MaxLine
                            /\ \A k \in b + 1 .. p : f[k] # Newline
    BY <2>1 DEF AtLine, InOversized
  <2>3. q < Len(f)
    BY <1>1, <1>3 DEF Written
  <2>4. PICK e \in q + 1 .. Len(f) : f[e] = Newline /\ \A k \in q + 1 .. e - 1 : f[k] # Newline
    BY <1>1, <2>3, LineEnd
  <2>5. \A k \in b + 1 .. e - 1 : f[k] # Newline
    BY <1>1, <2>2, <2>4
  <2>6. /\ b \in Nat /\ b \in 0 .. Len(f) /\ e \in b + 1 .. Len(f) /\ e \in b + 2 .. Len(f)
        /\ p \in b .. e - 2 /\ q \in p + 1 .. e - 1
    BY <1>1, <1>3, <2>2, <2>4
  <2>7. <<b, e>> \in Segments(f, 0)
    BY <1>1, <2>2, <2>4, <2>5, <2>6, LineIsSegment
  <2>8. PICK w \in LineTexts : /\ Len(w) = e - 1 - b
                               /\ SubSeq(f, p + 1, q) = SubSeq(w, p - b + 1, q - b)
    BY <2>6, <2>7, PieceOfLine
  <2>9. /\ Len(w) > MaxLine
        /\ p - b + 1 \in MaxLine + 2 .. Len(w) /\ q - b \in MaxLine + 2 .. Len(w)
    BY <1>1, <1>3, <2>2, <2>4, <2>8
  <2>10. SubSeq(w, p - b + 1, q - b) \notin JSON
    BY <2>9, LineAssumption
  <2> QED  BY <2>8, <2>10
<1> QED  BY <1>1, <1>2, <1>3

(* A call returns what it has found up to a place at a line.               *)
LEMMA ReturnKeeps ==
    ASSUME IInv, NEW ms \in SUBSET Entries(File), NEW o \in Nat, Return(ms, o),
           UNCHANGED <<data, rest, event>>, errors' \in Nat,
           offset <= o, o <= Len(data), AtLine(File, o),
           Seen(File, shown \cup ms, o), \A l \in ms : l[1] < o
    PROVE  IInv'
<1> USE DEF IInv
<1>1. File \in Seq(Cell) /\ File' = File /\ Len(data) \in Nat
  BY FileFacts DEF File
<1>2. ms \subseteq Place
  BY <1>1, EntryFacts DEF Place
<1>3. /\ mode' = "idle" /\ offset' = o /\ shown' = shown \cup ms
      /\ msgs' = {} /\ read' = o /\ term' = o
  BY DEF Return
<1>4. TypeOK'
  BY <1>2, <1>3 DEF TypeOK
<1>5. Written(File, Len(data))'
  BY <1>1
<1>6. Positions'
  BY <1>1, <1>3 DEF Positions
<1>7. \A l \in shown' : l[1] < o
  <2>1. \A l \in shown : l[1] \in Nat /\ l[1] < offset
    BY <1>1, EntryFacts DEF Messages
  <2>2. offset \in Nat
    BY DEF TypeOK
  <2> QED  BY <1>3, <2>1, <2>2
<1>8. Messages'
  <2>1. Seen(File, shown', o) /\ Seen(File, shown' \cup {}, o)
    BY <1>3 DEF Seen
  <2> QED  BY <1>1, <1>3, <1>7, <2>1 DEF Messages
<1> QED  BY <1>4, <1>5, <1>6, <1>8

(* A call may stop at the last terminated line.                            *)
LEMMA ReturnAtTerm ==
    ASSUME IInv, Return(msgs, term), UNCHANGED <<data, rest, event>>, errors' \in Nat
    PROVE  IInv'
<1> USE DEF IInv
<1>1. offset \in Nat /\ term \in Nat /\ read \in Nat /\ Len(data) \in Nat /\ File \in Seq(Cell)
  BY FileFacts DEF TypeOK
<1>2. msgs \in SUBSET Entries(File) /\ \A l \in msgs : l[1] < term
  BY DEF Messages
<1>3. offset <= term /\ term <= Len(data) /\ AtLine(File, term)
  BY <1>1 DEF Positions
<1>4. Seen(File, shown \cup msgs, term)
  <2>1. \A l \in Entries(File) : l[1] \in Nat
    BY <1>1, EntryFacts
  <2> QED  BY <1>1, <2>1 DEF Messages, Positions, Seen
<1> QED  BY <1>1, <1>2, <1>3, <1>4, ReturnKeeps

LEMMA StartKeeps ==
    ASSUME IInv, StartRead
    PROVE  IInv'
<1> USE DEF IInv
<1>1. /\ mode' = "reading" /\ event' = FALSE /\ read' = offset /\ term' = offset
      /\ msgs' = {} /\ UNCHANGED <<data, rest, offset, shown, errors>>
  BY DEF StartRead
<1>2. File' = File /\ offset \in Nat /\ term \in Nat /\ read \in Nat /\ Len(data) \in Nat
  BY <1>1, FileFacts DEF File, TypeOK
<1>3. TypeOK'
  BY <1>1 DEF TypeOK
<1>4. Written(File, Len(data))'
  BY <1>1, <1>2
<1>5. Positions'
  BY <1>1, <1>2 DEF Positions
<1>6. Messages'
  BY <1>1, <1>2 DEF Messages, Seen
<1> QED  BY <1>3, <1>4, <1>5, <1>6

(* Where the reader stands when it looks for a line.                       *)
LEMMA Reading ==
    ASSUME IInv
    PROVE  /\ File \in Seq(Cell) /\ Len(data) \in 0 .. Len(File) /\ Len(data) \in Nat
           /\ Len(File) \in Nat /\ read \in Nat /\ read <= Len(data) /\ MaxLine \in Nat
           /\ offset \in Nat /\ term \in Nat /\ offset <= term /\ term <= read
           /\ Written(File, Len(data))
           /\ AtLine(File, read) \/ InOversized(File, read)
           /\ \A k \in 1 .. Len(data) : File[k] = data[k]
           /\ Seen(File, shown \cup msgs, read)
  BY FileFacts, LineAssumption DEF IInv, TypeOK, Positions, Messages

(* What the reader takes for the text of a line parses only at the start   *)
(* of a line.                                                              *)
LEMMA ParsesAtStart ==
    ASSUME IInv, NEW q \in read .. Len(data),
           \A k \in read + 1 .. q : data[k] # Newline, Parses(q)
    PROVE  /\ read < q /\ LineStart(File, read)
           /\ SubSeq(File, read + 1, q) \in JSON
<1>1. read \in Nat /\ Len(data) \in Nat
  BY Reading
<1>2. read < q
  <2>1. CASE q = read
    <3>1. SubSeq(data, read + 1, q) = <<>>
      <4>1. data \in Seq(Cell)
        BY DEF IInv, TypeOK
      <4> QED  BY <4>1, <2>1, <1>1, SubSeqEmpty
    <3> QED  BY <3>1, CellAssumption DEF Parses, TextTo
  <2> QED  BY <2>1, <1>1
<1>3. SubSeq(File, read + 1, q) \in JSON
  <2>1. q \in read + 1 .. Len(data)
    BY <1>1, <1>2
  <2>2. SubSeq(data, read + 1, q) = SubSeq(File, read + 1, q)
    BY <1>1, <2>1, PieceOfFile DEF IInv
  <2> QED  BY <2>2 DEF Parses, TextTo
<1>4. \A k \in read + 1 .. q : File[k] # Newline
  BY Reading
<1>5. q \in read .. Len(File)
  BY Reading
<1>6. LineStart(File, read)
  BY <1>3, <1>4, <1>5, Reading, NoPieceParses
<1> QED  BY <1>2, <1>3, <1>6

LEMMA TerminatedKeeps ==
    ASSUME IInv, TerminatedLine
    PROVE  IInv'
<1> DEFINE n == CHOOSE k \in NewlinesAhead : \A m \in NewlinesAhead : k <= m
<1>1. n \in NewlinesAhead /\ \A m \in NewlinesAhead : n <= m
  <2>1. NewlinesAhead \in SUBSET (read + 1 .. Len(data)) /\ NewlinesAhead # {}
    BY DEF TerminatedLine, NewlinesAhead
  <2>2. \E k \in NewlinesAhead : \A m \in NewlinesAhead : k <= m
    BY <2>1, Reading, LeastElement
  <2> QED  BY <2>2
<1>2. /\ msgs' = IF ~ Oversized(n - 1) /\ Parses(n - 1) THEN msgs \cup {<<read, n>>} ELSE msgs
      /\ read' = n /\ term' = n /\ UNCHANGED <<data, rest, event, mode, offset, shown, errors>>
  BY DEF TerminatedLine
<1> HIDE DEF n
<1>3. /\ n \in read + 1 .. Len(data) /\ data[n] = Newline
      /\ \A k \in read + 1 .. n - 1 : data[k] # Newline
  BY <1>1, Reading DEF NewlinesAhead
<1>4. /\ n \in Nat /\ n \in read + 1 .. Len(File) /\ File[n] = Newline /\ n - 1 \in read .. Len(data)
      /\ \A k \in read + 1 .. n - 1 : File[k] # Newline
  <2>1. read \in Nat /\ Len(data) \in Nat /\ Len(File) \in Nat /\ Len(data) <= Len(File)
    BY Reading
  <2>2. n \in Nat /\ n \in read + 1 .. Len(File) /\ n - 1 \in read .. Len(data)
    BY <1>3, <2>1
  <2>3. n \in 1 .. Len(data) /\ \A k \in read + 1 .. n - 1 : k \in 1 .. Len(data)
    BY <1>3, <2>1
  <2>4. File[n] = data[n] /\ \A k \in read + 1 .. n - 1 : File[k] = data[k]
    BY <2>3, Reading
  <2> QED  BY <1>3, <2>2, <2>4
<1>5. (~ Oversized(n - 1) /\ Parses(n - 1)) => <<read, n>> \in Entries(File)
  <2> SUFFICES ASSUME ~ Oversized(n - 1), Parses(n - 1)
               PROVE  <<read, n>> \in Entries(File)
    OBVIOUS
  <2>1. LineStart(File, read) /\ SubSeq(File, read + 1, n - 1) \in JSON
    BY <1>3, <1>4, ParsesAtStart
  <2>2. <<read, n>> \in Segments(File, 0)
    BY <1>4, <2>1, Reading, LineIsSegment
  <2>3. n - 1 - read <= MaxLine
    BY <1>4, Reading DEF Oversized
  <2> QED  BY <2>1, <2>2, <2>3 DEF Entries, ValidLines
<1>6. ASSUME NEW l \in Entries(File), l[1] = read
      PROVE  l = <<read, n>> /\ ~ Oversized(n - 1) /\ Parses(n - 1)
  <2>1. /\ l[2] \in Nat /\ l = <<l[1], l[2]>> /\ l[1] < l[2] /\ l[2] <= Len(File)
        /\ File[l[2]] = Newline /\ \A k \in l[1] + 1 .. l[2] - 1 : File[k] # Newline
        /\ l[2] - 1 - l[1] <= MaxLine
    BY Reading, EntryFacts
  <2>2. l[2] = n
    <3>1. read \in Nat
      BY Reading
    <3>2. ~ (l[2] < n)
      BY <1>4, <1>6, <2>1, <3>1
    <3>3. ~ (n < l[2])
      BY <1>4, <1>6, <2>1, <3>1
    <3> QED  BY <3>2, <3>3, <2>1, <1>4
  <2>3. SubSeq(File, read + 1, n - 1) \in JSON
    BY <1>6, <2>2 DEF Entries, ValidLines
  <2>4. n - 1 # read
    <3>1. SubSeq(File, read + 1, read) = <<>>
      BY Reading, SubSeqEmpty
    <3> QED  BY <2>3, <3>1, CellAssumption
  <2>5. SubSeq(data, read + 1, n - 1) = SubSeq(File, read + 1, n - 1)
    <3>1. n - 1 \in read + 1 .. Len(data)
      BY <1>4, <2>4, Reading
    <3> QED  BY <3>1, Reading, PieceOfFile DEF IInv
  <2>6. Parses(n - 1)
    BY <2>3, <2>5 DEF Parses, TextTo
  <2>7. ~ Oversized(n - 1)
    <3>1. read \in Nat /\ MaxLine \in Nat
      BY Reading
    <3> QED  BY <1>4, <1>6, <2>1, <2>2, <3>1 DEF Oversized
  <2> QED  BY <1>6, <2>1, <2>2, <2>6, <2>7
<1>7. File' = File
  BY <1>2 DEF File
<1>8. msgs' \subseteq Entries(File) /\ msgs \subseteq msgs'
  BY <1>2, <1>5 DEF IInv, Messages
<1>9. TypeOK'
  <2>1. msgs' \subseteq Place
    BY <1>8, Reading, EntryFacts DEF Place
  <2> QED  BY <1>2, <1>4, <2>1 DEF IInv, TypeOK
<1>10. Written(File, Len(data))'
  BY <1>2, <1>7, Reading
<1>11. Positions'
  <2>1. AtLine(File, n)
    BY <1>4 DEF AtLine, LineStart
  <2> QED  BY <1>2, <1>3, <1>4, <1>7, <2>1, Reading DEF IInv, Positions
<1>12. Seen(File, shown \cup msgs', n)
  <2> SUFFICES ASSUME NEW l \in Entries(File), l[1] < n
               PROVE  l \in shown \cup msgs'
    BY DEF Seen
  <2>1. l[1] \in Nat
    BY Reading, EntryFacts
  <2>2. l[1] < read \/ l[1] = read
    <3>1. read <= n - 1 /\ n - 1 \in Nat /\ n - 1 <= Len(File) /\ l[1] <= n - 1
      BY <1>4, <2>1, Reading
    <3> QED  BY <3>1, <1>4, Reading, NoEntryWithin
  <2>3. CASE l[1] < read
    BY <2>3, <1>8, Reading DEF Seen
  <2>4. CASE l[1] = read
    BY <2>4, <1>2, <1>6
  <2> QED  BY <2>2, <2>3, <2>4
<1>13. \A l \in msgs' : offset <= l[1] /\ l[1] < n
  <2>1. \A l \in msgs : l[1] \in Nat /\ offset <= l[1] /\ l[1] < term
    BY Reading, EntryFacts DEF IInv, Messages
  <2>2. offset <= read /\ read < n /\ \A l \in msgs : l[1] < n
    BY <1>4, <2>1, Reading
  <2> QED  BY <1>2, <2>1, <2>2
<1>14. Messages'
  BY <1>2, <1>7, <1>8, <1>12, <1>13 DEF IInv, Messages
<1> QED  BY <1>9, <1>10, <1>11, <1>14 DEF IInv

LEMMA OversizedTailKeeps ==
    ASSUME IInv, OversizedTail
    PROVE  IInv'
<1>1. /\ read' = Len(data) /\ Len(data) - read > MaxLine
      /\ UNCHANGED <<data, rest, event, mode, offset, term, msgs, shown, errors>>
  BY DEF OversizedTail, Oversized
<1>2. \A k \in read + 1 .. Len(data) : File[k] # Newline
  <2>1. \A k \in read + 1 .. Len(data) : data[k] # Newline
    BY DEF OversizedTail, NewlinesAhead
  <2> QED  BY <2>1, Reading
<1>3. File' = File
  BY <1>1 DEF File
<1>4. TypeOK'
  BY <1>1, Reading DEF IInv, TypeOK
<1>5. Written(File, Len(data))'
  BY <1>1, <1>3, Reading
<1>6. InOversized(File, Len(data))
  <2>1. CASE LineStart(File, read)
    BY <1>1, <1>2, <2>1, Reading DEF InOversized
  <2>2. CASE InOversized(File, read)
    <3>1. PICK b \in 0 .. read : /\ LineStart(File, b) /\ read - b > MaxLine
                                 /\ \A k \in b + 1 .. read : File[k] # Newline
      BY <2>2 DEF InOversized
    <3>2. b \in 0 .. Len(data) /\ Len(data) - b > MaxLine
      BY <3>1, Reading
    <3>3. \A k \in b + 1 .. Len(data) : File[k] # Newline
      BY <3>1, <1>2, Reading
    <3> QED  BY <3>1, <3>2, <3>3 DEF InOversized
  <2>3. ~ (read < Len(File) /\ File[read + 1] = Newline)
    BY <1>1, <1>2, Reading
  <2> QED  BY <2>1, <2>2, <2>3, Reading DEF AtLine
<1>7. Positions'
  BY <1>1, <1>3, <1>6, Reading DEF IInv, Positions
<1>8. Seen(File, shown \cup msgs, Len(data))
  <2> SUFFICES ASSUME NEW l \in Entries(File), l[1] < Len(data)
               PROVE  l \in shown \cup msgs
    BY DEF Seen
  <2>1. /\ l[1] \in Nat /\ l[2] \in Nat /\ l[1] < l[2] /\ l[2] <= Len(File)
        /\ File[l[2]] = Newline /\ l[2] - 1 - l[1] <= MaxLine
    BY Reading, EntryFacts
  <2>2. l[1] # read
    <3> SUFFICES ASSUME l[1] = read
                 PROVE  FALSE
      OBVIOUS
    <3>1. read \in Nat /\ Len(data) \in Nat /\ MaxLine \in Nat
      BY Reading
    <3>2. ~ (l[2] <= Len(data))
      BY <1>2, <2>1, <3>1
    <3> QED  BY <1>1, <2>1, <3>1, <3>2
  <2>3. l[1] < read \/ l[1] = read
    <3>1. /\ read \in Nat /\ Len(data) \in Nat /\ Len(data) <= Len(File) /\ read <= Len(data)
          /\ File \in Seq(Cell)
      BY Reading
    <3>2. l[1] <= Len(data)
      BY <2>1, <3>1
    <3> QED  BY <1>2, <3>1, <3>2, NoEntryWithin
  <2> QED  BY <2>2, <2>3, Reading DEF Seen
<1>9. Messages'
  BY <1>1, <1>3, <1>8 DEF IInv, Messages
<1> QED  BY <1>4, <1>5, <1>7, <1>9 DEF IInv

(* A tail that parses is the whole text of a line.                         *)
LEMMA TailIsLine ==
    ASSUME IInv, read < Len(data), \A k \in read + 1 .. Len(data) : data[k] # Newline,
           Parses(Len(data))
    PROVE  /\ LineStart(File, read) /\ SubSeq(File, read + 1, Len(data)) \in JSON
           /\ Len(data) + 1 <= Len(File) /\ File[Len(data) + 1] = Newline
           /\ \A k \in read + 1 .. Len(data) : File[k] # Newline
<1>1. Len(data) \in read .. Len(data)
  BY Reading
<1>2. LineStart(File, read) /\ SubSeq(File, read + 1, Len(data)) \in JSON
  BY <1>1, ParsesAtStart
<1>3. \A k \in read + 1 .. Len(data) : File[k] # Newline
  BY Reading
<1>4. PICK e \in read + 1 .. Len(File) :
          File[e] = Newline /\ \A k \in read + 1 .. e - 1 : File[k] # Newline
  <2>1. read \in 0 .. Len(File) - 1
    BY Reading
  <2> QED  BY <2>1, Reading, LineEnd
<1>5. e > Len(data) /\ e \in Nat
  BY <1>3, <1>4, Reading
<1>6. <<read, e>> \in Segments(File, 0)
  <2>1. read \in 0 .. Len(File)
    BY Reading
  <2> QED  BY <1>2, <1>4, <2>1, Reading, LineIsSegment
<1>7. PICK w \in LineTexts :
          /\ Len(w) = e - 1 - read
          /\ SubSeq(File, read + 1, Len(data)) = SubSeq(w, read - read + 1, Len(data) - read)
  <2>1. /\ e \in read + 2 .. Len(File) /\ read \in read .. e - 2
        /\ Len(data) \in read + 1 .. e - 1
    BY <1>5, Reading
  <2> QED  BY <1>6, <2>1, Reading, PieceOfLine
<1>8. SubSeq(w, 1, Len(data) - read) \in JSON
  <2>1. read - read + 1 = 1
    BY Reading
  <2> QED  BY <1>2, <1>7, <2>1
<1>9. ~ (Len(data) - read \in 0 .. Len(w) - 1)
  BY <1>8, LineAssumption
<1>10. e = Len(data) + 1
  BY <1>5, <1>7, <1>9, Reading
<1> QED  BY <1>2, <1>3, <1>4, <1>10

LEMMA UnterminatedTailKeeps ==
    ASSUME IInv, UnterminatedTail
    PROVE  IInv'
<1>1. /\ read < Len(data) /\ ~ Oversized(Len(data)) /\ UNCHANGED <<data, rest, event, errors>>
      /\ \A k \in read + 1 .. Len(data) : data[k] # Newline
  BY DEF UnterminatedTail, NewlinesAhead
<1>2. errors' \in Nat
  BY <1>1 DEF IInv, TypeOK
<1>3. CASE ~ Parses(Len(data))
  <2>1. Return(msgs, term)
    BY <1>3 DEF UnterminatedTail
  <2> QED  BY <1>1, <1>2, <2>1, ReturnAtTerm
<1>4. CASE Parses(Len(data))
  <2> DEFINE new == <<read, Len(data) + 1>>
             ms  == msgs \cup {new}
  <2>1. Return(ms, Len(data))
    BY <1>4 DEF UnterminatedTail
  <2>2. /\ LineStart(File, read) /\ SubSeq(File, read + 1, Len(data)) \in JSON
        /\ Len(data) + 1 <= Len(File) /\ File[Len(data) + 1] = Newline
        /\ \A k \in read + 1 .. Len(data) : File[k] # Newline
    BY <1>1, <1>4, TailIsLine
  <2>3. /\ read \in Nat /\ Len(data) \in Nat /\ Len(File) \in Nat /\ MaxLine \in Nat
        /\ offset \in Nat /\ term \in Nat /\ offset <= term /\ term <= read
        /\ File \in Seq(Cell)
    BY Reading
  <2>4. /\ Len(data) + 1 \in read + 1 .. Len(File) /\ read \in 0 .. Len(File)
        /\ (Len(data) + 1) - 1 = Len(data)
    BY <1>1, <2>2, <2>3
  <2>5. new \in Entries(File)
    <3>1. new \in Segments(File, 0)
      BY <2>2, <2>3, <2>4, LineIsSegment
    <3>2. Len(data) - read <= MaxLine
      BY <1>1, <2>3 DEF Oversized
    <3> QED  BY <2>2, <2>4, <3>1, <3>2 DEF Entries, ValidLines
  <2>6. ms \in SUBSET Entries(File)
    BY <2>5 DEF IInv, Messages
  <2>7. offset <= Len(data) /\ Len(data) <= Len(data) /\ AtLine(File, Len(data))
    BY <1>1, <2>2, <2>3 DEF AtLine
  <2>8. Seen(File, shown \cup ms, Len(data))
    <3> SUFFICES ASSUME NEW l \in Entries(File), l[1] < Len(data)
                 PROVE  l \in shown \cup ms
      BY DEF Seen
    <3>1. /\ l[1] \in Nat /\ l[2] \in Nat /\ l = <<l[1], l[2]>> /\ l[1] < l[2]
          /\ File[l[2]] = Newline /\ \A k \in l[1] + 1 .. l[2] - 1 : File[k] # Newline
      BY <2>3, EntryFacts
    <3>2. l[1] < read \/ l[1] = read
      <4>1. read <= Len(data) /\ Len(data) <= Len(File) /\ l[1] <= Len(data)
        BY <1>1, <2>2, <2>3, <3>1
      <4> QED  BY <2>2, <2>3, <4>1, NoEntryWithin
    <3>3. CASE l[1] < read
      BY <3>3, Reading DEF Seen
    <3>4. CASE l[1] = read
      <4>1. ~ (l[2] <= Len(data))
        BY <2>2, <2>3, <3>1, <3>4
      <4>2. ~ (Len(data) + 1 < l[2])
        BY <1>1, <2>2, <2>3, <3>1, <3>4
      <4>3. l = new
        BY <2>3, <3>1, <3>4, <4>1, <4>2
      <4> QED  BY <4>3
    <3> QED  BY <3>2, <3>3, <3>4
  <2>9. \A l \in ms : l[1] < Len(data)
    <3>1. \A l \in msgs : l[1] \in Nat /\ l[1] < term
      BY <2>3, EntryFacts DEF IInv, Messages
    <3>2. new[1] = read
      OBVIOUS
    <3> HIDE DEF new
    <3> QED  BY <1>1, <2>3, <3>1, <3>2
  <2> HIDE DEF ms
  <2> QED  BY <1>1, <1>2, <2>1, <2>3, <2>6, <2>7, <2>8, <2>9, ReturnKeeps
<1> QED  BY <1>3, <1>4

----------------------------------------------------------------------------
(* The invariant, and what follows from it. *)

LEMMA InitIInv == Init => IInv
<1> SUFFICES ASSUME Init PROVE IInv
  OBVIOUS
<1>1. /\ data = <<>> /\ rest = <<>> /\ event = FALSE /\ mode = "idle" /\ offset = 0
      /\ read = 0 /\ term = 0 /\ msgs = {} /\ shown = {} /\ errors = 0
  BY DEF Init
<1>2. TypeOK
  <2>1. <<>> \in Seq(Cell)
    BY EmptySeq
  <2> QED  BY <1>1, <2>1 DEF TypeOK
<1>3. File = <<>> /\ Len(File) = 0 /\ Len(data) = 0 /\ File \in Seq(Cell)
  BY <1>1, <1>2, FileFacts, EmptySeq
<1>4. Segments(File, 0) = {}
  BY <1>3 DEF Segments
<1>5. Written(File, Len(data))
  BY <1>3, <1>4 DEF Written
<1>6. Positions
  BY <1>1, <1>3 DEF Positions, AtLine, LineStart
<1>7. Messages
  BY <1>1, <1>4 DEF Messages, Seen, Entries, ValidLines
<1> QED  BY <1>2, <1>5, <1>6, <1>7 DEF IInv

LEMMA NextIInv == IInv /\ [Next]_vars => IInv'
<1> SUFFICES ASSUME IInv, [Next]_vars PROVE IInv'
  OBVIOUS
<1>1. CASE AppendCell
  BY <1>1, AppendKeeps
<1>2. CASE StartRead
  BY <1>2, StartKeeps
<1>3. CASE TerminatedLine
  BY <1>3, TerminatedKeeps
<1>4. CASE OversizedTail
  BY <1>4, OversizedTailKeeps
<1>5. CASE UnterminatedTail
  BY <1>5, UnterminatedTailKeeps
<1>6. CASE EndOfFile
  <2>1. errors' \in Nat
    BY <1>6 DEF EndOfFile, IInv, TypeOK
  <2> QED  BY <1>6, <2>1, ReturnAtTerm DEF EndOfFile
<1>7. CASE ReadError
  <2>1. errors' \in Nat
    BY <1>7 DEF ReadError, IInv, TypeOK
  <2> QED  BY <1>7, <2>1, ReturnAtTerm DEF ReadError
<1>8. CASE UNCHANGED vars
  BY <1>8 DEF vars, reader, IInv, TypeOK, Positions, Messages, Written, Seen, AtLine,
              InOversized, File
<1> QED  BY <1>1, <1>2, <1>3, <1>4, <1>5, <1>6, <1>7, <1>8 DEF Next, ReadLine

LEMMA SpecIInv == Spec => []IInv
  BY InitIInv, NextIInv, PTL DEF Spec

(* ReadSessionIncremental's state and results keep their types.            *)
THEOREM TypeCorrect == Spec => []TypeOK
<1>1. IInv => TypeOK
  BY DEF IInv
<1> QED  BY <1>1, SpecIInv, PTL

(* Whatever the watcher is shown is a whole line of the file as the writer *)
(* finishes it, wherever the reads fall.                                   *)
THEOREM ShownAreLines == Spec => []WholeLinesShown
<1>1. IInv => WholeLinesShown
  BY DEF IInv, Messages, WholeLinesShown, File
<1> QED  BY <1>1, SpecIInv, PTL

(* No line behind the offset was skipped and none is returned twice, also  *)
(* when a read failed or a tail was kept before its newline was written.   *)
THEOREM EveryLineOnce == Spec => []EachLineOnce
<1>1. ASSUME IInv PROVE EachLineOnce
  <2>1. /\ data \in Seq(Cell) /\ File \in Seq(Cell) /\ Len(data) \in Nat /\ Len(File) \in Nat
        /\ Len(data) <= Len(File) /\ \A k \in 1 .. Len(data) : File[k] = data[k]
    BY <1>1, FileFacts DEF IInv, TypeOK
  <2>2. ASSUME NEW l \in Entries(data)
        PROVE  l \in Entries(File) /\ l[1] < l[2] /\ l[1] \in Nat /\ l[2] \in Nat
    <3>1. /\ l \in Segments(data, 0) /\ l[2] - 1 - l[1] <= MaxLine
          /\ SubSeq(data, l[1] + 1, l[2] - 1) \in JSON
      BY DEF Entries, ValidLines
    <3>2. /\ l[1] \in 0 .. Len(data) /\ l[2] \in 0 .. Len(data) /\ l[1] < l[2]
          /\ l[1] = 0 \/ data[l[1]] = Newline
          /\ data[l[2]] = Newline /\ \A k \in l[1] + 1 .. l[2] - 1 : data[k] # Newline
          /\ l = <<l[1], l[2]>>
      BY <2>1, <3>1, SegmentFacts
    <3>3. l \in Segments(File, 0)
      <4>1. l \in (0 .. Len(File)) \X (0 .. Len(File))
        BY <2>1, <3>2
      <4>2. File[l[2]] = Newline /\ (l[1] = 0 \/ File[l[1]] = Newline)
        BY <2>1, <3>2
      <4>3. \A k \in l[1] + 1 .. l[2] - 1 : File[k] # Newline
        BY <2>1, <3>2
      <4> QED  BY <3>2, <4>1, <4>2, <4>3 DEF Segments
    <3>4. l[1] + 1 <= l[2] - 1
      <4>1. l[1] + 1 \in Int /\ l[2] - 1 \in Int
        BY <2>1, <3>2
      <4>2. l[2] - 1 < l[1] + 1 => SubSeq(data, l[1] + 1, l[2] - 1) = <<>>
        BY <2>1, <4>1, SubSeqEmpty
      <4>3. ~ (l[2] - 1 < l[1] + 1)
        BY <3>1, <4>2, CellAssumption, Zenon
      <4> QED  BY <4>1, <4>3
    <3>5. SubSeq(data, l[1] + 1, l[2] - 1) = SubSeq(File, l[1] + 1, l[2] - 1)
      <4>1. l[1] \in Nat /\ l[2] - 1 \in l[1] + 1 .. Len(data)
        BY <2>1, <3>2, <3>4
      <4> QED  BY <1>1, <4>1, PieceOfFile DEF IInv
    <3>6. l \in Entries(File)
      BY <3>1, <3>3, <3>5 DEF Entries, ValidLines
    <3> QED  BY <2>1, <3>2, <3>6
  <2>3. offset \in Nat /\ Seen(File, shown, offset)
    BY <1>1 DEF IInv, TypeOK, Messages
  <2>4. ASSUME NEW l \in Entries(data), l[2] <= offset PROVE l \in shown
    <3>1. l \in Entries(File) /\ l[1] < offset
      BY <2>2, <2>3, <2>4
    <3> QED  BY <2>3, <3>1 DEF Seen
  <2>5. msgs \cap shown = {}
    <3>1. \A l \in shown \cup msgs : l[1] \in Nat
      BY <1>1, <2>1, EntryFacts DEF IInv, Messages
    <3> QED  BY <1>1, <2>3, <3>1 DEF IInv, Messages
  <2> QED  BY <2>4, <2>5 DEF EachLineOnce
<1> QED  BY <1>1, SpecIInv, PTL
==============================================================================
