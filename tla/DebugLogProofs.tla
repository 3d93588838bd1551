--------------------------- MODULE DebugLogProofs ---------------------------
(***************************************************************************)
(* What a viewer shows of a debug log, for logs and lines of every length. *)
(*                                                                         *)
(* A read is a recursive function over the lines it scans; so every proof  *)
(* about a read is an induction over its lines, with what the scanner      *)
(* holds after each of them related to the part of the log it has behind   *)
(* it.  An entry is found among all entries by its place: the number of    *)
(* entries that start no later.                                            *)
(***************************************************************************)
EXTENDS DebugLog, FiniteSetTheorems, SequenceTheorems, WellFoundedInduction, TLAPS

(* SETS OF NUMBERS *)

(* A property of 0 that every number hands on to the next holds of all;     *)
(* T are its counterexamples.                                              *)
LEMMA NoLeast ==
    ASSUME NEW T \in SUBSET Nat, 0 \notin T,
           \A n \in Nat : n \notin T => n + 1 \notin T
    PROVE  T = {}
<1> SUFFICES ASSUME T # {} PROVE FALSE
  OBVIOUS
<1>1. PICK m \in T : \A k \in T : ~ (<<k, m>> \in OpToRel(<, Nat))
  BY NatLessThanWellFounded, WFMin, Zenon
<1>2. \A k \in T : ~ (k < m)
  BY <1>1 DEF OpToRel
<1>3. m - 1 \in Nat /\ (m - 1) + 1 = m /\ m - 1 < m
  OBVIOUS
<1> QED  BY <1>2, <1>3

(* The least of some numbers.                                              *)
LEMMA LeastIs ==
    ASSUME NEW T \in SUBSET Nat, T # {}
    PROVE  Min(T) \in T /\ \A k \in T : Min(T) <= k
<1>1. PICK m \in T : \A k \in T : ~ (<<k, m>> \in OpToRel(<, Nat))
  BY NatLessThanWellFounded, WFMin, Zenon
<1>2. \A k \in T : m <= k
  <2>1. \A k \in T : ~ (k < m)
    BY <1>1 DEF OpToRel
  <2>2. \A k \in T : k \in Nat /\ m \in Nat
    OBVIOUS
  <2> QED  BY <2>1, <2>2
<1>3. \E x \in T : \A k \in T : x <= k
  BY <1>2
<1> QED  BY <1>3 DEF Min

(* The greatest of some numbers that have a bound.                         *)
LEMMA GreatestIs ==
    ASSUME NEW N \in Nat, NEW S \in SUBSET (0 .. N), S # {}
    PROVE  \E h \in S : \A k \in S : k <= h
<1> DEFINE T == {N - k : k \in S}
<1>1. T \in SUBSET Nat /\ T # {}
  <2>1. \A k \in S : k \in 0 .. N
    OBVIOUS
  <2>2. \A k \in S : N - k \in Nat
    BY <2>1
  <2> QED  BY <2>2
<1>2. PICK m \in T : \A k \in T : m <= k
  BY <1>1, LeastIs
<1>3. PICK h \in S : m = N - h
  BY <1>2
<1>4. \A k \in S : N - k \in T
  OBVIOUS
<1>5. ASSUME NEW k \in S PROVE k <= h
  <2>1. N - h <= N - k
    BY <1>2, <1>3, <1>4
  <2>2. k \in Int /\ h \in Int
    OBVIOUS
  <2> QED  BY <2>1, <2>2
<1> QED  BY <1>5

(* A set of numbers up to N is finite.                                     *)
LEMMA UpToFinite ==
    ASSUME NEW N \in Int, NEW S, S \subseteq 0 .. N
    PROVE  IsFiniteSet(S) /\ Cardinality(S) \in Nat
<1>1. IsFiniteSet(0 .. N)
  BY FS_Interval
<1> QED  BY <1>1, FS_Subset, FS_CardinalityType

(* The place of a member is a position in a sequence of all of them.       *)
LEMMA PlaceIn ==
    ASSUME NEW S, IsFiniteSet(S), S \subseteq Nat, NEW s \in S
    PROVE  Place(S, s) \in 1 .. Cardinality(S)
<1> DEFINE B == {n \in S : n <= s}
<1>1. B \subseteq S /\ s \in B
  OBVIOUS
<1>2. IsFiniteSet(B) /\ Cardinality(B) <= Cardinality(S)
  BY <1>1, FS_Subset
<1>3. Cardinality(B) \in Nat /\ Cardinality(B) # 0
  BY <1>1, <1>2, FS_CardinalityType, FS_EmptySet
<1>4. Cardinality(S) \in Nat
  BY FS_CardinalityType
<1> HIDE DEF B
<1>5. Cardinality(B) \in 1 .. Cardinality(S)
  BY <1>2, <1>3, <1>4
<1> QED  BY <1>5 DEF Place, B

(* Nothing comes after the greatest, and every other one before it.         *)
LEMMA PlaceGreatest ==
    ASSUME NEW S, IsFiniteSet(S), S \subseteq Nat, NEW h \in S, \A k \in S : k <= h
    PROVE  /\ \A n \in Nat : h <= n => Place(S, n) = Cardinality(S)
           /\ \A s \in S : s # h => Place(S, s) < Cardinality(S)
<1>1. ASSUME NEW n \in Nat, h <= n PROVE Place(S, n) = Cardinality(S)
  <2>1. {k \in S : k <= n} = S
    <3>1. \A k \in S : k \in Int /\ h \in Int /\ k <= h
      OBVIOUS
    <3>2. \A k \in S : k <= n
      BY <1>1, <3>1
    <3> QED  BY <3>2
  <2> QED  BY <2>1 DEF Place
<1>2. ASSUME NEW s \in S, s # h PROVE Place(S, s) < Cardinality(S)
  <2> DEFINE B == {n \in S : n <= s}
  <2>1. B \subseteq S \ {h}
    BY <1>2
  <2>2. IsFiniteSet(S \ {h}) /\ Cardinality(S \ {h}) = Cardinality(S) - 1
    BY FS_RemoveElement
  <2>3. IsFiniteSet(B) /\ Cardinality(B) <= Cardinality(S \ {h})
    BY <2>1, <2>2, FS_Subset
  <2>4. Cardinality(S) \in Nat /\ Cardinality(B) \in Nat
    BY <2>3, FS_CardinalityType
  <2> HIDE DEF B
  <2>5. Cardinality(B) < Cardinality(S)
    BY <2>2, <2>3, <2>4
  <2> QED  BY <2>5 DEF Place, B
<1> QED  BY <1>1, <1>2

(* A new greatest takes the last place and leaves the others theirs.       *)
LEMMA PlaceAdd ==
    ASSUME NEW S, IsFiniteSet(S), S \subseteq Nat, NEW p \in Nat, \A k \in S : k < p
    PROVE  /\ Cardinality(S \cup {p}) = Cardinality(S) + 1
           /\ \A n \in Nat : n < p => Place(S \cup {p}, n) = Place(S, n)
           /\ \A n \in Nat : p <= n => Place(S \cup {p}, n) = Cardinality(S) + 1
<1>1. p \notin S
  OBVIOUS
<1>2. Cardinality(S \cup {p}) = Cardinality(S) + 1
  BY <1>1, FS_AddElement
<1>3. ASSUME NEW n \in Nat, n < p PROVE Place(S \cup {p}, n) = Place(S, n)
  <2>1. {k \in S \cup {p} : k <= n} = {k \in S : k <= n}
    BY <1>3
  <2> QED  BY <2>1 DEF Place
<1>4. ASSUME NEW n \in Nat, p <= n PROVE Place(S \cup {p}, n) = Cardinality(S) + 1
  <2>1. {k \in S \cup {p} : k <= n} = S \cup {p}
    <3>1. \A k \in S \cup {p} : k \in Int /\ k <= p
      OBVIOUS
    <3>2. \A k \in S \cup {p} : k <= n
      BY <1>4, <3>1
    <3> QED  BY <3>2
  <2> QED  BY <2>1, <1>2 DEF Place
<1> QED  BY <1>2, <1>3, <1>4

----------------------------------------------------------------------------
(* LINES *)

(* A line ends at the first newline after its start, or behind the log.     *)
LEMMA LineEndIs ==
    ASSUME NEW d, d \in Seq(Cell), NEW s \in Nat, s <= Len(d)
    PROVE  /\ LineEnd(d, s) \in s + 1 .. Len(d) + 1
           /\ LineEnd(d, s) <= Len(d) => d[LineEnd(d, s)] = Newline
           /\ \A n \in s + 1 .. LineEnd(d, s) - 1 : d[n] # Newline
<1> DEFINE B == {n \in s + 1 .. Len(d) : d[n] = Newline} \cup {Len(d) + 1}
<1>1. Len(d) \in Nat
  OBVIOUS
<1>2. B \in SUBSET Nat /\ B # {} /\ Len(d) + 1 \in B
  BY <1>1
<1>3. Min(B) \in B /\ \A k \in B : Min(B) <= k
  BY <1>2, LeastIs
<1>4. LineEnd(d, s) = Min(B)
  BY DEF LineEnd
<1>5. \A k \in B : k \in s + 1 .. Len(d) + 1 /\ (k <= Len(d) => d[k] = Newline)
  BY <1>1
<1>6. ASSUME NEW n \in s + 1 .. Min(B) - 1 PROVE d[n] # Newline
  <2>1. Min(B) \in s + 1 .. Len(d) + 1
    BY <1>3, <1>5
  <2>2. n \in s + 1 .. Len(d) /\ ~ (Min(B) <= n)
    BY <1>1, <2>1
  <2>3. n \notin B
    BY <1>3, <2>2
  <2> QED  BY <2>2, <2>3
<1> HIDE DEF B
<1> QED  BY <1>3, <1>4, <1>5, <1>6

(* A number with these properties is the end of the line.                  *)
LEMMA LineEndIsOnly ==
    ASSUME NEW d, d \in Seq(Cell), NEW s \in Nat, s <= Len(d),
           NEW e \in s + 1 .. Len(d) + 1, e <= Len(d) => d[e] = Newline,
           \A n \in s + 1 .. e - 1 : d[n] # Newline
    PROVE  LineEnd(d, s) = e
<1> DEFINE x == LineEnd(d, s)
<1>1. Len(d) \in Nat
  OBVIOUS
<1>2. /\ x \in s + 1 .. Len(d) + 1
      /\ x <= Len(d) => d[x] = Newline
      /\ \A n \in s + 1 .. x - 1 : d[n] # Newline
  BY LineEndIs
<1> HIDE DEF x
<1>3. ~ (x < e)
  <2> SUFFICES ASSUME x < e PROVE FALSE
    OBVIOUS
  <2>1. x \in s + 1 .. e - 1 /\ x <= Len(d)
    BY <1>1, <1>2
  <2> QED  BY <2>1, <1>2
<1>4. ~ (e < x)
  <2> SUFFICES ASSUME e < x PROVE FALSE
    OBVIOUS
  <2>1. e \in s + 1 .. x - 1 /\ e <= Len(d)
    BY <1>1, <1>2
  <2> QED  BY <2>1, <1>2
<1>5. x = e
  BY <1>1, <1>2, <1>3, <1>4
<1> QED  BY <1>5 DEF x

(* The cells of a line.                                                    *)
LEMMA LineCells ==
    ASSUME NEW d, d \in Seq(Cell), NEW s \in Nat, s <= Len(d)
    PROVE  LET l == SubSeq(d, s + 1, LineEnd(d, s) - 1) IN
           /\ l \in Words /\ Len(l) = LineEnd(d, s) - 1 - s
           /\ \A i \in 1 .. Len(l) : l[i] = d[s + i]
<1> DEFINE e == LineEnd(d, s)
           l == SubSeq(d, s + 1, e - 1)
<1>1. Len(d) \in Nat
  OBVIOUS
<1>2. e \in s + 1 .. Len(d) + 1 /\ \A n \in s + 1 .. e - 1 : d[n] # Newline
  BY LineEndIs
<1> HIDE DEF e
<1>3. l \in Seq(Cell) /\ Len(l) = e - 1 - s /\ \A i \in 1 .. Len(l) : l[i] = d[s + i]
  <2>1. s + 1 \in 1 .. Len(d) + 1 /\ e - 1 \in s .. Len(d)
    BY <1>1, <1>2
  <2>2. Len(l) = IF s + 1 <= e - 1 THEN (e - 1) - (s + 1) + 1 ELSE 0
    BY <1>1, <2>1 DEF l
  <2>3. Len(l) = e - 1 - s
    BY <1>1, <1>2, <2>2
  <2>4. ASSUME NEW i \in 1 .. Len(l) PROVE l[i] = d[s + i] /\ d[s + i] \in Cell
    <3>1. i \in 1 .. e - 1 - s
      BY <2>3
    <3>2. l[i] = d[s + 1 + i - 1]
      BY <1>1, <1>2, <2>1, <3>1 DEF l
    <3>3. s + 1 + i - 1 = s + i /\ s + i \in 1 .. Len(d)
      BY <1>1, <1>2, <3>1
    <3>4. \A n \in 1 .. Len(d) : d[n] \in Cell
      OBVIOUS
    <3> QED  BY <3>2, <3>3, <3>4
  <2>5. l \in Seq(Cell)
    BY <1>1, <1>2, <2>1, SubSeqProperties DEF l
  <2> QED  BY <2>3, <2>4, <2>5
<1>4. ASSUME NEW i \in 1 .. Len(l) PROVE l[i] \in Cell \ {Newline}
  <2>1. s + i \in s + 1 .. e - 1
    BY <1>1, <1>2, <1>3
  <2>2. l[i] = d[s + i] /\ l[i] \in Cell
    <3>1. l \in Seq(Cell)
      BY <1>3
    <3> HIDE DEF l
    <3>2. l[i] \in Cell
      BY <3>1
    <3>3. l[i] = d[s + i]
      BY <1>3 DEF l
    <3> QED  BY <3>2, <3>3
  <2> QED  BY <2>1, <2>2, <1>2
<1> HIDE DEF l
<1>5. l \in Seq(Cell \ {Newline})
  BY <1>3, <1>4
<1>6. l \in Words
  BY <1>5 DEF Words
<1>7. /\ l \in Words /\ Len(l) = e - 1 - s
      /\ \A i \in 1 .. Len(l) : l[i] = d[s + i]
  BY <1>3, <1>6
<1> QED  BY <1>7 DEF e, l

(* Dropping a carriage return takes at most the last cell of a line.       *)
LEMMA DropCRIs ==
    ASSUME NEW l \in Words
    PROVE  /\ DropCR(l) \in Words /\ Len(DropCR(l)) \in 0 .. Len(l)
           /\ DropCR(l) = l \/ (Len(l) > 0 /\ l[Len(l)] = CR /\ Len(DropCR(l)) = Len(l) - 1)
           /\ DropCR(l) # l => Len(l) > 0 /\ l[Len(l)] = CR
<1>1. CASE l # <<>> /\ Last(l) = CR
  <2>1. Len(l) \in Nat /\ Len(l) > 0
    BY <1>1 DEF Words
  <2>2. Front(l) = SubSeq(l, 1, Len(l) - 1)
    BY DEF Front
  <2>3. Front(l) \in Words /\ Len(Front(l)) = Len(l) - 1
    <3>1. l \in Seq(Cell \ {Newline}) /\ Len(l) - 1 \in 0 .. Len(l)
      BY <2>1 DEF Words
    <3>2. \A i \in 1 .. Len(l) - 1 : i \in 1 .. Len(l)
      BY <2>1
    <3>3. SubSeq(l, 1, Len(l) - 1) \in Seq(Cell \ {Newline})
      BY <3>1, <3>2, SubSeqProperties
    <3>4. Len(SubSeq(l, 1, Len(l) - 1)) = Len(l) - 1
      BY <2>1
    <3> QED  BY <2>2, <3>3, <3>4 DEF Words
  <2>4. DropCR(l) = Front(l)
    BY <1>1 DEF DropCR
  <2>5. l[Len(l)] = CR
    BY <1>1 DEF Last
  <2> QED  BY <2>1, <2>3, <2>4, <2>5
<1>2. CASE ~ (l # <<>> /\ Last(l) = CR)
  <2>1. DropCR(l) = l
    BY <1>2 DEF DropCR
  <2>2. Len(l) \in Nat
    BY DEF Words
  <2> QED  BY <2>1, <2>2
<1> QED  BY <1>1, <1>2

(* What the scanner holds after n lines, from what it held before the last *)
(* of them.                                                                *)
LEMMA ScannedIs ==
    ASSUME NEW d, NEW o, NEW l, Len(d) \in Nat
    PROVE  LET f == Scanned(d, o, l) IN
           /\ DOMAIN f = 0 .. Len(d)
           /\ f[0] = [at |-> o, bytes |-> o, line |-> l, entries |-> <<>>]
           /\ \A n \in 1 .. Len(d) : f[n] = NextLine(d, f[n - 1])
<1> DEFINE start == [at |-> o, bytes |-> o, line |-> l, entries |-> <<>>]
           from(x, n) == NextLine(d, x)
           Is(f, m) == f = [n \in 0 .. m |-> IF n = 0 THEN start ELSE from(f[n - 1], n)]
           T == {m \in Nat : ~ \E f : Is(f, m)}
<1>1. T = {}
  <2> HIDE DEF start, from
  <2>1. 0 \notin T
    <3>1. PICK f : f = [n \in 0 .. 0 |-> start]
      OBVIOUS
    <3>2. Is(f, 0)
      BY <3>1
    <3> QED  BY <3>2
  <2>2. ASSUME NEW m \in Nat, m \notin T PROVE m + 1 \notin T
    <3>1. PICK f : Is(f, m)
      BY <2>2
    <3>2. PICK g : g = [n \in 0 .. m + 1 |-> IF n \in 0 .. m THEN f[n] ELSE from(f[n - 1], n)]
      OBVIOUS
    <3>3. \A n \in 0 .. m : g[n] = f[n]
      BY <3>2
    <3>4. ASSUME NEW n \in 0 .. m + 1
          PROVE  g[n] = IF n = 0 THEN start ELSE from(g[n - 1], n)
      <4>1. CASE n = m + 1
        BY <3>2, <3>3, <4>1
      <4>2. CASE n # m + 1
        <5>1. n \in 0 .. m /\ (n # 0 => n - 1 \in 0 .. m)
          BY <4>2
        <5>2. f[n] = IF n = 0 THEN start ELSE from(f[n - 1], n)
          BY <3>1, <5>1
        <5> QED  BY <3>3, <5>1, <5>2
      <4> QED  BY <4>1, <4>2
    <3>5. Is(g, m + 1)
      BY <3>2, <3>4
    <3> QED  BY <3>5
  <2> HIDE DEF T
  <2>3. T \in SUBSET Nat
    BY DEF T
  <2> QED  BY <2>1, <2>2, <2>3, NoLeast
<1>2. PICK f : Is(f, Len(d))
  BY <1>1
<1>3. Is(Scanned(d, o, l), Len(d))
  BY <1>2 DEF Scanned
<1> HIDE DEF start, from
<1>4. PICK g : g = Scanned(d, o, l) /\ Is(g, Len(d))
  BY <1>3
<1>5. /\ DOMAIN g = 0 .. Len(d)
      /\ \A n \in 0 .. Len(d) : g[n] = IF n = 0 THEN start ELSE from(g[n - 1], n)
  BY <1>4
<1>6. \A n \in 1 .. Len(d) : g[n] = from(g[n - 1], n)
  <2>1. \A n \in 1 .. Len(d) : n \in 0 .. Len(d) /\ n # 0
    OBVIOUS
  <2> QED  BY <1>5, <2>1
<1>7. g[0] = start
  BY <1>5
<1> QED  BY <1>4, <1>5, <1>6, <1>7 DEF start, from

----------------------------------------------------------------------------
(* TYPES *)

(* What a line of the log makes an entry of.                               *)
LEMMA ParsedIsEntry ==
    ASSUME NEW l \in Words, IsTimestampLine(l), NEW n \in 1 .. MaxLen
    PROVE  ParseDebugLine(l, n) \in Entry
<1>1. l \in Seq(Cell \ {Newline}) /\ l # <<>> /\ l[1] \in Stamp
  BY DEF Words, IsTimestampLine
<1>2. Tail(l) \in Words
  BY <1>1 DEF Words
<1>3. <<>> \in Seq(Words)
  OBVIOUS
<1> QED  BY <1>1, <1>2, <1>3 DEF ParseDebugLine, Entry

(* One more continuation line is still an entry.                           *)
LEMMA ExtendedIsEntry ==
    ASSUME NEW e \in Entry, NEW l \in Words
    PROVE  [e EXCEPT !.extra = Append(@, l)] \in Entry
<1>1. e.extra \in Seq(Words)
  BY DEF Entry
<1>2. Append(e.extra, l) \in Seq(Words)
  BY <1>1
<1> QED  BY <1>2 DEF Entry

(* The entries of a read with one line more.                               *)
LEMMA AddLineIs ==
    ASSUME NEW es \in Seq(Entry), NEW l \in Words, NEW n \in 1 .. MaxLen
    PROVE  AddLine(es, l, n) \in Seq(Entry)
<1>1. CASE IsTimestampLine(l)
  <2>1. AddLine(es, l, n) = Append(es, ParseDebugLine(l, n))
    BY <1>1 DEF AddLine
  <2>2. ParseDebugLine(l, n) \in Entry
    BY <1>1, ParsedIsEntry
  <2> QED  BY <2>1, <2>2
<1>2. CASE ~ IsTimestampLine(l) /\ es # <<>> /\ l # <<>>
  <2> DEFINE k == Len(es)
             e == [es[k] EXCEPT !.extra = Append(@, l)]
  <2>1. k \in 1 .. Len(es) /\ es[k] \in Entry
    BY <1>2
  <2>2. AddLine(es, l, n) = [es EXCEPT ![k] = e]
    BY <1>2 DEF AddLine
  <2>3. e \in Entry
    BY <2>1, ExtendedIsEntry
  <2> HIDE DEF e, k
  <2>4. [es EXCEPT ![k] = e] \in Seq(Entry)
    BY <2>1, <2>3, ExceptSeq
  <2> QED  BY <2>2, <2>4
<1>3. CASE ~ IsTimestampLine(l) /\ (es = <<>> \/ l = <<>>)
  <2>1. AddLine(es, l, n) = es
    BY <1>3 DEF AddLine
  <2> QED  BY <2>1
<1> QED  BY <1>1, <1>2, <1>3

(* What the scanner may hold in a read of d from offset o, behind l lines:  *)
(* it has passed at least a cell of the log for every line.                *)
Held(d, o, l, s) ==
    /\ s \in [at : Nat, bytes : Nat, line : Nat, entries : Seq(Entry)]
    /\ o <= s.bytes /\ s.bytes <= s.at /\ s.at <= Len(d) + 1
    /\ l <= s.line /\ s.line - l <= s.at - o

(* It still holds such things after one line more.                         *)
LEMMA NextLineHeld ==
    ASSUME NEW d, d \in Seq(Cell), Len(d) <= MaxLen, MaxLen \in Nat,
           NEW o \in Nat, NEW l \in Nat, l <= o, NEW s, Held(d, o, l, s)
    PROVE  Held(d, o, l, NextLine(d, s))
<1>1. CASE AtEnd(d, s)
  BY <1>1 DEF NextLine
<1>2. CASE ~ AtEnd(d, s)
  <2> DEFINE a == s.at
             b == s.bytes
             n == s.line
             end == LineEnd(d, a)
             raw == SubSeq(d, a + 1, end - 1)
             w   == DropCR(raw)
             es  == AddLine(s.entries, w, n + 1)
  <2>1. /\ a \in Nat /\ b \in Nat /\ n \in Nat /\ s.entries \in Seq(Entry)
        /\ o <= b /\ b <= a /\ l <= n /\ n - l <= a - o
    BY DEF Held
  <2>2. Len(d) \in Nat /\ a < Len(d)
    BY <1>2, <2>1 DEF AtEnd
  <2>3. NextLine(d, s) = [at |-> end, bytes |-> b + Len(w) + 1, line |-> n + 1, entries |-> es]
    BY <1>2 DEF NextLine, ReadLine
  <2> HIDE DEF a, b, n
  <2>4. a <= Len(d)
    BY <2>1, <2>2
  <2>5. end \in a + 1 .. Len(d) + 1
    BY <2>1, <2>4, LineEndIs
  <2>6. raw \in Words /\ Len(raw) = end - 1 - a
    BY <2>1, <2>4, LineCells
  <2> HIDE DEF end, raw
  <2>7. w \in Words /\ Len(w) \in 0 .. Len(raw)
    BY <2>6, DropCRIs
  <2> HIDE DEF w
  <2>8. n + 1 \in 1 .. MaxLen
    BY <2>1, <2>2
  <2>9. es \in Seq(Entry)
    BY <2>1, <2>7, <2>8, AddLineIs
  <2> HIDE DEF es
  <2>10. end \in Nat /\ a + 1 <= end /\ end <= Len(d) + 1
    BY <2>1, <2>2, <2>5
  <2>11. Len(w) \in Nat /\ Len(w) <= end - 1 - a
    BY <2>1, <2>6, <2>7, <2>10
  <2>12. b + Len(w) + 1 \in Nat /\ b + Len(w) + 1 <= end /\ o <= b + Len(w) + 1
    BY <2>1, <2>10, <2>11
  <2>13. n + 1 \in Nat /\ l <= n + 1 /\ (n + 1) - l <= end - o
    BY <2>1, <2>10
  <2> DEFINE t == [at |-> end, bytes |-> b + Len(w) + 1, line |-> n + 1, entries |-> es]
  <2>14. t \in [at : Nat, bytes : Nat, line : Nat, entries : Seq(Entry)]
    BY <2>9, <2>10, <2>12, <2>13
  <2>15. t.at = end /\ t.bytes = b + Len(w) + 1 /\ t.line = n + 1
    OBVIOUS
  <2>16. NextLine(d, s) = t
    BY <2>3
  <2> HIDE DEF t
  <2>17. Held(d, o, l, t)
    <3>1. o <= t.bytes /\ t.bytes <= t.at
      BY <2>12, <2>15
    <3>2. t.at <= Len(d) + 1
      BY <2>10, <2>15
    <3>3. l <= t.line /\ t.line - l <= t.at - o
      BY <2>13, <2>15
    <3> QED  BY <2>14, <3>1, <3>2, <3>3 DEF Held
  <2> QED  BY <2>16, <2>17
<1> QED  BY <1>1, <1>2

(* The same of a whole read.                                               *)
LEMMA ScannedHeld ==
    ASSUME NEW d, d \in Seq(Cell), Len(d) <= MaxLen, MaxLen \in Nat,
           NEW o \in Nat, o <= Len(d) + 1,
           NEW l \in Nat, l <= o
    PROVE  \A n \in 0 .. Len(d) : Held(d, o, l, Scanned(d, o, l)[n])
<1> DEFINE f == Scanned(d, o, l)
           T == {n \in Nat : n <= Len(d) /\ ~ Held(d, o, l, f[n])}
<1>1. Len(d) \in Nat
  OBVIOUS
<1>2. /\ f[0] = [at |-> o, bytes |-> o, line |-> l, entries |-> <<>>]
      /\ \A n \in 1 .. Len(d) : f[n] = NextLine(d, f[n - 1])
  BY <1>1, ScannedIs
<1> HIDE DEF f
<1>3. Held(d, o, l, f[0])
  BY <1>1, <1>2 DEF Held
<1>4. ASSUME NEW n \in Nat, n \notin T PROVE n + 1 \notin T
  <2> SUFFICES ASSUME n + 1 <= Len(d) PROVE Held(d, o, l, f[n + 1])
    OBVIOUS
  <2>1. n + 1 \in 1 .. Len(d) /\ (n + 1) - 1 = n /\ n <= Len(d)
    BY <1>1
  <2>2. f[n + 1] = NextLine(d, f[n])
    BY <1>2, <2>1
  <2>3. Held(d, o, l, f[n])
    BY <1>4, <2>1
  <2> QED  BY <2>2, <2>3, NextLineHeld
<1>5. 0 \notin T
  BY <1>3
<1>6. T = {}
  <2>1. T \in SUBSET Nat
    OBVIOUS
  <2> HIDE DEF T
  <2> QED  BY <1>4, <1>5, <2>1, NoLeast
<1>7. \A n \in 0 .. Len(d) : Held(d, o, l, f[n])
  BY <1>1, <1>6
<1> QED  BY <1>7 DEF f

(* What a read that is under way knows: the newlines it counted were in the *)
(* log it saw; and reads began at offsets behind the present one or at it.  *)
Counted == {n \in 1 .. seen : n <= offset /\ log[n] = Newline}

ReadInv ==
    /\ reading => lineNum = Cardinality(Counted) /\ lineNum <= offset
    /\ \A r \in reads : r.from <= offset

TInv == TypeOK /\ ReadInv

(* Nothing is shown of an empty log.                                       *)
LEMMA InitTyped == Init => TInv
<1> SUFFICES ASSUME Init PROVE TInv
  OBVIOUS
<1>1. TypeOK
  <2>1. reading \in BOOLEAN
    BY DEF Init
  <2>2. log \in Seq(Cell) /\ shown \in Seq(Entry) /\ Len(log) = 0
    BY DEF Init
  <2>3. 0 <= MaxLen
    BY LogAssumption
  <2>4. offset \in 0 .. Len(log) + 1 /\ lineNum \in Nat /\ seen \in 0 .. Len(log)
    BY <2>2 DEF Init
  <2> QED  BY <2>1, <2>2, <2>3, <2>4 DEF Init, TypeOK
<1>2. ReadInv
  BY DEF Init, ReadInv
<1> QED  BY <1>1, <1>2 DEF TInv

(* Every step keeps the types and what a read knows.                       *)
LEMMA NextTyped == TInv /\ [Next]_vars => TInv'
<1> SUFFICES ASSUME TInv, [Next]_vars PROVE TInv'
  OBVIOUS
<1> USE DEF TInv
<1>a. MaxLen \in Nat
  BY LogAssumption
<1>b. Len(log) \in Nat /\ offset \in Nat /\ seen \in Nat /\ lineNum \in Nat
  BY DEF TypeOK
<1>1. CASE AppendCell
  <2>1. PICK c \in Cell : log' = Append(log, c)
    BY <1>1 DEF AppendCell
  <2>2. /\ Len(log) < MaxLen /\ offset' = offset /\ shown' = shown /\ reading' = reading
        /\ lineNum' = lineNum /\ seen' = seen /\ reads' = reads
    BY <1>1 DEF AppendCell
  <2>3. log' \in Seq(Cell) /\ Len(log') = Len(log) + 1 /\ Len(log') <= MaxLen
    BY <1>a, <2>1, <2>2 DEF TypeOK
  <2>4. seen <= Len(log) /\ \A n \in 1 .. seen : log'[n] = log[n]
    BY <2>1 DEF TypeOK
  <2>5. Counted' = Counted
    BY <2>2, <2>4 DEF Counted
  <2>6. offset' \in 0 .. Len(log') + 1 /\ seen' \in 0 .. Len(log')
    BY <1>b, <2>2, <2>3 DEF TypeOK
  <2>7. reads' \subseteq [from : Nat, seen : 0 .. Len(log')]
    <3>1. 0 .. Len(log) \subseteq 0 .. Len(log')
      BY <1>b, <2>3
    <3>2. reads \subseteq [from : Nat, seen : 0 .. Len(log)]
      BY DEF TypeOK
    <3> QED  BY <2>2, <3>1, <3>2
  <2>8. TypeOK'
    BY <2>2, <2>3, <2>6, <2>7 DEF TypeOK
  <2>9. ReadInv'
    BY <2>2, <2>5 DEF ReadInv
  <2> QED  BY <2>8, <2>9
<1>2. CASE CountLinesBeforeOffset
  <2>1. /\ log' = log /\ offset' = offset /\ shown' = shown /\ reads' = reads
        /\ reading' = TRUE /\ seen' = Len(log)
        /\ lineNum' = Cardinality({n \in 1 .. Len(log) : n <= offset /\ log[n] = Newline})
    BY <1>2 DEF CountLinesBeforeOffset
  <2> DEFINE C == {n \in 1 .. Len(log) : n <= offset /\ log[n] = Newline}
  <2>2. C \subseteq 1 .. offset
    BY <1>b
  <2>3. IsFiniteSet(1 .. offset) /\ Cardinality(1 .. offset) = offset
    BY <1>b, FS_Interval
  <2>4. IsFiniteSet(C) /\ Cardinality(C) <= offset /\ Cardinality(C) \in Nat
    BY <2>2, <2>3, FS_Subset, FS_CardinalityType
  <2>5. Counted' = C
    BY <2>1 DEF Counted
  <2>6. TypeOK'
    BY <1>b, <2>1, <2>4 DEF TypeOK
  <2>7. ReadInv'
    BY <2>1, <2>4, <2>5 DEF ReadInv
  <2> QED  BY <2>6, <2>7
<1>3. CASE Scan
  <2> DEFINE s == Scanned(log, offset, lineNum)[Len(log)]
  <2>1. /\ log' = log /\ offset' = s.bytes /\ shown' = shown \o s.entries
        /\ reads' = (IF s.line = lineNum THEN reads
                     ELSE reads \cup {[from |-> offset, seen |-> seen]})
        /\ reading' = FALSE /\ lineNum' = 0 /\ seen' = 0
    BY <1>3 DEF Scan
  <2>2. lineNum <= offset
    BY <1>3 DEF Scan, ReadInv
  <2>3. log \in Seq(Cell) /\ Len(log) <= MaxLen /\ offset <= Len(log) + 1
    BY <1>b DEF TypeOK
  <2>4. Held(log, offset, lineNum, s)
    BY <1>a, <1>b, <2>2, <2>3, ScannedHeld
  <2> HIDE DEF s
  <2>5. /\ s.bytes \in Nat /\ s.at \in Nat /\ s.entries \in Seq(Entry)
        /\ offset <= s.bytes /\ s.bytes <= s.at /\ s.at <= Len(log) + 1
    BY <2>4 DEF Held
  <2>6. offset' \in 0 .. Len(log') + 1
    BY <1>b, <2>1, <2>5
  <2>7. shown' \in Seq(Entry)
    <3>1. shown \in Seq(Entry)
      BY DEF TypeOK
    <3> QED  BY <3>1, <2>1, <2>5, ConcatProperties
  <2>8. reads' \subseteq [from : Nat, seen : 0 .. Len(log')]
    <3>1. [from |-> offset, seen |-> seen] \in [from : Nat, seen : 0 .. Len(log)]
      BY <1>b DEF TypeOK
    <3> QED  BY <2>1, <3>1 DEF TypeOK
  <2>9. TypeOK'
    <3>1. reading' \in BOOLEAN
      BY <2>1
    <3>4. lineNum' \in Nat /\ seen' \in 0 .. Len(log')
      BY <1>b, <2>1
    <3>2. log' \in Seq(Cell) /\ Len(log') <= MaxLen
      BY <2>1, <2>3
    <3> QED  BY <3>1, <3>2, <3>4, <2>6, <2>7, <2>8 DEF TypeOK
  <2>10. ASSUME NEW r \in reads' PROVE r.from <= offset'
    <3>1. CASE r \in reads
      <4>1. r.from \in Nat /\ r.from <= offset
        BY <3>1 DEF TypeOK, ReadInv
      <4> QED  BY <4>1, <1>b, <2>1, <2>5
    <3>2. CASE r \notin reads
      BY <3>2, <2>1, <2>5
    <3> QED  BY <3>1, <3>2
  <2>11. ReadInv'
    BY <2>1, <2>10 DEF ReadInv
  <2> QED  BY <2>9, <2>11
<1>4. CASE UNCHANGED vars
  BY <1>4 DEF vars, TypeOK, ReadInv, Counted
<1> QED  BY <1>1, <1>2, <1>3, <1>4 DEF Next

(* The entries shown have numbers of lines of the log and texts without     *)
(* newlines; the offset is at most one past the end of the log, whatever    *)
(* the scanner drops from the lines (debuglog.go: ReadDebugLogIncremental). *)
THEOREM TypeCorrect == Spec => []TypeOK
<1>1. TInv => TypeOK
  BY DEF TInv
<1> QED  BY <1>1, InitTyped, NextTyped, PTL DEF Spec

----------------------------------------------------------------------------
(* COLLAPSING *)

(* What is collapsed of the first n entries.                               *)
LEMMA CollapsedIs ==
    ASSUME NEW es, Len(es) \in Nat
    PROVE  LET f == Collapsed(es) IN
           /\ DOMAIN f = 0 .. Len(es)
           /\ f[0] = <<>>
           /\ \A n \in 1 .. Len(es) : f[n] = AddEntry(f[n - 1], es[n])
<1> DEFINE start == <<>>
           from(x, n) == AddEntry(x, es[n])
           Is(f, m) == f = [n \in 0 .. m |-> IF n = 0 THEN start ELSE from(f[n - 1], n)]
           T == {m \in Nat : ~ \E f : Is(f, m)}
<1>1. T = {}
  <2> HIDE DEF start, from
  <2>1. 0 \notin T
    <3>1. PICK f : f = [n \in 0 .. 0 |-> start]
      OBVIOUS
    <3>2. Is(f, 0)
      BY <3>1
    <3> QED  BY <3>2
  <2>2. ASSUME NEW m \in Nat, m \notin T PROVE m + 1 \notin T
    <3>1. PICK f : Is(f, m)
      BY <2>2
    <3>2. PICK g : g = [n \in 0 .. m + 1 |-> IF n \in 0 .. m THEN f[n] ELSE from(f[n - 1], n)]
      OBVIOUS
    <3>3. \A n \in 0 .. m : g[n] = f[n]
      BY <3>2
    <3>4. ASSUME NEW n \in 0 .. m + 1
          PROVE  g[n] = IF n = 0 THEN start ELSE from(g[n - 1], n)
      <4>1. CASE n = m + 1
        BY <3>2, <3>3, <4>1
      <4>2. CASE n # m + 1
        <5>1. n \in 0 .. m /\ (n # 0 => n - 1 \in 0 .. m)
          BY <4>2
        <5>2. f[n] = IF n = 0 THEN start ELSE from(f[n - 1], n)
          BY <3>1, <5>1
        <5> QED  BY <3>3, <5>1, <5>2
      <4> QED  BY <4>1, <4>2
    <3>5. Is(g, m + 1)
      BY <3>2, <3>4
    <3> QED  BY <3>5
  <2> HIDE DEF T
  <2>3. T \in SUBSET Nat
    BY DEF T
  <2> QED  BY <2>1, <2>2, <2>3, NoLeast
<1>2. PICK f : Is(f, Len(es))
  BY <1>1
<1>3. Is(Collapsed(es), Len(es))
  BY <1>2 DEF Collapsed
<1> HIDE DEF start, from
<1>4. PICK g : g = Collapsed(es) /\ Is(g, Len(es))
  BY <1>3
<1>5. /\ DOMAIN g = 0 .. Len(es)
      /\ \A n \in 0 .. Len(es) : g[n] = IF n = 0 THEN start ELSE from(g[n - 1], n)
  BY <1>4
<1>6. \A n \in 1 .. Len(es) : g[n] = from(g[n - 1], n)
  <2>1. \A n \in 1 .. Len(es) : n \in 0 .. Len(es) /\ n # 0
    OBVIOUS
  <2> QED  BY <1>5, <2>1
<1>7. g[0] = start
  BY <1>5
<1> QED  BY <1>4, <1>5, <1>6, <1>7 DEF start, from

(* The runs that begin among the first k entries, how many of these belong  *)
(* to the run of i, and what is collapsed of them: one entry for each run.  *)
(* All entries of the last run are like the last.                          *)
RunsTo(k)    == {i \in 1 .. k : BeginsRun(i)}
SizeTo(k, i) == Cardinality({j \in 1 .. k : Place(RunsTo(k), j) = Place(RunsTo(k), i)})
CountedEntry == [level : Stamp, message : Words, extra : Seq(Words), line : 1 .. MaxLen,
                 count : Nat]

LikeLast(h, k) ==
    /\ shown[h].message = shown[k].message
    /\ h = k \/ (shown[h].extra = <<>> /\ shown[k].extra = <<>>)

CollapsedTo(done, k) ==
    /\ done \in Seq(CountedEntry)
    /\ Len(done) = Cardinality(RunsTo(k))
    /\ \A i \in RunsTo(k) : done[Place(RunsTo(k), i)] = [shown[i] EXCEPT !.count = SizeTo(k, i)]
    /\ \A h \in RunsTo(k) : (\A i \in RunsTo(k) : i <= h) => LikeLast(h, k)

(* The first entry begins a run, so that some run is the last.              *)
LEMMA LastRun ==
    ASSUME NEW k \in Nat, k > 0
    PROVE  \E h \in RunsTo(k) : \A i \in RunsTo(k) : i <= h
<1>1. 1 \in RunsTo(k)
  BY DEF RunsTo, BeginsRun
<1>2. RunsTo(k) \in SUBSET (0 .. k) /\ RunsTo(k) # {}
  BY <1>1 DEF RunsTo
<1> QED  BY <1>2, GreatestIs

(* An entry that is counted once more.                                     *)
LEMMA CountedMore ==
    ASSUME NEW e \in CountedEntry
    PROVE  [e EXCEPT !.count = @ + 1] \in CountedEntry
<1>1. e.count + 1 \in Nat
  BY DEF CountedEntry
<1> QED  BY <1>1 DEF CountedEntry

(* An entry like the one before it adds to the last run.                    *)
LEMMA EntryOfRun ==
    ASSUME shown \in Seq(Entry), NEW k \in Nat, k > 0, k + 1 <= Len(shown), NEW done,
           CollapsedTo(done, k), ~ BeginsRun(k + 1)
    PROVE  CollapsedTo(AddEntry(done, shown[k + 1]), k + 1)
<1> DEFINE R == RunsTo(k)
           m == Len(done)
           new == [done[m] EXCEPT !.count = @ + 1]
           next == AddEntry(done, shown[k + 1])
           Run(i) == {j \in 1 .. k : Place(R, j) = Place(R, i)}
<1>1. PICK h \in R : \A i \in R : i <= h
  BY LastRun
<1>2. RunsTo(k + 1) = R
  <2>1. \A i \in 1 .. k + 1 : i # k + 1 => i \in 1 .. k
    OBVIOUS
  <2>2. \A i \in 1 .. k : i \in 1 .. k + 1
    OBVIOUS
  <2> QED  BY <2>1, <2>2 DEF RunsTo
<1>3. R \subseteq 1 .. k /\ R \subseteq Nat /\ IsFiniteSet(R) /\ Cardinality(R) \in Nat
  <2>1. R \subseteq 0 .. k /\ R \subseteq 1 .. k /\ R \subseteq Nat
    BY DEF RunsTo
  <2> HIDE DEF R
  <2>2. IsFiniteSet(R) /\ Cardinality(R) \in Nat
    BY <2>1, k \in Int, UpToFinite
  <2> QED  BY <2>1, <2>2
<1>4. m = Cardinality(R) /\ done \in Seq(CountedEntry) /\ LikeLast(h, k)
  BY <1>1 DEF CollapsedTo
<1>5. h \in 1 .. k /\ k \in 1 .. Len(shown) /\ k + 1 \in 1 .. Len(shown)
  BY <1>3
<1>6. Place(R, h) = m /\ Place(R, k) = m /\ Place(R, k + 1) = m
  <2> HIDE DEF R
  <2>1. \A n \in Nat : h <= n => Place(R, n) = Cardinality(R)
    BY <1>1, <1>3, PlaceGreatest
  <2>2. h \in Nat /\ h <= h /\ h <= k /\ h <= k + 1 /\ k + 1 \in Nat
    BY <1>5
  <2> QED  BY <2>1, <2>2, <1>4
<1>7. \A i \in R : i # h => Place(R, i) \in 1 .. m /\ Place(R, i) # m
  <2> HIDE DEF R
  <2>1. \A i \in R : i # h => Place(R, i) < Cardinality(R)
    BY <1>1, <1>3, PlaceGreatest
  <2>2. \A i \in R : Place(R, i) \in 1 .. Cardinality(R)
    BY <1>3, PlaceIn
  <2> QED  BY <2>1, <2>2, <1>3, <1>4
<1>8. m \in 1 .. Len(done) /\ done[m] = [shown[h] EXCEPT !.count = SizeTo(k, h)]
  <2>1. Place(R, h) \in 1 .. Cardinality(R)
    <3> HIDE DEF R
    <3> QED  BY <1>1, <1>3, PlaceIn
  <2>2. done[Place(R, h)] = [shown[h] EXCEPT !.count = SizeTo(k, h)]
    BY <1>1 DEF CollapsedTo
  <2> QED  BY <2>1, <2>2, <1>4, <1>6
<1>9. shown[h] \in Entry /\ shown[k] \in Entry /\ shown[k + 1] \in Entry
  <2>1. \A i \in 1 .. Len(shown) : shown[i] \in Entry
    OBVIOUS
  <2>2. h \in 1 .. Len(shown)
    BY <1>5
  <2> QED  BY <2>1, <2>2, <1>5
<1>10. /\ shown[k + 1].message = shown[k].message
       /\ shown[k + 1].extra = <<>> /\ shown[k].extra = <<>>
  BY (k + 1) - 1 = k, k + 1 # 1 DEF BeginsRun
<1>11. shown[h].message = shown[k + 1].message /\ shown[h].extra = <<>>
  BY <1>4, <1>10 DEF LikeLast
<1>12. done[m].message = shown[h].message /\ done[m].extra = shown[h].extra
  BY <1>8, <1>9 DEF Entry
<1>13. next = [done EXCEPT ![m] = new]
  <2>1. SameEntry(done[m], shown[k + 1])
    BY <1>10, <1>11, <1>12 DEF SameEntry
  <2>2. done # <<>> /\ Last(done) = done[m]
    BY <1>8 DEF Last
  <2> QED  BY <2>1, <2>2 DEF AddEntry
<1>14. ASSUME NEW i \in R
       PROVE  SizeTo(k + 1, i) = IF i = h THEN SizeTo(k, i) + 1 ELSE SizeTo(k, i)
  <2>1. SizeTo(k, i) = Cardinality(Run(i))
    BY DEF SizeTo
  <2>2. SizeTo(k + 1, i) = Cardinality({j \in 1 .. k + 1 : Place(R, j) = Place(R, i)})
    BY <1>2 DEF SizeTo
  <2>3. Run(i) \subseteq 0 .. k /\ k + 1 \notin Run(i)
    OBVIOUS
  <2>4. IsFiniteSet(Run(i))
    <3> HIDE DEF Run
    <3> QED  BY <2>3, UpToFinite
  <2> HIDE DEF R
  <2>5. CASE i = h
    <3>1. Place(R, k + 1) = Place(R, i)
      BY <1>6, <2>5
    <3>2. {j \in 1 .. k + 1 : Place(R, j) = Place(R, i)} = Run(i) \cup {k + 1}
      BY <3>1
    <3>3. Cardinality(Run(i) \cup {k + 1}) = Cardinality(Run(i)) + 1
      <4> HIDE DEF Run
      <4> QED  BY <2>3, <2>4, FS_AddElement
    <3> QED  BY <2>1, <2>2, <2>5, <3>2, <3>3
  <2>6. CASE i # h
    <3>1. Place(R, k + 1) # Place(R, i)
      BY <1>6, <1>7, <2>6
    <3>2. {j \in 1 .. k + 1 : Place(R, j) = Place(R, i)} = Run(i)
      BY <3>1
    <3> QED  BY <2>1, <2>2, <2>6, <3>2
  <2> QED  BY <2>5, <2>6
<1>15. new \in CountedEntry
  <2>1. done[m] \in CountedEntry
    BY <1>4, <1>8
  <2> QED  BY <2>1, CountedMore
<1>16. new = [shown[h] EXCEPT !.count = SizeTo(k, h) + 1]
  BY <1>8, <1>9 DEF Entry
<1> HIDE DEF R, m, new
<1>17. /\ [done EXCEPT ![m] = new] \in Seq(CountedEntry)
       /\ Len([done EXCEPT ![m] = new]) = Len(done)
       /\ \A j \in 1 .. Len(done) : [done EXCEPT ![m] = new][j] = IF j = m THEN new ELSE done[j]
  BY <1>4, <1>8, <1>15, ExceptSeq
<1>18. next \in Seq(CountedEntry) /\ Len(next) = Cardinality(R)
  BY <1>4, <1>13, <1>17 DEF m
<1>19. ASSUME NEW i \in R PROVE next[Place(R, i)] = [shown[i] EXCEPT !.count = SizeTo(k + 1, i)]
  <2>1. CASE i = h
    BY <2>1, <1>6, <1>8, <1>13, <1>14, <1>16, <1>17
  <2>2. CASE i # h
    <3>1. Place(R, i) \in 1 .. Len(done) /\ Place(R, i) # m
      BY <1>7, <2>2 DEF m
    <3>2. next[Place(R, i)] = done[Place(R, i)]
      BY <1>13, <1>17, <3>1
    <3>3. done[Place(R, i)] = [shown[i] EXCEPT !.count = SizeTo(k, i)]
      BY DEF CollapsedTo, R
    <3> QED  BY <3>2, <3>3, <1>14, <2>2
  <2> QED  BY <2>1, <2>2
<1>20. ASSUME NEW g \in R, \A i \in R : i <= g PROVE LikeLast(g, k + 1)
  <2>1. g \in Int /\ h \in Int /\ h <= g /\ g <= h
    BY <1>1, <1>3, <1>20
  <2>2. g = h
    BY <2>1
  <2> QED  BY <2>2, <1>10, <1>11 DEF LikeLast
<1> HIDE DEF next
<1>21. CollapsedTo(next, k + 1)
  BY <1>2, <1>18, <1>19, <1>20 DEF CollapsedTo
<1> QED  BY <1>21 DEF next

(* An entry that begins a run adds one to what is collapsed.                *)
LEMMA EntryBeginsRun ==
    ASSUME shown \in Seq(Entry), NEW k \in Nat, k + 1 <= Len(shown), NEW done,
           CollapsedTo(done, k), BeginsRun(k + 1)
    PROVE  CollapsedTo(AddEntry(done, shown[k + 1]), k + 1)
<1> DEFINE R == RunsTo(k)
           Q == RunsTo(k + 1)
           e == shown[k + 1]
           next == AddEntry(done, e)
           Run(i) == {j \in 1 .. k : Place(R, j) = Place(R, i)}
<1>1. Q = R \cup {k + 1}
  <2>1. \A i \in 1 .. k + 1 : i # k + 1 => i \in 1 .. k
    OBVIOUS
  <2>2. \A i \in 1 .. k : i \in 1 .. k + 1
    OBVIOUS
  <2> QED  BY <2>1, <2>2 DEF RunsTo
<1>2. R \subseteq 1 .. k /\ R \subseteq Nat /\ IsFiniteSet(R) /\ Cardinality(R) \in Nat
  <2>1. R \subseteq 0 .. k /\ R \subseteq 1 .. k /\ R \subseteq Nat
    BY DEF RunsTo
  <2> HIDE DEF R
  <2>2. IsFiniteSet(R) /\ Cardinality(R) \in Nat
    BY <2>1, k \in Int, UpToFinite
  <2> QED  BY <2>1, <2>2
<1>3. Len(done) = Cardinality(R) /\ done \in Seq(CountedEntry)
  BY DEF CollapsedTo
<1>4. e \in Entry
  BY k + 1 \in 1 .. Len(shown)
<1>5. next = Append(done, e)
  <2>1. CASE done = <<>>
    BY <2>1 DEF AddEntry
  <2>2. CASE done # <<>>
    <3>1. Cardinality(R) # 0
      BY <1>3, <2>2
    <3>2. R # {}
      BY <3>1, FS_EmptySet
    <3>3. k > 0
      BY <1>2, <3>2
    <3>4. PICK h \in R : \A i \in R : i <= h
      BY <3>3, LastRun
    <3>5. LikeLast(h, k)
      BY <3>4 DEF CollapsedTo
    <3>6. Place(R, h) = Len(done)
      <4>1. h \in Nat /\ h <= h
        BY <1>2
      <4> HIDE DEF R
      <4> QED  BY <1>2, <1>3, <3>4, <4>1, PlaceGreatest
    <3>7. Last(done) = [shown[h] EXCEPT !.count = SizeTo(k, h)]
      BY <3>4, <3>6 DEF CollapsedTo, Last
    <3>8. shown[h] \in Entry
      <4>1. h \in 1 .. Len(shown)
        BY <1>2
      <4> QED  BY <4>1
    <3>9. Last(done).message = shown[h].message /\ Last(done).extra = shown[h].extra
      BY <3>7, <3>8 DEF Entry
    <3>10. ~ SameEntry(Last(done), e)
      <4> SUFFICES ASSUME SameEntry(Last(done), e) PROVE FALSE
        OBVIOUS
      <4>1. shown[h].message = e.message /\ shown[h].extra = <<>> /\ e.extra = <<>>
        BY <3>9 DEF SameEntry
      <4>2. shown[k].message = e.message /\ shown[k].extra = <<>>
        BY <3>5, <4>1 DEF LikeLast
      <4>3. k + 1 # 1 /\ (k + 1) - 1 = k
        BY <3>3
      <4> QED  BY <4>1, <4>2, <4>3 DEF BeginsRun
    <3> QED  BY <3>10 DEF AddEntry
  <2> QED  BY <2>1, <2>2
<1>6. /\ Cardinality(Q) = Cardinality(R) + 1
      /\ \A n \in Nat : n < k + 1 => Place(Q, n) = Place(R, n)
      /\ Place(Q, k + 1) = Cardinality(R) + 1
  <2> DEFINE p == k + 1
  <2>1. p \in Nat /\ p <= p /\ \A i \in R : i < p
    BY <1>2
  <2>2. Q = R \cup {p}
    BY <1>1
  <2> HIDE DEF R, Q, p
  <2>3. /\ Cardinality(Q) = Cardinality(R) + 1
        /\ \A n \in Nat : n < p => Place(Q, n) = Place(R, n)
        /\ Place(Q, p) = Cardinality(R) + 1
    BY <2>1, <2>2, <1>2, PlaceAdd
  <2> QED  BY <2>3 DEF p
<1>7. ASSUME NEW n \in 1 .. k
      PROVE  /\ n \in Nat /\ Place(Q, n) = Place(R, n)
             /\ Place(R, n) \in Nat /\ Place(R, n) <= Cardinality(R)
  <2>1. {i \in R : i <= n} \subseteq R
    OBVIOUS
  <2> HIDE DEF R
  <2>2. IsFiniteSet({i \in R : i <= n}) /\ Cardinality({i \in R : i <= n}) <= Cardinality(R)
    BY <1>2, <2>1, FS_Subset
  <2>3. Place(R, n) \in Nat /\ Place(R, n) <= Cardinality(R)
    BY <2>2, FS_CardinalityType DEF Place
  <2>4. n \in Nat /\ n < k + 1
    OBVIOUS
  <2> QED  BY <2>3, <2>4, <1>6
<1>8. SizeTo(k + 1, k + 1) = 1
  <2>1. ASSUME NEW j \in 1 .. k + 1, Place(Q, j) = Place(Q, k + 1) PROVE j = k + 1
    <3> SUFFICES ASSUME j # k + 1 PROVE FALSE
      OBVIOUS
    <3>1. j \in 1 .. k
      OBVIOUS
    <3> HIDE DEF Q, R
    <3>2. Place(Q, j) <= Cardinality(R) /\ Place(Q, j) \in Nat
      BY <3>1, <1>7
    <3> QED  BY <3>2, <2>1, <1>2, <1>6
  <2>2. {j \in 1 .. k + 1 : Place(Q, j) = Place(Q, k + 1)} = {k + 1}
    <3>1. k + 1 \in 1 .. k + 1
      OBVIOUS
    <3> HIDE DEF Q
    <3> QED  BY <2>1, <3>1
  <2>3. Cardinality({k + 1}) = 1
    BY FS_Singleton
  <2> QED  BY <2>2, <2>3 DEF SizeTo
<1>9. ASSUME NEW i \in R PROVE SizeTo(k + 1, i) = SizeTo(k, i) /\ Place(Q, i) = Place(R, i)
  <2>1. i \in 1 .. k
    BY <1>2
  <2> HIDE DEF Q, R
  <2>2. /\ Place(Q, i) = Place(R, i) /\ Place(R, i) <= Cardinality(R)
        /\ Place(R, i) \in Nat
    BY <2>1, <1>7
  <2>3. Place(Q, k + 1) # Place(Q, i)
    BY <2>2, <1>2, <1>6
  <2>4. ASSUME NEW j \in 1 .. k + 1
        PROVE  Place(Q, j) = Place(Q, i) <=> (j \in 1 .. k /\ Place(R, j) = Place(R, i))
    <3>1. CASE j = k + 1
      BY <3>1, <2>3
    <3>2. CASE j # k + 1
      <4>1. j \in 1 .. k
        BY <3>2
      <4> QED  BY <4>1, <1>7, <2>2
    <3> QED  BY <3>1, <3>2
  <2>5. \A j \in 1 .. k : j \in 1 .. k + 1
    OBVIOUS
  <2>6. {j \in 1 .. k + 1 : Place(Q, j) = Place(Q, i)} = Run(i)
    BY <2>4, <2>5
  <2> QED  BY <2>2, <2>6 DEF SizeTo, Q, R
<1>10. /\ next \in Seq(CountedEntry) /\ Len(next) = Cardinality(Q)
       /\ next[Cardinality(R) + 1] = e
       /\ \A j \in 1 .. Cardinality(R) : next[j] = done[j]
  <2>1. e \in CountedEntry
    BY <1>4 DEF Entry, CountedEntry
  <2> HIDE DEF e, R, Q, next
  <2>2. /\ next \in Seq(CountedEntry) /\ Len(next) = Len(done) + 1
        /\ next[Len(done) + 1] = e
        /\ \A j \in 1 .. Len(done) : next[j] = done[j]
    BY <2>1, <1>3, <1>5, AppendProperties
  <2> QED  BY <2>2, <1>3, <1>6
<1>11. [e EXCEPT !.count = 1] = e
  BY <1>4 DEF Entry
<1>12. ASSUME NEW i \in Q PROVE next[Place(Q, i)] = [shown[i] EXCEPT !.count = SizeTo(k + 1, i)]
  <2>1. CASE i = k + 1
    BY <2>1, <1>6, <1>8, <1>10, <1>11
  <2>2. CASE i # k + 1
    <3>1. i \in R
      BY <1>1, <2>2
    <3>2. Place(R, i) \in 1 .. Cardinality(R)
      <4> HIDE DEF R
      <4> QED  BY <1>2, <3>1, PlaceIn
    <3>3. done[Place(R, i)] = [shown[i] EXCEPT !.count = SizeTo(k, i)]
      BY <3>1 DEF CollapsedTo
    <3> HIDE DEF next, Q, R
    <3> QED  BY <3>1, <3>2, <3>3, <1>9, <1>10
  <2> QED  BY <2>1, <2>2
<1>13. ASSUME NEW h \in Q, \A i \in Q : i <= h PROVE LikeLast(h, k + 1)
  <2>1. k + 1 \in Q /\ h \in 1 .. k + 1
    BY <1>1, <1>2
  <2>2. h = k + 1
    BY <2>1, <1>13
  <2> QED  BY <2>2 DEF LikeLast
<1> HIDE DEF next
<1>14. CollapsedTo(next, k + 1)
  BY <1>10, <1>12, <1>13 DEF CollapsedTo
<1> QED  BY <1>14 DEF next

(* What CollapseDuplicates makes of any entries.                            *)
LEMMA CollapseIs == ASSUME shown \in Seq(Entry) PROVE CollapseExact
<1> DEFINE f == Collapsed(shown)
           T == {n \in Nat : n <= Len(shown) /\ ~ CollapsedTo(f[n], n)}
<1>1. Len(shown) \in Nat
  OBVIOUS
<1>2. /\ f[0] = <<>>
      /\ \A n \in 1 .. Len(shown) : f[n] = AddEntry(f[n - 1], shown[n])
  BY <1>1, CollapsedIs
<1> HIDE DEF f
<1>3. CollapsedTo(f[0], 0)
  <2>1. RunsTo(0) = {}
    BY DEF RunsTo
  <2>2. Len(f[0]) = Cardinality(RunsTo(0))
    BY <1>2, <2>1, FS_EmptySet
  <2>3. f[0] \in Seq(CountedEntry)
    BY <1>2
  <2> QED  BY <2>1, <2>2, <2>3 DEF CollapsedTo
<1>4. ASSUME NEW n \in Nat, n \notin T PROVE n + 1 \notin T
  <2> SUFFICES ASSUME n + 1 <= Len(shown) PROVE CollapsedTo(f[n + 1], n + 1)
    OBVIOUS
  <2>1. n + 1 \in 1 .. Len(shown) /\ (n + 1) - 1 = n /\ n <= Len(shown)
    BY <1>1
  <2>2. f[n + 1] = AddEntry(f[n], shown[n + 1])
    BY <1>2, <2>1
  <2>3. CollapsedTo(f[n], n)
    BY <1>4, <2>1
  <2>4. ~ BeginsRun(n + 1) => n > 0
    BY DEF BeginsRun
  <2> QED  BY <2>2, <2>3, <2>4, EntryOfRun, EntryBeginsRun
<1>5. 0 \notin T
  BY <1>3
<1>6. T = {}
  <2>1. T \in SUBSET Nat
    OBVIOUS
  <2> HIDE DEF T
  <2> QED  BY <1>4, <1>5, <2>1, NoLeast
<1>7. CollapsedTo(f[Len(shown)], Len(shown))
  BY <1>1, <1>6
<1>8. DOMAIN shown = 1 .. Len(shown)
  OBVIOUS
<1>9. Runs = RunsTo(Len(shown))
  BY <1>8 DEF Runs, RunsTo
<1>10. CollapseDuplicates(shown) = f[Len(shown)]
  BY DEF CollapseDuplicates, f
<1> QED  BY <1>7, <1>8, <1>9, <1>10 DEF CollapseExact, CollapsedTo, SizeTo

(* Collapsing what is shown keeps the first entry of every longest run of   *)
(* equal messages and counts the run (debuglog.go: CollapseDuplicates).     *)
THEOREM CollapseIsExact == Spec => []CollapseExact
<1>1. TInv => CollapseExact
  BY CollapseIs DEF TInv, TypeOK
<1> QED  BY <1>1, InitTyped, NextTyped, PTL DEF Spec

----------------------------------------------------------------------------
(* ONE MORE LINE *)

(* A line starts at p, and the log goes on.                                *)
LineOf(d, p, e) ==
    /\ d \in Seq(Cell) /\ p \in Nat /\ p < Len(d) /\ LineStart(d, p)
    /\ e = LineEnd(d, p)

(* What is known of its end.                                               *)
LEMMA LineOfIs ==
    ASSUME NEW d, NEW p, NEW e, LineOf(d, p, e)
    PROVE  /\ Len(d) \in Nat /\ p \in Nat /\ e \in Nat /\ p < e /\ e <= Len(d) + 1
           /\ e <= Len(d) => d[e] = Newline
           /\ \A n \in p + 1 .. e - 1 : d[n] # Newline
<1>1. d \in Seq(Cell) /\ p \in Nat /\ p < Len(d) /\ Len(d) \in Nat /\ e = LineEnd(d, p)
  BY DEF LineOf
<1>2. p <= Len(d)
  BY <1>1
<1>3. /\ e \in p + 1 .. Len(d) + 1
      /\ e <= Len(d) => d[e] = Newline
      /\ \A n \in p + 1 .. e - 1 : d[n] # Newline
  BY <1>1, <1>2, LineEndIs
<1> QED  BY <1>1, <1>3

(* The places where lines and entries start are numbers below t.           *)
LEMMA StartsAre ==
    ASSUME NEW d, NEW t \in Nat
    PROVE  /\ Starts(d, t) \subseteq 0 .. t - 1 /\ Starts(d, t) \subseteq Nat
           /\ IsFiniteSet(Starts(d, t)) /\ Cardinality(Starts(d, t)) \in Nat
           /\ Heads(d, t) \subseteq Starts(d, t)
           /\ IsFiniteSet(Heads(d, t)) /\ Cardinality(Heads(d, t)) \in Nat
<1> DEFINE S == Starts(d, t)
           H == Heads(d, t)
<1>1. S \subseteq 0 .. t - 1 /\ H \subseteq S /\ 0 .. t - 1 \subseteq Nat
  BY DEF Starts, Heads
<1> HIDE DEF S, H
<1>2. S \subseteq Nat /\ H \subseteq 0 .. t - 1 /\ t - 1 \in Int
  BY <1>1
<1>3. IsFiniteSet(S) /\ Cardinality(S) \in Nat
  BY <1>1, <1>2, UpToFinite
<1>4. IsFiniteSet(H) /\ Cardinality(H) \in Nat
  BY <1>1, <1>2, UpToFinite
<1>5. /\ S \subseteq 0 .. t - 1 /\ S \subseteq Nat
      /\ IsFiniteSet(S) /\ Cardinality(S) \in Nat
      /\ H \subseteq S
      /\ IsFiniteSet(H) /\ Cardinality(H) \in Nat
  BY <1>1, <1>2, <1>3, <1>4
<1> QED  BY <1>5 DEF S, H

(* A line adds where it starts, unless it is empty.                        *)
LEMMA LineAdds ==
    ASSUME NEW d, NEW p, NEW e, LineOf(d, p, e)
    PROVE  /\ d[p + 1] = Newline => Starts(d, e) = Starts(d, p)
           /\ d[p + 1] # Newline => Starts(d, e) = Starts(d, p) \cup {p}
           /\ d[p + 1] = Newline \/ d[p + 1] \notin Stamp => Heads(d, e) = Heads(d, p)
           /\ d[p + 1] # Newline /\ d[p + 1] \in Stamp => Heads(d, e) = Heads(d, p) \cup {p}
           /\ p \notin Starts(d, p)
<1>1. /\ Len(d) \in Nat /\ p \in Nat /\ e \in Nat /\ p < e /\ e <= Len(d) + 1
      /\ \A n \in p + 1 .. e - 1 : d[n] # Newline
  BY LineOfIs
<1>2. p < Len(d) /\ LineStart(d, p)
  BY DEF LineOf
<1>3. ASSUME NEW n \in 0 .. e - 1, ~ (n < p)
      PROVE  n = p \/ ~ LineStart(d, n)
  <2> SUFFICES ASSUME n # p PROVE ~ LineStart(d, n)
    OBVIOUS
  <2>1. n \in p + 1 .. e - 1 /\ n # 0
    BY <1>1, <1>3
  <2> QED  BY <2>1, <1>1 DEF LineStart
<1>4. ASSUME NEW n \in 0 .. e - 1
      PROVE  n \in Starts(d, e) <=>
             n \in Starts(d, p) \/ (n = p /\ d[p + 1] # Newline)
  <2>1. CASE n < p
    <3>1. n \in 0 .. p - 1
      BY <1>1, <2>1
    <3> QED  BY <2>1, <3>1, <1>1 DEF Starts
  <2>2. CASE ~ (n < p)
    <3>1. n \notin 0 .. p - 1
      BY <1>1, <2>2
    <3>2. n \notin Starts(d, p)
      BY <3>1 DEF Starts
    <3>3. n \in Starts(d, e) => n = p /\ d[p + 1] # Newline
      BY <1>3, <2>2 DEF Starts
    <3>4. n = p /\ d[p + 1] # Newline => n \in Starts(d, e)
      BY <1>2 DEF Starts
    <3> QED  BY <3>2, <3>3, <3>4
  <2> QED  BY <2>1, <2>2
<1>5. Starts(d, e) \subseteq 0 .. e - 1 /\ Starts(d, p) \subseteq 0 .. e - 1 /\ p \in 0 .. e - 1
  <2>1. Starts(d, e) \subseteq 0 .. e - 1 /\ Starts(d, p) \subseteq 0 .. p - 1
    BY DEF Starts
  <2>2. 0 .. p - 1 \subseteq 0 .. e - 1 /\ p \in 0 .. e - 1
    BY <1>1
  <2> QED  BY <2>1, <2>2
<1>6. /\ d[p + 1] = Newline => Starts(d, e) = Starts(d, p)
      /\ d[p + 1] # Newline => Starts(d, e) = Starts(d, p) \cup {p}
  BY <1>4, <1>5
<1>7. p \notin Starts(d, p)
  BY <1>1 DEF Starts
<1>8. ASSUME d[p + 1] = Newline \/ d[p + 1] \notin Stamp PROVE Heads(d, e) = Heads(d, p)
  <2>1. \A n \in Starts(d, e) : d[n + 1] \in Stamp => n \in Starts(d, p)
    BY <1>6, <1>8
  <2>2. Starts(d, p) \subseteq Starts(d, e)
    BY <1>6
  <2> QED  BY <2>1, <2>2 DEF Heads
<1>9. ASSUME d[p + 1] # Newline, d[p + 1] \in Stamp PROVE Heads(d, e) = Heads(d, p) \cup {p}
  BY <1>6, <1>9 DEF Heads
<1> QED  BY <1>6, <1>7, <1>8, <1>9

(* The number of the next line.                                            *)
LEMMA NumberNext ==
    ASSUME NEW d, NEW p, NEW e, LineOf(d, p, e), e <= Len(d)
    PROVE  Number(d, e) = Number(d, p) + 1 /\ Number(d, p) \in Nat
<1> DEFINE A == {n \in 1 .. p : d[n] = Newline}
           B == {n \in 1 .. e : d[n] = Newline}
<1>1. /\ Len(d) \in Nat /\ p \in Nat /\ e \in Nat /\ p < e /\ d[e] = Newline
      /\ \A n \in p + 1 .. e - 1 : d[n] # Newline
  BY LineOfIs
<1>2. ASSUME NEW n \in 1 .. e PROVE d[n] = Newline <=> n \in A \/ n = e
  <2>1. CASE n <= p
    <3>1. n \in 1 .. p /\ n # e
      BY <1>1, <2>1
    <3> QED  BY <3>1
  <2>2. CASE n = e
    BY <1>1, <2>2
  <2>3. CASE ~ (n <= p) /\ n # e
    <3>1. n \in p + 1 .. e - 1 /\ n \notin 1 .. p
      BY <1>1, <2>3
    <3> QED  BY <3>1, <1>1, <2>3
  <2> QED  BY <2>1, <2>2, <2>3
<1>3. e \in 1 .. e /\ A \subseteq 1 .. e /\ A \subseteq 0 .. p /\ e \notin A
  BY <1>1
<1>4. B = A \cup {e}
  BY <1>2, <1>3
<1>5. IsFiniteSet(A) /\ Cardinality(A) \in Nat
  <2> HIDE DEF A
  <2>1. p \in Int
    BY <1>1
  <2> QED  BY <2>1, <1>3, UpToFinite
<1>6. Cardinality(B) = Cardinality(A) + 1
  <2> HIDE DEF A, B
  <2> QED  BY <1>3, <1>4, <1>5, FS_AddElement
<1>7. Number(d, e) = 1 + Cardinality(B) /\ Number(d, p) = 1 + Cardinality(A)
  BY DEF Number
<1> HIDE DEF A, B
<1> QED  BY <1>5, <1>6, <1>7

(* An entry whose continuation lines stay the same.                        *)
LEMMA SameMore ==
    ASSUME NEW x, NEW d, NEW f, NEW g, NEW s, NEW t, NEW u,
           More(d, f, s, t) = More(d, g, s, u), EntryAt(x, d, f, s, t)
    PROVE  EntryAt(x, d, g, s, u)
BY DEF EntryAt

(* A line that continues no entry leaves the entries what they are.        *)
LEMMA LineSkipped ==
    ASSUME NEW d, NEW p, NEW e, LineOf(d, p, e), d[p + 1] = Newline \/ d[p + 1] \notin Stamp,
           NEW from \in SUBSET Nat, NEW es, AreEntries(es, d, from, p),
           \/ d[p + 1] = Newline
           \/ \A h \in Heads(d, p) : \E c \in from : h < c /\ c <= p
    PROVE  AreEntries(es, d, from, e)
<1>1. Heads(d, e) = Heads(d, p)
  BY LineAdds
<1>2. ASSUME NEW s \in Heads(d, p) PROVE More(d, from, s, e) = More(d, from, s, p)
  <2> DEFINE cuts == {c \in Heads(d, p) \cup from : s < c}
  <2>1. More(d, from, s, e) = {n \in Starts(d, e) : s < n /\ \A c \in cuts : n < c}
    BY <1>1 DEF More
  <2>2. More(d, from, s, p) = {n \in Starts(d, p) : s < n /\ \A c \in cuts : n < c}
    BY DEF More
  <2>3. CASE d[p + 1] = Newline
    <3>1. Starts(d, e) = Starts(d, p)
      BY <2>3, LineAdds
    <3> QED  BY <3>1, <2>1, <2>2
  <2>4. CASE d[p + 1] # Newline
    <3>1. Starts(d, e) = Starts(d, p) \cup {p}
      BY <2>4, LineAdds
    <3>2. PICK c \in from : s < c /\ c <= p
      BY <2>4
    <3>3. c \in cuts /\ p \in Nat /\ c \in Nat
      BY <3>2 DEF LineOf
    <3>4. ~ (p < c)
      BY <3>2, <3>3
    <3> HIDE DEF cuts
    <3> QED  BY <2>1, <2>2, <3>1, <3>3, <3>4
  <2> QED  BY <2>3, <2>4
<1>3. ASSUME NEW s \in Heads(d, p) PROVE EntryAt(es[Place(Heads(d, p), s)], d, from, s, e)
  <2>1. EntryAt(es[Place(Heads(d, p), s)], d, from, s, p)
    BY DEF AreEntries
  <2> QED  BY <2>1, <1>2, SameMore
<1> QED  BY <1>1, <1>3 DEF AreEntries

(* A line with a timestamp adds its entry and ends the one before it.       *)
LEMMA LineBegins ==
    ASSUME NEW d, NEW p, NEW e, LineOf(d, p, e), d[p + 1] # Newline, d[p + 1] \in Stamp,
           NEW from, NEW es, AreEntries(es, d, from, p),
           NEW fs, Len(fs) = Len(es) + 1, \A i \in 1 .. Len(es) : fs[i] = es[i],
           fs[Len(es) + 1] = ParseDebugLine(LineAt(d, p), Number(d, p))
    PROVE  AreEntries(fs, d, from, e)
<1> DEFINE H == Heads(d, p)
<1>1. Heads(d, e) = H \cup {p} /\ Starts(d, e) = Starts(d, p) \cup {p} /\ p \notin Starts(d, p)
  BY LineAdds
<1>2. /\ p \in Nat /\ Starts(d, p) \subseteq 0 .. p - 1 /\ H \subseteq Starts(d, p)
      /\ Starts(d, p) \subseteq Nat /\ IsFiniteSet(H) /\ Cardinality(H) \in Nat
  BY StartsAre DEF LineOf
<1>3. Len(es) = Cardinality(H)
  BY DEF AreEntries
<1>4. H \subseteq Nat /\ \A k \in H : k < p
  <2> HIDE DEF H
  <2>1. H \subseteq Nat /\ H \subseteq 0 .. p - 1
    BY <1>2
  <2> QED  BY <2>1, <1>2
<1>5. /\ Cardinality(Heads(d, e)) = Len(es) + 1
      /\ \A s \in H : Place(Heads(d, e), s) = Place(H, s)
      /\ Place(Heads(d, e), p) = Len(es) + 1
  <2> HIDE DEF H
  <2>1. /\ Cardinality(H \cup {p}) = Cardinality(H) + 1
        /\ \A n \in Nat : n < p => Place(H \cup {p}, n) = Place(H, n)
        /\ \A n \in Nat : p <= n => Place(H \cup {p}, n) = Cardinality(H) + 1
    BY <1>2, <1>4, PlaceAdd
  <2>2. p <= p
    BY <1>2
  <2> QED  BY <2>1, <2>2, <1>1, <1>2, <1>3, <1>4
<1>6. ASSUME NEW s \in H PROVE EntryAt(fs[Place(Heads(d, e), s)], d, from, s, e)
  <2> DEFINE cuts == {c \in H \cup from : s < c}
  <2>1. s < p /\ ~ (p < p) /\ s \in Nat
    BY <1>2, <1>4
  <2>2. More(d, from, s, e) = {n \in Starts(d, p) \cup {p} :
                               s < n /\ \A c \in cuts \cup {p} : n < c}
    <3>1. {c \in (H \cup {p}) \cup from : s < c} = cuts \cup {p}
      BY <2>1
    <3> QED  BY <1>1, <3>1 DEF More
  <2>3. More(d, from, s, p) = {n \in Starts(d, p) : s < n /\ \A c \in cuts : n < c}
    BY DEF More
  <2>4. \A n \in Starts(d, p) : n < p
    BY <1>2
  <2> HIDE DEF cuts
  <2>5. More(d, from, s, e) = More(d, from, s, p)
    BY <2>1, <2>2, <2>3, <2>4
  <2>6. Place(H, s) \in 1 .. Len(es)
    <3> HIDE DEF H
    <3> QED  BY <1>2, <1>3, <1>4, PlaceIn
  <2>7. EntryAt(es[Place(H, s)], d, from, s, p)
    BY DEF AreEntries
  <2>8. fs[Place(Heads(d, e), s)] = es[Place(H, s)]
    BY <2>6, <1>5
  <2> QED  BY <2>5, <2>7, <2>8, SameMore
<1>7. EntryAt(fs[Place(Heads(d, e), p)], d, from, p, e)
  <2> DEFINE x == ParseDebugLine(LineAt(d, p), Number(d, p))
  <2>1. fs[Place(Heads(d, e), p)] = x
    BY <1>5
  <2>2. More(d, from, p, e) = {}
    <3>1. \A n \in Starts(d, p) \cup {p} : ~ (p < n)
      BY <1>2
    <3> QED  BY <1>1, <3>1 DEF More
  <2>3. [x EXCEPT !.extra = <<>>] = x /\ x.extra = <<>>
    <3> DEFINE l == LineAt(d, p)
               n == Number(d, p)
    <3> HIDE DEF l, n
    <3>1. /\ [ParseDebugLine(l, n) EXCEPT !.extra = <<>>] = ParseDebugLine(l, n)
          /\ ParseDebugLine(l, n).extra = <<>>
      <4> DEFINE a == l[1]
                 b == Tail(l)
                 z == <<>>
      <4>1. ParseDebugLine(l, n) = [level |-> a, message |-> b, extra |-> z, line |-> n,
                                    count |-> 1]
        BY DEF ParseDebugLine
      <4> HIDE DEF a, b, z
      <4>2. [ParseDebugLine(l, n) EXCEPT !.extra = z] = ParseDebugLine(l, n)
        BY <4>1
      <4>3. ParseDebugLine(l, n).extra = z
        BY <4>1
      <4> QED  BY <4>2, <4>3 DEF z
    <3> QED  BY <3>1 DEF l, n
  <2>4. Cardinality(More(d, from, p, e)) = 0
    BY <2>2, FS_EmptySet
  <2> HIDE DEF x
  <2>5. EntryAt(x, d, from, p, e)
    BY <2>2, <2>3, <2>4 DEF EntryAt, x
  <2> QED  BY <2>1, <2>5
<1> QED  BY <1>1, <1>5, <1>6, <1>7 DEF AreEntries

(* A line without a timestamp belongs to the last entry, if no read began   *)
(* after it.                                                               *)
LEMMA LineContinues ==
    ASSUME NEW d, NEW p, NEW e, LineOf(d, p, e), d[p + 1] # Newline, d[p + 1] \notin Stamp,
           NEW from \in SUBSET Nat, NEW es, AreEntries(es, d, from, p),
           NEW h \in Heads(d, p), \A s \in Heads(d, p) : s <= h, \A c \in from : c <= h,
           NEW x, x = es[Len(es)], x \in Entry,
           NEW fs, Len(fs) = Len(es), \A i \in 1 .. Len(es) : i # Len(es) => fs[i] = es[i],
           fs[Len(es)] = [x EXCEPT !.extra = Append(@, LineAt(d, p))], LineAt(d, p) \in Words
    PROVE  AreEntries(fs, d, from, e)
<1> DEFINE H == Heads(d, p)
           cuts(s) == {c \in H \cup from : s < c}
           y == [x EXCEPT !.extra = Append(@, LineAt(d, p))]
<1>1. Heads(d, e) = H /\ Starts(d, e) = Starts(d, p) \cup {p} /\ p \notin Starts(d, p)
  BY LineAdds
<1>2. /\ p \in Nat /\ Starts(d, p) \subseteq 0 .. p - 1 /\ H \subseteq Starts(d, p)
      /\ Starts(d, p) \subseteq Nat /\ IsFiniteSet(H) /\ Cardinality(H) \in Nat
      /\ IsFiniteSet(Starts(d, p))
  BY StartsAre DEF LineOf
<1>3. Len(es) = Cardinality(H)
  BY DEF AreEntries
<1>4. /\ H \subseteq Nat /\ (\A k \in H : k < p) /\ (\A k \in Starts(d, p) : k < p)
      /\ h \in Nat /\ h < p /\ h <= h
  <2>1. H \subseteq Nat /\ H \subseteq 0 .. p - 1 /\ h \in H
    BY <1>2
  <2> HIDE DEF H
  <2> QED  BY <2>1, <1>2
<1>5. Place(H, h) = Len(es) /\ \A s \in H : s # h => Place(H, s) < Len(es)
  <2>1. \A k \in H : k <= h
    OBVIOUS
  <2>2. h \in H
    OBVIOUS
  <2> HIDE DEF H
  <2> QED  BY <2>1, <2>2, <1>2, <1>3, <1>4, PlaceGreatest
<1>6. \A s \in H : Place(H, s) \in 1 .. Len(es)
  <2> HIDE DEF H
  <2> QED  BY <1>2, <1>3, <1>4, PlaceIn
<1>7. ASSUME NEW s \in H
      PROVE  /\ More(d, from, s, e) = {n \in Starts(d, p) \cup {p} :
                                       s < n /\ \A c \in cuts(s) : n < c}
             /\ More(d, from, s, p) = {n \in Starts(d, p) :
                                       s < n /\ \A c \in cuts(s) : n < c}
  BY <1>1 DEF More
<1>8. ASSUME NEW s \in H, s # h PROVE EntryAt(fs[Place(Heads(d, e), s)], d, from, s, e)
  <2>1. s \in Nat /\ s <= h
    BY <1>4
  <2>2. s < h
    BY <2>1, <1>4, <1>8
  <2>3. h \in cuts(s)
    BY <2>2
  <2>4. ~ (p < h)
    BY <1>2, <1>4
  <2> DEFINE C == cuts(s)
  <2>5. /\ More(d, from, s, e) = {n \in Starts(d, p) \cup {p} : s < n /\ \A c \in C : n < c}
        /\ More(d, from, s, p) = {n \in Starts(d, p) : s < n /\ \A c \in C : n < c}
        /\ h \in C
    BY <1>7, <2>3
  <2> HIDE DEF C
  <2>8. More(d, from, s, e) = More(d, from, s, p)
    BY <2>4, <2>5
  <2>6. EntryAt(es[Place(H, s)], d, from, s, p)
    BY DEF AreEntries
  <2>7. fs[Place(Heads(d, e), s)] = es[Place(H, s)]
    BY <1>1, <1>5, <1>6, <1>8
  <2> QED  BY <2>6, <2>7, <2>8, SameMore
<1>9. EntryAt(fs[Place(Heads(d, e), h)], d, from, h, e)
  <2> DEFINE M == More(d, from, h, p)
             N == More(d, from, h, e)
             l == LineAt(d, p)
  <2>1. cuts(h) = {}
    <3>1. \A c \in H \cup from : c \in Nat /\ c <= h
      BY <1>4
    <3>2. \A c \in H \cup from : ~ (h < c)
      BY <3>1, <1>4
    <3> QED  BY <3>2
  <2> HIDE DEF cuts
  <2>2. h \in H
    OBVIOUS
  <2>3. N = M \cup {p} /\ M \subseteq Starts(d, p)
    BY <1>4, <1>7, <2>1, <2>2
  <2>4. IsFiniteSet(M) /\ M \subseteq Nat /\ (\A n \in M : n < p)
    <3> HIDE DEF M, N
    <3>1. IsFiniteSet(M)
      BY <1>2, <2>3, FS_Subset
    <3> QED  BY <3>1, <1>2, <1>4, <2>3
  <2>5. /\ Cardinality(N) = Cardinality(M) + 1
        /\ \A n \in M : Place(N, n) = Place(M, n)
        /\ Place(N, p) = Cardinality(M) + 1
    <3> HIDE DEF M, N
    <3>1. /\ Cardinality(M \cup {p}) = Cardinality(M) + 1
          /\ \A n \in Nat : n < p => Place(M \cup {p}, n) = Place(M, n)
          /\ \A n \in Nat : p <= n => Place(M \cup {p}, n) = Cardinality(M) + 1
      BY <1>2, <2>4, PlaceAdd
    <3>2. p <= p
      BY <1>2
    <3> QED  BY <2>3, <2>4, <3>1, <3>2, <1>2
  <2>6. \A n \in M : Place(M, n) \in 1 .. Cardinality(M)
    <3> HIDE DEF M
    <3> QED  BY <2>4, PlaceIn
  <2>7. EntryAt(x, d, from, h, p)
    <3>1. EntryAt(es[Place(H, h)], d, from, h, p)
      BY DEF AreEntries
    <3> QED  BY <3>1, <1>5
  <2>8. /\ [x EXCEPT !.extra = <<>>] = ParseDebugLine(LineAt(d, h), Number(d, h))
        /\ Len(x.extra) = Cardinality(M)
        /\ \A n \in M : x.extra[Place(M, n)] = LineAt(d, n)
    BY <2>7 DEF EntryAt
  <2>9. fs[Place(Heads(d, e), h)] = y
    BY <1>1, <1>5
  <2>10. x.extra \in Seq(Words) /\ y.extra = Append(x.extra, l)
    BY DEF Entry
  <2>11. [y EXCEPT !.extra = <<>>] = [x EXCEPT !.extra = <<>>]
    BY DEF Entry
  <2> HIDE DEF y, l, M, N
  <2>12. /\ Len(y.extra) = Len(x.extra) + 1
         /\ y.extra[Len(x.extra) + 1] = l
         /\ \A i \in 1 .. Len(x.extra) : y.extra[i] = x.extra[i]
    BY <2>10, AppendProperties DEF l
  <2>13. ASSUME NEW n \in N PROVE y.extra[Place(N, n)] = LineAt(d, n)
    <3>1. CASE n = p
      BY <3>1, <2>5, <2>8, <2>12 DEF l
    <3>2. CASE n # p
      <4>1. n \in M
        BY <2>3, <3>2
      <4> QED  BY <4>1, <2>5, <2>6, <2>8, <2>12
    <3> QED  BY <3>1, <3>2
  <2>14. Len(y.extra) = Cardinality(N)
    BY <2>5, <2>8, <2>12
  <2>15. EntryAt(y, d, from, h, e)
    BY <2>8, <2>11, <2>13, <2>14 DEF EntryAt, N
  <2> QED  BY <2>9, <2>15
<1>10. Len(fs) = Cardinality(Heads(d, e))
  BY <1>1, <1>3
<1>11. \A s \in Heads(d, e) : EntryAt(fs[Place(Heads(d, e), s)], d, from, s, e)
  BY <1>1, <1>8, <1>9
<1> QED  BY <1>10, <1>11 DEF AreEntries

----------------------------------------------------------------------------
(* READS THAT ADD UP *)

(* No line of d that has its newline ends in "\r".                          *)
UnixRead(d) == \A n \in 1 .. Len(d) - 1 : d[n] = CR => d[n + 1] # Newline

(* The entries es of the reads before and `read`, those of a read of d from *)
(* offset o, are the entries before t; an entry of this read began in it.   *)
ReadTo(d, o, from, es, read, t) ==
    /\ AreEntries(es \o read, d, from, t)
    /\ read = <<>> <=> \A h \in Heads(d, t) : h < o

(* As long as the read's count of bytes is the scanner's place, it has the  *)
(* entries of the lines behind it.  It falls behind only at a "\r" that     *)
(* ends the log.                                                           *)
InStep(d, o, from, es, s) ==
    /\ s.bytes = s.at
    /\ LineStart(d, s.at) \/ s.at = Len(d) + 1
    /\ s.at < Len(d) => s.line + 1 = Number(d, s.at)
    /\ ReadTo(d, o, from, es, s.entries, s.at)

Behind(d, s) == s.at = Len(d) + 1 /\ s.bytes = Len(d) /\ Len(d) > 0 /\ d[Len(d)] = CR

(* What one more line does to the entries of this read.                     *)
LEMMA LineAdded ==
    ASSUME NEW d, NEW p, NEW e, LineOf(d, p, e),
           NEW o \in Nat, o <= p, NEW from \in SUBSET Nat, o \in from, \A c \in from : c <= o,
           NEW es \in Seq(Entry), NEW read \in Seq(Entry), ReadTo(d, o, from, es, read, p),
           NEW n, n = Number(d, p), n \in 1 .. MaxLen,
           NEW next, next = AddLine(read, LineAt(d, p), n)
    PROVE  ReadTo(d, o, from, es, next, e)
<1>0. /\ AreEntries(es \o read, d, from, p)
      /\ read = <<>> <=> \A h \in Heads(d, p) : h < o
  BY DEF ReadTo
<1> DEFINE l == LineAt(d, p)
           all == es \o read
<1>1. /\ Len(d) \in Nat /\ p \in Nat /\ e \in Nat /\ p < e /\ e <= Len(d) + 1
      /\ e <= Len(d) => d[e] = Newline
      /\ \A i \in p + 1 .. e - 1 : d[i] # Newline
  BY LineOfIs
<1>2. l \in Words /\ Len(l) = e - 1 - p /\ \A i \in 1 .. Len(l) : l[i] = d[p + i]
  <2>1. d \in Seq(Cell) /\ p <= Len(d) /\ e = LineEnd(d, p)
    BY <1>1 DEF LineOf
  <2> DEFINE k == SubSeq(d, p + 1, LineEnd(d, p) - 1)
  <2>2. /\ k \in Words /\ Len(k) = LineEnd(d, p) - 1 - p
        /\ \A i \in 1 .. Len(k) : k[i] = d[p + i]
    BY <1>1, <2>1, LineCells
  <2>3. l = k
    BY DEF LineAt
  <2> HIDE DEF k, l
  <2> QED  BY <2>1, <2>2, <2>3
<1>3. /\ all \in Seq(Entry) /\ Len(all) = Len(es) + Len(read)
      /\ \A i \in 1 .. Len(es) + Len(read) :
            all[i] = IF i <= Len(es) THEN es[i] ELSE read[i - Len(es)]
  BY ConcatProperties
<1>4. Len(es) \in Nat /\ Len(read) \in Nat /\ Len(all) = Cardinality(Heads(d, p))
  BY <1>0 DEF AreEntries
<1>a. Len(all) = Len(es) + Len(read)
  BY <1>3
<1> HIDE DEF l
<1>5. next \in Seq(Entry)
  BY <1>2, AddLineIs DEF l
<1>6. /\ es \o next \in Seq(Entry) /\ Len(es \o next) = Len(es) + Len(next)
      /\ \A i \in 1 .. Len(es) + Len(next) :
            (es \o next)[i] = IF i <= Len(es) THEN es[i] ELSE next[i - Len(es)]
  BY <1>5, ConcatProperties
<1>7. d[p + 1] = Newline <=> l = <<>>
  <2>1. ASSUME d[p + 1] = Newline PROVE l = <<>>
    <3>1. ~ (p + 1 <= e - 1)
      BY <1>1, <2>1
    <3>2. Len(l) = 0
      BY <1>1, <1>2, <3>1
    <3> QED  BY <3>2, <1>2 DEF Words
  <2>2. ASSUME l = <<>> PROVE d[p + 1] = Newline
    <3>1. e = p + 1
      BY <1>1, <1>2, <2>2
    <3> QED  BY <3>1, <1>1 DEF LineOf
  <2> QED  BY <2>1, <2>2
<1>8. l # <<>> => l[1] = d[p + 1]
  <2> SUFFICES ASSUME l # <<>> PROVE l[1] = d[p + 1]
    OBVIOUS
  <2>1. 1 \in 1 .. Len(l)
    BY <1>2 DEF Words
  <2> QED  BY <2>1, <1>2
<1> HIDE DEF all
<1>9. CASE d[p + 1] = Newline
  <2>1. next = read
    BY <1>7, <1>9 DEF AddLine, IsTimestampLine, l
  <2>2. AreEntries(all, d, from, e)
    BY <1>0, <1>9, LineSkipped DEF all
  <2>3. Heads(d, e) = Heads(d, p)
    BY <1>9, LineAdds
  <2> QED  BY <1>0, <2>1, <2>2, <2>3 DEF all, ReadTo
<1>10. CASE d[p + 1] # Newline /\ d[p + 1] \in Stamp
  <2>1. IsTimestampLine(l)
    BY <1>7, <1>8, <1>10 DEF IsTimestampLine
  <2> DEFINE x == ParseDebugLine(l, n)
  <2>2. next = Append(read, x) /\ x \in Entry
    BY <2>1, <1>2, ParsedIsEntry DEF AddLine, l
  <2> HIDE DEF x
  <2>3. /\ Len(next) = Len(read) + 1 /\ next[Len(read) + 1] = x
        /\ \A i \in 1 .. Len(read) : next[i] = read[i]
    BY <2>2, AppendProperties
  <2>4. Len(es \o next) = Len(all) + 1 /\ (es \o next)[Len(all) + 1] = x
    BY <1>3, <1>4, <1>6, <2>3
  <2>5. \A i \in 1 .. Len(all) : (es \o next)[i] = all[i]
    <3> SUFFICES ASSUME NEW i \in 1 .. Len(all) PROVE (es \o next)[i] = all[i]
      OBVIOUS
    <3>1. i \in 1 .. Len(es) + Len(read) /\ i \in 1 .. Len(es) + Len(next)
      BY <1>a, <1>4, <2>3
    <3>2. CASE i <= Len(es)
      BY <3>1, <3>2, <1>3, <1>6
    <3>3. CASE ~ (i <= Len(es))
      <4>1. i - Len(es) \in 1 .. Len(read)
        BY <3>1, <3>3, <1>4
      <4>2. next[i - Len(es)] = read[i - Len(es)]
        BY <2>3, <4>1
      <4> QED  BY <3>1, <3>3, <4>2, <1>3, <1>6
    <3> QED  BY <3>2, <3>3
  <2>6. x = ParseDebugLine(LineAt(d, p), Number(d, p))
    BY DEF x, l
  <2>7. AreEntries(es \o next, d, from, e)
    <3> DEFINE fs == es \o next
    <3>1. AreEntries(all, d, from, p)
      BY <1>0 DEF all
    <3>2. /\ Len(fs) = Len(all) + 1 /\ \A i \in 1 .. Len(all) : fs[i] = all[i]
          /\ fs[Len(all) + 1] = ParseDebugLine(LineAt(d, p), Number(d, p))
      BY <2>4, <2>5, <2>6
    <3> HIDE DEF fs
    <3>3. AreEntries(fs, d, from, e)
      BY <1>10, <3>1, <3>2, LineBegins
    <3> QED  BY <3>3 DEF fs
  <2>8. next # <<>> /\ p \in Heads(d, e) /\ ~ (p < o)
    <3>1. Heads(d, e) = Heads(d, p) \cup {p}
      BY <1>10, LineAdds
    <3>2. next # <<>>
      BY <2>2
    <3>3. ~ (p < o)
      BY <1>1
    <3> QED  BY <3>1, <3>2, <3>3
  <2> QED  BY <2>7, <2>8 DEF ReadTo
<1>11. CASE d[p + 1] # Newline /\ d[p + 1] \notin Stamp
  <2>1. l # <<>> /\ ~ IsTimestampLine(l)
    BY <1>7, <1>8, <1>11 DEF IsTimestampLine
  <2>2. Heads(d, e) = Heads(d, p)
    BY <1>11, LineAdds
  <2>3. CASE read = <<>>
    <3>1. next = read
      BY <2>1, <2>3 DEF AddLine, l
    <3>2. \A h \in Heads(d, p) : \E c \in from : h < c /\ c <= p
      BY <1>0, <2>3
    <3>3. AreEntries(all, d, from, e)
      BY <1>0, <1>11, <3>2, LineSkipped DEF all
    <3> QED  BY <1>0, <2>2, <3>1, <3>3 DEF all, ReadTo
  <2>4. CASE read # <<>>
    <3> DEFINE k == Len(read)
               x == read[k]
               y == [x EXCEPT !.extra = Append(@, l)]
    <3>1. k \in 1 .. Len(read) /\ x \in Entry
      BY <2>4
    <3>2. next = [read EXCEPT ![k] = y]
      BY <2>1, <2>4 DEF AddLine, l
    <3>3. y \in Entry
      BY <3>1, <1>2, ExtendedIsEntry
    <3> HIDE DEF y, x, k
    <3>4. /\ Len(next) = Len(read)
          /\ \A j \in 1 .. Len(read) : next[j] = IF j = k THEN y ELSE read[j]
      BY <3>1, <3>2, <3>3, ExceptSeq
    <3>5. k = Len(read) /\ x = read[k]
      BY DEF k, x
    <3>6. Len(all) \in 1 .. Len(all) /\ all[Len(all)] = x /\ k \in Nat
      <4>1. /\ k \in Nat /\ k > 0 /\ Len(all) = Len(es) + k
            /\ Len(all) \in 1 .. Len(es) + Len(read)
        BY <3>1, <3>5, <1>a, <1>4
      <4>2. ~ (Len(all) <= Len(es)) /\ Len(all) - Len(es) = k
        BY <4>1, <1>4
      <4>3. all[Len(all)] = read[Len(all) - Len(es)]
        BY <4>1, <4>2, <1>3
      <4> QED  BY <4>1, <4>2, <4>3, <3>5, <1>4
    <3>7. Len(es \o next) = Len(all) /\ (es \o next)[Len(all)] = y
      BY <3>1, <3>4, <3>5, <1>3, <1>4, <1>6
    <3>8. \A i \in 1 .. Len(all) : i # Len(all) => (es \o next)[i] = all[i]
      <4> SUFFICES ASSUME NEW i \in 1 .. Len(all), i # Len(all) PROVE (es \o next)[i] = all[i]
        OBVIOUS
      <4>1. CASE i <= Len(es)
        BY <4>1, <3>4, <1>3, <1>4, <1>6
      <4>2. CASE ~ (i <= Len(es))
        <5>1. i - Len(es) \in 1 .. Len(read) /\ i - Len(es) # k
          BY <4>2, <3>5, <1>a, <1>4
        <5>2. next[i - Len(es)] = read[i - Len(es)]
          BY <3>4, <5>1
        <5>3. i \in 1 .. Len(es) + Len(read) /\ i \in 1 .. Len(es) + Len(next)
          BY <3>4, <1>a, <1>4
        <5> QED  BY <4>2, <5>2, <5>3, <1>3, <1>6
      <4> QED  BY <4>1, <4>2
    <3>9. \E h \in Heads(d, p) : (\A s \in Heads(d, p) : s <= h) /\ \A c \in from : c <= h
      <4> DEFINE H == Heads(d, p)
      <4>1. PICK g \in H : ~ (g < o)
        BY <1>0, <2>4
      <4>2. H \in SUBSET (0 .. p) /\ H # {}
        <5>1. Heads(d, p) \subseteq Starts(d, p) /\ Starts(d, p) \subseteq 0 .. p - 1
          BY <1>1, StartsAre
        <5>2. 0 .. p - 1 \subseteq 0 .. p
          BY <1>1
        <5> QED  BY <4>1, <5>1, <5>2
      <4> HIDE DEF H
      <4>3. PICK h \in H : \A s \in H : s <= h
        BY <1>1, <4>2, GreatestIs
      <4>4. g \in Nat /\ h \in Nat /\ g <= h
        BY <1>1, <4>1, <4>2, <4>3
      <4>5. o <= h
        BY <4>1, <4>4
      <4>6. \A c \in from : c <= h
        <5> SUFFICES ASSUME NEW c \in from PROVE c <= h
          OBVIOUS
        <5>1. c \in Nat /\ c <= o
          OBVIOUS
        <5> QED  BY <5>1, <4>4, <4>5
      <4> QED  BY <4>3, <4>6 DEF H
    <3>10. PICK h \in Heads(d, p) : (\A s \in Heads(d, p) : s <= h) /\ \A c \in from : c <= h
      BY <3>9
    <3>11. (es \o next)[Len(all)] = [x EXCEPT !.extra = Append(@, LineAt(d, p))]
      BY <3>7 DEF y, l
    <3>12. AreEntries(all, d, from, p) /\ LineAt(d, p) \in Words
      BY <1>0, <1>2 DEF all, l
    <3> DEFINE fs == es \o next
    <3>13. /\ Len(fs) = Len(all) /\ fs[Len(all)] = [x EXCEPT !.extra = Append(@, LineAt(d, p))]
           /\ \A i \in 1 .. Len(all) : i # Len(all) => fs[i] = all[i]
      BY <3>7, <3>8, <3>11
    <3> HIDE DEF fs
    <3>14. x = all[Len(all)]
      BY <3>6
    <3>15. AreEntries(fs, d, from, e)
      BY <1>11, <3>1, <3>10, <3>12, <3>13, <3>14, LineContinues
    <3>16. next # <<>>
      BY <3>1, <3>4, <2>4
    <3> QED  BY <1>0, <2>2, <2>4, <3>15, <3>16 DEF fs, ReadTo
  <2> QED  BY <2>3, <2>4
<1> QED  BY <1>9, <1>10, <1>11

(* The scanner stays in step with its offset, or is behind at the end.      *)
LEMMA StaysInStep ==
    ASSUME LogAssumption, NEW d, d \in Seq(Cell), Len(d) <= MaxLen, UnixRead(d),
           NEW o \in Nat, NEW m \in Nat, m <= o,
           NEW from \in SUBSET Nat, o \in from, \A c \in from : c <= o,
           NEW es \in Seq(Entry), NEW s, Held(d, o, m, s),
           InStep(d, o, from, es, s) \/ Behind(d, s)
    PROVE  InStep(d, o, from, es, NextLine(d, s)) \/ Behind(d, NextLine(d, s))
<1>0. Len(d) \in Nat /\ MaxLen \in Nat
  BY DEF LogAssumption
<1>1. CASE AtEnd(d, s)
  BY <1>1 DEF NextLine
<1>2. CASE ~ AtEnd(d, s)
  <2> DEFINE p == s.at
             e == LineEnd(d, p)
             raw == LineAt(d, p)
             w   == DropCR(raw)
             next == AddLine(s.entries, w, s.line + 1)
             t == NextLine(d, s)
  <2>1. /\ p \in Nat /\ s.bytes \in Nat /\ s.line \in Nat /\ s.entries \in Seq(Entry)
        /\ o <= p /\ m <= s.line /\ s.line - m <= p - o
    BY DEF Held
  <2>2. p < Len(d)
    BY <1>0, <1>2, <2>1 DEF AtEnd
  <2>3. InStep(d, o, from, es, s)
    <3>1. ~ Behind(d, s)
      BY <1>0, <2>2 DEF Behind
    <3> QED  BY <3>1
  <2>4. /\ s.bytes = p /\ LineStart(d, p) /\ s.line + 1 = Number(d, p)
        /\ ReadTo(d, o, from, es, s.entries, p)
    <3>1. p # Len(d) + 1
      BY <1>0, <2>2
    <3> QED  BY <2>2, <2>3, <3>1 DEF InStep
  <2>5. /\ t.at = e /\ t.bytes = s.bytes + Len(w) + 1 /\ t.line = s.line + 1
        /\ t.entries = next
    BY <1>2 DEF NextLine, ReadLine, LineAt
  <2> HIDE DEF p, t
  <2>6. LineOf(d, p, e)
    BY <2>1, <2>2, <2>4 DEF LineOf
  <2>7. /\ e \in Nat /\ p < e /\ e <= Len(d) + 1
        /\ e <= Len(d) => d[e] = Newline
    BY <2>6, LineOfIs
  <2>8. raw \in Words /\ Len(raw) = e - 1 - p /\ \A i \in 1 .. Len(raw) : raw[i] = d[p + i]
    <3>1. p <= Len(d)
      BY <1>0, <2>1, <2>2
    <3> QED  BY <2>1, <3>1, LineCells DEF LineAt
  <2> HIDE DEF e, raw
  <2>9. /\ w \in Words /\ Len(w) \in 0 .. Len(raw)
        /\ w = raw \/ (Len(raw) > 0 /\ raw[Len(raw)] = CR /\ Len(w) = Len(raw) - 1)
    BY <2>8, DropCRIs
  <2> HIDE DEF w
  <2>10. CASE w = raw
    <3>1. s.line + 1 \in 1 .. MaxLen
      BY <1>0, <2>1, <2>2
    <3> DEFINE n == s.line + 1
               read == s.entries
    <3>2. n \in 1 .. MaxLen /\ n = Number(d, p) /\ read \in Seq(Entry)
      BY <3>1, <2>1, <2>4
    <3>3. next = AddLine(read, LineAt(d, p), n)
      BY <2>10 DEF raw
    <3>4. ReadTo(d, o, from, es, read, p)
      BY <2>4
    <3> HIDE DEF next, n, read
    <3>5. ReadTo(d, o, from, es, next, e)
      <4>1. o <= p
        BY <2>1
      <4> QED  BY <4>1, <2>6, <3>2, <3>3, <3>4, LineAdded
    <3>6. t.bytes = t.at
      BY <2>1, <2>4, <2>5, <2>7, <2>8, <2>10
    <3>7. LineStart(d, e) \/ e = Len(d) + 1
      BY <1>0, <2>7 DEF LineStart
    <3>8. e < Len(d) => t.line + 1 = Number(d, e)
      <4> SUFFICES ASSUME e < Len(d) PROVE t.line + 1 = Number(d, e)
        OBVIOUS
      <4>1. e <= Len(d)
        BY <1>0, <2>7
      <4>2. Number(d, e) = Number(d, p) + 1
        BY <2>6, <4>1, NumberNext
      <4> QED  BY <2>4, <2>5, <4>2
    <3>9. InStep(d, o, from, es, t)
      BY <2>5, <3>5, <3>6, <3>7, <3>8 DEF InStep
    <3> QED  BY <3>9 DEF t
  <2>11. CASE w # raw
    <3>1. Len(raw) > 0 /\ raw[Len(raw)] = CR /\ Len(w) = Len(raw) - 1
      BY <2>9, <2>11
    <3>2. Len(raw) \in Nat /\ Len(raw) \in 1 .. Len(raw) /\ p + Len(raw) = e - 1
      BY <2>1, <2>7, <2>8, <3>1
    <3>3. d[e - 1] = CR
      BY <2>8, <3>1, <3>2
    <3>4. e = Len(d) + 1
      <4> SUFFICES ASSUME e # Len(d) + 1 PROVE FALSE
        OBVIOUS
      <4>1. e <= Len(d) /\ e - 1 \in 1 .. Len(d) - 1 /\ (e - 1) + 1 = e
        BY <1>0, <2>1, <2>7, <3>1, <3>2
      <4> QED  BY <4>1, <2>7, <3>3 DEF UnixRead
    <3>5. t.at = Len(d) + 1 /\ t.bytes = Len(d)
      BY <1>0, <2>1, <2>4, <2>5, <3>1, <3>2, <3>4
    <3>6. Len(d) > 0 /\ d[Len(d)] = CR
      BY <1>0, <2>1, <2>2, <3>3, <3>4
    <3> QED  BY <3>5, <3>6 DEF Behind, t
  <2> QED  BY <2>10, <2>11
<1> QED  BY <1>1, <1>2

(* The same of a whole read.                                               *)
LEMMA ScannedInStep ==
    ASSUME LogAssumption, NEW d, d \in Seq(Cell), Len(d) <= MaxLen, UnixRead(d),
           NEW o \in Nat, o <= Len(d), LineStart(d, o), NEW m \in Nat, m <= o,
           o < Len(d) => m + 1 = Number(d, o),
           NEW from \in SUBSET Nat, o \in from, \A c \in from : c <= o,
           NEW es \in Seq(Entry), AreEntries(es, d, from, o)
    PROVE  LET s == Scanned(d, o, m)[Len(d)] IN InStep(d, o, from, es, s) \/ Behind(d, s)
<1> DEFINE f == Scanned(d, o, m)
           Fine(s) == InStep(d, o, from, es, s) \/ Behind(d, s)
           T == {n \in Nat : n <= Len(d) /\ ~ Fine(f[n])}
<1>1. Len(d) \in Nat /\ o <= Len(d) + 1 /\ MaxLen \in Nat
  BY DEF LogAssumption
<1>2. /\ f[0] = [at |-> o, bytes |-> o, line |-> m, entries |-> <<>>]
      /\ \A n \in 1 .. Len(d) : f[n] = NextLine(d, f[n - 1])
  BY <1>1, ScannedIs
<1>3. \A n \in 0 .. Len(d) : Held(d, o, m, f[n])
  BY <1>1, ScannedHeld
<1> HIDE DEF f
<1>4. InStep(d, o, from, es, f[0])
  <2>1. es \o <<>> = es
    BY ConcatEmptySeq
  <2>2. \A h \in Heads(d, o) : h < o
    BY DEF Heads, Starts
  <2>3. ReadTo(d, o, from, es, <<>>, o)
    BY <2>1, <2>2 DEF ReadTo
  <2>4. /\ f[0].at = o /\ f[0].bytes = o /\ f[0].line = m /\ f[0].entries = <<>>
    BY <1>2
  <2> QED  BY <2>3, <2>4 DEF InStep
<1>5. ASSUME NEW n \in Nat, n \notin T PROVE n + 1 \notin T
  <2> SUFFICES ASSUME n + 1 <= Len(d) PROVE Fine(f[n + 1])
    OBVIOUS
  <2>1. n + 1 \in 1 .. Len(d) /\ (n + 1) - 1 = n /\ n \in 0 .. Len(d) /\ n <= Len(d)
    BY <1>1
  <2>2. f[n + 1] = NextLine(d, f[n])
    BY <1>2, <2>1
  <2>3. Held(d, o, m, f[n])
    BY <1>3, <2>1
  <2> DEFINE s == f[n]
  <2>4. InStep(d, o, from, es, s) \/ Behind(d, s)
    BY <1>5, <2>1
  <2>5. Held(d, o, m, s)
    BY <2>3
  <2> HIDE DEF s
  <2>6. InStep(d, o, from, es, NextLine(d, s)) \/ Behind(d, NextLine(d, s))
    BY <2>4, <2>5, StaysInStep
  <2> QED  BY <2>2, <2>6 DEF s
<1>6. 0 \notin T
  BY <1>4
<1>7. T = {}
  <2>1. T \in SUBSET Nat
    OBVIOUS
  <2> HIDE DEF T
  <2> QED  BY <1>5, <1>6, <2>1, NoLeast
<1>8. Fine(f[Len(d)])
  BY <1>1, <1>7
<1> QED  BY <1>8 DEF f

(* A read that counts no line did not move.                                *)
LEMMA ReadOfNothing ==
    ASSUME NEW d, d \in Seq(Cell), Len(d) <= MaxLen, MaxLen \in Nat,
           NEW o \in Nat, o <= Len(d) + 1,
           NEW m \in Nat, m <= o
    PROVE  LET s == Scanned(d, o, m)[Len(d)] IN
           s.line = m => s.bytes = o /\ s.entries = <<>>
<1> DEFINE f == Scanned(d, o, m)
           Fine(s) == s.line = m => s.bytes = o /\ s.entries = <<>>
           T == {n \in Nat : n <= Len(d) /\ ~ Fine(f[n])}
<1>1. Len(d) \in Nat
  OBVIOUS
<1>2. /\ f[0] = [at |-> o, bytes |-> o, line |-> m, entries |-> <<>>]
      /\ \A n \in 1 .. Len(d) : f[n] = NextLine(d, f[n - 1])
  BY <1>1, ScannedIs
<1>3. \A n \in 0 .. Len(d) : Held(d, o, m, f[n])
  BY <1>1, ScannedHeld
<1> HIDE DEF f
<1>4. ASSUME NEW n \in Nat, n \notin T PROVE n + 1 \notin T
  <2> SUFFICES ASSUME n + 1 <= Len(d) PROVE Fine(f[n + 1])
    OBVIOUS
  <2>1. n + 1 \in 1 .. Len(d) /\ (n + 1) - 1 = n /\ n \in 0 .. Len(d) /\ n <= Len(d)
    BY <1>1
  <2>2. f[n + 1] = NextLine(d, f[n])
    BY <1>2, <2>1
  <2>3. f[n].line \in Nat /\ m <= f[n].line
    BY <1>3, <2>1 DEF Held
  <2>4. CASE AtEnd(d, f[n])
    BY <2>1, <2>2, <2>4, <1>4 DEF NextLine
  <2>5. CASE ~ AtEnd(d, f[n])
    <3>1. f[n + 1].line = f[n].line + 1
      BY <2>2, <2>5 DEF NextLine, ReadLine
    <3> QED  BY <2>3, <3>1
  <2> QED  BY <2>4, <2>5
<1>5. 0 \notin T
  BY <1>2
<1>6. T = {}
  <2>1. T \in SUBSET Nat
    OBVIOUS
  <2> HIDE DEF T
  <2> QED  BY <1>4, <1>5, <2>1, NoLeast
<1>7. Fine(f[Len(d)])
  BY <1>1, <1>6
<1> QED  BY <1>7 DEF f

(* What is written behind whole lines changes nothing of their entries.     *)
LEMMA EntriesStay ==
    ASSUME NEW d, d \in Seq(Cell), NEW c \in Cell, NEW t \in Nat, t <= Len(d) + 1,
           LineStart(d, t) \/ t = Len(d) + 1, t = Len(d) + 1 => c = Newline,
           NEW from, NEW es, AreEntries(es, d, from, t)
    PROVE  AreEntries(es, Append(d, c), from, t)
<1> DEFINE g == Append(d, c)
<1>1. Len(d) \in Nat
  OBVIOUS
<1>2. /\ g \in Seq(Cell) /\ Len(g) = Len(d) + 1 /\ g[Len(d) + 1] = c
      /\ \A n \in 1 .. Len(d) : g[n] = d[n]
  BY AppendProperties
<1> HIDE DEF g
<1>3. ASSUME NEW n \in Nat, n <= Len(d) PROVE LineStart(g, n) <=> LineStart(d, n)
  <2>1. CASE n = 0
    BY <2>1 DEF LineStart
  <2>2. CASE n # 0
    <3>1. n \in 1 .. Len(d) /\ n <= Len(g)
      BY <1>1, <1>2, <1>3, <2>2
    <3> QED  BY <3>1, <1>2, <1>3, <2>2 DEF LineStart
  <2> QED  BY <2>1, <2>2
<1>4. ASSUME NEW n \in 0 .. t - 1 PROVE n \in Starts(g, t) <=> n \in Starts(d, t)
  <2>1. CASE n < Len(d)
    <3>1. n \in Nat /\ n <= Len(d) /\ n + 1 \in 1 .. Len(d) /\ n < Len(g)
      BY <1>1, <1>2, <2>1
    <3>2. LineStart(g, n) <=> LineStart(d, n)
      BY <1>3, <3>1
    <3>3. g[n + 1] = d[n + 1]
      BY <1>2, <3>1
    <3> QED  BY <2>1, <3>1, <3>2, <3>3 DEF Starts
  <2>2. CASE ~ (n < Len(d))
    <3>1. n = Len(d) /\ t = Len(d) + 1
      BY <1>1, <2>2
    <3>2. g[n + 1] = Newline
      BY <1>2, <3>1
    <3> QED  BY <2>2, <3>2 DEF Starts
  <2> QED  BY <2>1, <2>2
<1>5. Starts(g, t) = Starts(d, t)
  <2>1. Starts(g, t) \subseteq 0 .. t - 1 /\ Starts(d, t) \subseteq 0 .. t - 1
    BY DEF Starts
  <2> QED  BY <2>1, <1>4
<1>6. ASSUME NEW n \in Starts(d, t)
      PROVE  /\ n \in Nat /\ n < t /\ n < Len(d) /\ n + 1 \in 1 .. Len(d)
             /\ g[n + 1] = d[n + 1]
  <2>1. n \in 0 .. t - 1 /\ n < Len(d)
    BY DEF Starts
  <2>2. n \in Nat /\ n < t /\ n + 1 \in 1 .. Len(d)
    BY <1>1, <2>1
  <2> QED  BY <2>1, <2>2, <1>2
<1>7. Heads(g, t) = Heads(d, t)
  BY <1>5, <1>6 DEF Heads
<1>8. \A s \in Heads(d, t) : More(g, from, s, t) = More(d, from, s, t)
  BY <1>5, <1>7 DEF More
<1>9. ASSUME NEW s \in Starts(d, t) PROVE LineAt(g, s) = LineAt(d, s)
  <2> DEFINE e == LineEnd(d, s)
  <2>1. s \in Nat /\ s < t /\ s < Len(d) /\ s <= Len(d) /\ s <= Len(g)
    BY <1>1, <1>2, <1>6
  <2>2. /\ e \in s + 1 .. Len(d) + 1
        /\ e <= Len(d) => d[e] = Newline
        /\ \A n \in s + 1 .. e - 1 : d[n] # Newline
    BY <2>1, LineEndIs
  <2> HIDE DEF e
  <2>3. e \in Nat /\ s < e /\ e <= Len(d) + 1
    BY <1>1, <2>1, <2>2
  <2>4. e = Len(d) + 1 => c = Newline
    <3> SUFFICES ASSUME e = Len(d) + 1, t # Len(d) + 1 PROVE FALSE
      OBVIOUS
    <3>1. LineStart(d, t) /\ t # 0 /\ t <= Len(d)
      BY <1>1, <2>1
    <3>2. d[t] = Newline
      BY <3>1 DEF LineStart
    <3>3. t \in s + 1 .. e - 1
      BY <1>1, <2>1, <3>1
    <3> QED  BY <2>2, <3>2, <3>3
  <2>5. e <= Len(g) => g[e] = Newline
    <3>1. CASE e = Len(d) + 1
      BY <3>1, <2>4, <1>2
    <3>2. CASE e # Len(d) + 1
      <4>1. e <= Len(d) /\ e \in 1 .. Len(d)
        BY <1>1, <2>1, <2>3, <3>2
      <4> QED  BY <4>1, <1>2, <2>2
    <3> QED  BY <3>1, <3>2
  <2>6. \A n \in s + 1 .. e - 1 : n \in 1 .. Len(d) /\ g[n] = d[n] /\ g[n] # Newline
    <3> SUFFICES ASSUME NEW n \in s + 1 .. e - 1
                 PROVE  n \in 1 .. Len(d) /\ g[n] = d[n] /\ g[n] # Newline
      OBVIOUS
    <3>1. n \in 1 .. Len(d)
      BY <1>1, <2>1, <2>3
    <3> QED  BY <3>1, <1>2, <2>2
  <2>7. e \in s + 1 .. Len(g) + 1
    BY <1>1, <1>2, <2>1, <2>3
  <2>8. LineEnd(g, s) = e
    BY <1>2, <2>1, <2>5, <2>6, <2>7, LineEndIsOnly
  <2>9. SubSeq(g, s + 1, e - 1) = SubSeq(d, s + 1, e - 1)
    <3> DEFINE a == SubSeq(g, s + 1, e - 1)
               b == SubSeq(d, s + 1, e - 1)
    <3>1. s + 1 \in Int /\ e - 1 \in Int
      BY <2>1, <2>3
    <3>2. \A n \in s + 1 .. e - 1 : g[n] \in Cell /\ d[n] \in Cell
      <4>1. \A n \in 1 .. Len(d) : d[n] \in Cell
        OBVIOUS
      <4> QED  BY <4>1, <2>6
    <3>3. /\ a \in Seq(Cell) /\ Len(a) = IF s + 1 <= e - 1 THEN (e - 1) - (s + 1) + 1 ELSE 0
          /\ \A i \in 1 .. (e - 1) - (s + 1) + 1 : a[i] = g[s + 1 + i - 1]
      BY <3>1, <3>2, SubSeqProperties
    <3>4. /\ b \in Seq(Cell) /\ Len(b) = IF s + 1 <= e - 1 THEN (e - 1) - (s + 1) + 1 ELSE 0
          /\ \A i \in 1 .. (e - 1) - (s + 1) + 1 : b[i] = d[s + 1 + i - 1]
      BY <3>1, <3>2, SubSeqProperties
    <3> HIDE DEF a, b
    <3>5. Len(a) = Len(b)
      BY <3>3, <3>4
    <3>6. ASSUME NEW i \in 1 .. Len(a) PROVE a[i] = b[i]
      <4>1. /\ i \in 1 .. (e - 1) - (s + 1) + 1
            /\ s + 1 + i - 1 \in s + 1 .. e - 1
        BY <2>1, <2>3, <3>3
      <4> QED  BY <4>1, <3>3, <3>4, <2>6
    <3>7. a = b
      BY <3>3, <3>4, <3>5, <3>6, SeqEqual
    <3> QED  BY <3>7 DEF a, b
  <2> QED  BY <2>8, <2>9 DEF LineAt, e
<1>10. ASSUME NEW s \in Starts(d, t) PROVE Number(g, s) = Number(d, s)
  <2>1. \A n \in 1 .. s : n \in 1 .. Len(d)
    BY <1>1, <1>6
  <2>2. {n \in 1 .. s : g[n] = Newline} = {n \in 1 .. s : d[n] = Newline}
    BY <2>1, <1>2
  <2> QED  BY <2>2 DEF Number
<1>11. ASSUME NEW s \in Heads(d, t)
       PROVE  EntryAt(es[Place(Heads(d, t), s)], g, from, s, t)
  <2>1. EntryAt(es[Place(Heads(d, t), s)], d, from, s, t)
    BY DEF AreEntries
  <2>2. s \in Starts(d, t)
    BY DEF Heads
  <2>3. \A n \in More(d, from, s, t) : n \in Starts(d, t)
    BY DEF More
  <2>4. LineAt(g, s) = LineAt(d, s) /\ Number(g, s) = Number(d, s)
    BY <2>2, <1>9, <1>10
  <2>5. \A n \in More(d, from, s, t) : LineAt(g, n) = LineAt(d, n)
    BY <2>3, <1>9
  <2>6. More(g, from, s, t) = More(d, from, s, t)
    BY <1>8
  <2> QED  BY <2>1, <2>4, <2>5, <2>6 DEF EntryAt
<1>12. AreEntries(es, g, from, t)
  BY <1>7, <1>11 DEF AreEntries
<1> QED  BY <1>12 DEF g

(* Where reads began.                                                      *)
From == {r.from : r \in reads}

IInv == TInv /\ (WholeLines /\ UnixRead(log) => AreEntries(shown, log, From, offset))

(* An empty log has no entries.                                            *)
LEMMA InitEntries == Init => IInv
<1> SUFFICES ASSUME Init PROVE AreEntries(shown, log, From, offset)
  BY InitTyped DEF IInv
<1>1. offset = 0 /\ shown = <<>>
  BY DEF Init
<1>2. Heads(log, 0) = {}
  BY DEF Heads, Starts
<1>3. Cardinality(Heads(log, 0)) = 0
  BY <1>2, FS_EmptySet
<1> QED  BY <1>1, <1>2, <1>3 DEF AreEntries

(* Claude Code writes on, behind the entries or as the newline of the last. *)
LEMMA AppendEntries == IInv /\ AppendCell /\ TInv' => IInv'
<1> SUFFICES ASSUME IInv, AppendCell, TInv', WholeLines', UnixRead(log')
             PROVE  AreEntries(shown, log, From, offset)'
  BY DEF IInv
<1>1. PICK c \in Cell : log' = Append(log, c)
  BY DEF AppendCell
<1>2. offset' = offset /\ shown' = shown /\ reads' = reads
  BY DEF AppendCell
<1>3. /\ log \in Seq(Cell) /\ Len(log) \in Nat /\ offset \in Nat /\ offset <= Len(log) + 1
  BY DEF IInv, TInv, TypeOK
<1>4. /\ Len(log') = Len(log) + 1 /\ log'[Len(log) + 1] = c
      /\ \A n \in 1 .. Len(log) : log'[n] = log[n]
  BY <1>1, <1>3, AppendProperties
<1>5. UnixRead(log)
  <2> SUFFICES ASSUME NEW n \in 1 .. Len(log) - 1, log[n] = CR PROVE log[n + 1] # Newline
    BY DEF UnixRead
  <2>1. /\ n \in 1 .. Len(log') - 1 /\ n \in 1 .. Len(log) /\ n + 1 \in 1 .. Len(log)
    BY <1>3, <1>4
  <2>2. log'[n] = log[n] /\ log'[n + 1] = log[n + 1]
    BY <1>4, <2>1
  <2> QED  BY <2>1, <2>2 DEF UnixRead
<1>6. ASSUME NEW s \in Nat, s <= Len(log), LineStart(log', s) PROVE LineStart(log, s)
  <2>1. s # 0 => s \in 1 .. Len(log)
    BY <1>3, <1>6
  <2> QED  BY <2>1, <1>4, <1>6 DEF LineStart
<1>7. LineStart(log', offset)
  <2>1. LineStart(log', offset) \/ offset = Len(log') + 1
    BY <1>2 DEF WholeLines
  <2>2. offset # Len(log') + 1
    BY <1>3, <1>4
  <2> QED  BY <2>1, <2>2
<1>8. LineStart(log, offset) \/ offset = Len(log) + 1
  BY <1>3, <1>6, <1>7
<1>9. offset = Len(log) + 1 => c = Newline
  BY <1>3, <1>4, <1>7 DEF LineStart
<1>10. ASSUME NEW r \in reads PROVE LineStart(log, r.from) /\ r.from <= r.seen
  <2>1. LineStart(log', r.from) /\ r.from <= r.seen
    BY <1>2 DEF WholeLines
  <2>2. r.from \in Nat /\ r.seen \in 0 .. Len(log)
    BY DEF IInv, TInv, TypeOK
  <2>3. r.from <= Len(log)
    BY <2>1, <2>2, <1>3
  <2> QED  BY <2>1, <2>2, <2>3, <1>6
<1>11. WholeLines
  BY <1>8, <1>10 DEF WholeLines
<1>12. AreEntries(shown, log, From, offset)
  BY <1>5, <1>11 DEF IInv
<1>13. AreEntries(shown, Append(log, c), From, offset)
  BY <1>3, <1>8, <1>9, <1>12, EntriesStay
<1> QED  BY <1>1, <1>2, <1>13 DEF From

(* A read that began at the start of a line, behind all it had counted.     *)
LEMMA ScanEntries == IInv /\ Scan /\ TInv' => IInv'
<1> SUFFICES ASSUME IInv, Scan, TInv', WholeLines', UnixRead(log')
             PROVE  AreEntries(shown, log, From, offset)'
  BY DEF IInv
<1> DEFINE s == Scanned(log, offset, lineNum)[Len(log)]
<1>1. /\ log' = log /\ offset' = s.bytes /\ shown' = shown \o s.entries
      /\ reads' = (IF s.line = lineNum THEN reads
                   ELSE reads \cup {[from |-> offset, seen |-> seen]})
  BY DEF Scan
<1>2. /\ log \in Seq(Cell) /\ Len(log) \in Nat /\ Len(log) <= MaxLen /\ MaxLen \in Nat
      /\ offset \in Nat /\ offset <= Len(log) + 1
      /\ lineNum \in Nat /\ lineNum <= offset /\ lineNum = Cardinality(Counted)
      /\ shown \in Seq(Entry) /\ seen \in 0 .. Len(log)
  BY LogAssumption DEF IInv, TInv, TypeOK, ReadInv, Scan
<1>3. CASE s.line = lineNum
  <2>1. s.bytes = offset /\ s.entries = <<>>
    BY <1>2, <1>3, ReadOfNothing
  <2> HIDE DEF s
  <2>2. reads' = reads /\ offset' = offset /\ shown' = shown
    <3>1. shown \o <<>> = shown
      BY <1>2, ConcatEmptySeq
    <3> QED  BY <1>1, <1>3, <2>1, <3>1
  <2>3. WholeLines
    BY <1>1, <2>2 DEF WholeLines
  <2> QED  BY <1>1, <2>2, <2>3 DEF IInv, From
<1>4. CASE s.line # lineNum
  <2> DEFINE new == [from |-> offset, seen |-> seen]
             from == From \cup {offset}
  <2>1. reads' = reads \cup {new} /\ new.from = offset /\ new.seen = seen
    BY <1>1, <1>4
  <2>2. LineStart(log, offset) /\ offset <= seen
    BY <1>1, <2>1 DEF WholeLines
  <2>3. \A r \in reads : LineStart(log, r.from) /\ r.from <= r.seen
    BY <1>1, <2>1 DEF WholeLines
  <2>4. WholeLines
    BY <2>2, <2>3 DEF WholeLines
  <2>5. AreEntries(shown, log, From, offset)
    BY <1>1, <2>4 DEF IInv
  <2>6. From' = from
    <3>1. From' = {r.from : r \in reads \cup {new}}
      BY <2>1 DEF From
    <3> HIDE DEF new
    <3>2. {r.from : r \in reads \cup {new}} = {r.from : r \in reads} \cup {new.from}
      OBVIOUS
    <3> QED  BY <3>1, <3>2, <2>1 DEF From
  <2>7. AreEntries(shown, log, from, offset)
    <3> DEFINE H == Heads(log, offset)
    <3>1. ASSUME NEW h \in H PROVE More(log, from, h, offset) = More(log, From, h, offset)
      <4> DEFINE C == {c \in H \cup From : h < c}
                 E == {c \in H \cup from : h < c}
      <4>1. E = C \/ E = C \cup {offset}
        OBVIOUS
      <4>2. \A n \in Starts(log, offset) : n < offset
        BY <1>2, StartsAre
      <4>3. /\ More(log, from, h, offset) =
                  {n \in Starts(log, offset) : h < n /\ \A c \in E : n < c}
            /\ More(log, From, h, offset) =
                  {n \in Starts(log, offset) : h < n /\ \A c \in C : n < c}
        BY DEF More
      <4> HIDE DEF C, E
      <4> QED  BY <4>1, <4>2, <4>3
    <3>2. ASSUME NEW h \in H PROVE EntryAt(shown[Place(H, h)], log, from, h, offset)
      <4>1. EntryAt(shown[Place(H, h)], log, From, h, offset)
        BY <2>5 DEF AreEntries
      <4> QED  BY <4>1, <3>1, SameMore
    <3> QED  BY <2>5, <3>2 DEF AreEntries
  <2>8. offset <= Len(log) /\ lineNum + 1 = Number(log, offset)
    <3>1. offset <= Len(log)
      BY <1>2, <2>2
    <3>2. \A n \in 1 .. seen : n <= offset <=> n \in 1 .. offset
      BY <1>2
    <3>3. \A n \in 1 .. offset : n \in 1 .. seen
      BY <1>2, <2>2
    <3>4. Counted = {n \in 1 .. offset : log[n] = Newline}
      BY <3>2, <3>3 DEF Counted
    <3>5. Number(log, offset) = 1 + lineNum
      BY <1>2, <3>4 DEF Number
    <3> QED  BY <1>2, <3>1, <3>5
  <2>9. from \in SUBSET Nat /\ offset \in from /\ \A c \in from : c <= offset
    <3>1. \A r \in reads : r.from \in Nat /\ r.from <= offset
      BY DEF IInv, TInv, TypeOK, ReadInv
    <3>2. offset <= offset
      BY <1>2
    <3> QED  BY <3>1, <3>2, <1>2 DEF From
  <2> HIDE DEF from
  <2>10. InStep(log, offset, from, shown, s) \/ Behind(log, s)
    BY <1>1, <1>2, <2>2, <2>7, <2>8, <2>9, LogAssumption, ScannedInStep
  <2> HIDE DEF s
  <2>11. ~ Behind(log, s)
    <3> SUFFICES ASSUME Behind(log, s) PROVE FALSE
      OBVIOUS
    <3>1. offset' = Len(log) /\ Len(log) > 0 /\ log[Len(log)] = CR
      BY <1>1 DEF Behind
    <3>2. LineStart(log, offset') \/ offset' = Len(log) + 1
      BY <1>1 DEF WholeLines
    <3>3. CR # Newline
      BY LogAssumption
    <3> QED  BY <1>2, <3>1, <3>2, <3>3 DEF LineStart
  <2>12. InStep(log, offset, from, shown, s)
    BY <2>10, <2>11
  <2>13. s.bytes = s.at /\ AreEntries(shown \o s.entries, log, from, s.at)
    BY <2>12 DEF InStep, ReadTo
  <2> QED  BY <1>1, <2>6, <2>13
<1> QED  BY <1>3, <1>4

(* Every step keeps the entries shown those of the lines read.             *)
LEMMA NextEntries == IInv /\ [Next]_vars => IInv'
<1> SUFFICES ASSUME IInv, [Next]_vars PROVE IInv'
  OBVIOUS
<1>1. TInv'
  BY NextTyped DEF IInv
<1>2. CASE AppendCell
  BY <1>1, <1>2, AppendEntries
<1>3. CASE Scan
  BY <1>1, <1>3, ScanEntries
<1>4. CASE CountLinesBeforeOffset \/ UNCHANGED vars
  <2>1. log' = log /\ offset' = offset /\ shown' = shown /\ reads' = reads
    BY <1>4 DEF CountLinesBeforeOffset, vars
  <2>2. WholeLines' => WholeLines
    BY <2>1 DEF WholeLines
  <2>3. AreEntries(shown, log, From, offset) => AreEntries(shown, log, From, offset)'
    BY <2>1 DEF From
  <2> QED  BY <1>1, <2>1, <2>2, <2>3 DEF IInv
<1> QED  BY <1>2, <1>3, <1>4 DEF Next

(* However the log is cut into reads, the viewer has every entry of it once *)
(* and in order, with its line number and its continuation lines, as long   *)
(* as reads end between lines (debuglog.go: ReadDebugLogIncremental).       *)
THEOREM IncrementsAreWhole == Spec => []IncrementsAddUp
<1>1. IInv /\ UnixLines => UnixRead(log)
  <2> SUFFICES ASSUME IInv, UnixLines, NEW n \in 1 .. Len(log) - 1, log[n] = CR
               PROVE  log[n + 1] # Newline
    BY DEF UnixRead
  <2>1. log \in Seq(Cell)
    BY DEF IInv, TInv, TypeOK
  <2>2. n \in DOMAIN log
    BY <2>1
  <2> QED  BY <2>2 DEF UnixLines
<1>2. IInv => IncrementsAddUp
  BY <1>1 DEF IInv, IncrementsAddUp, From
<1> QED  BY <1>2, InitEntries, NextEntries, PTL DEF Spec

=============================================================================
