----------------------------- MODULE RolloutProofs -----------------------------
(***************************************************************************)
(* For rollouts of every length and any entries, a verdict is one that the *)
(* rollout gave while it was read, and a snapshot's final message is no    *)
(* older than its state.                                                   *)
(*                                                                         *)
(* A read that meets Codex in the middle of a line loses that entry, and   *)
(* may lose several.  The state it folds is then none that the rollout     *)
(* ever had.  What holds is less: its status is one that the rollout had   *)
(* since the read began, and so is its reviewer, at another moment maybe;  *)
(* and a claim is judged by one of the two.                                *)
(***************************************************************************)
EXTENDS Rollout, SequenceTheorems, FiniteSetTheorems, TLAPS

Status == {"idle", "running", "done", "interrupted", "error"}
State  == [status : Status, reviewer : {None, AutoReview}]
Reader == [pc : {"lines", "final"}, for : {"approval", "stopped", "snapshot"},
           at : Nat, torn : BOOLEAN, state : State]

TypeOK ==
    /\ log \in Seq(Entry) /\ half \in BOOLEAN
    /\ reader = Rest \/ reader \in Reader
    /\ snapshot = None \/ snapshot \in [status : Status, final : Nat, upto : Nat, size : Nat]

(* A part of the state that a read has folded is the one after some j      *)
(* entries: after all that it has passed, or since entry b.                *)
StatusSince(b) ==
    \E j \in 0 .. reader.at : /\ j = reader.at \/ j >= b
                              /\ reader.state.status = TruthAt(j).status

ReviewerSince(b) ==
    \E j \in 0 .. reader.at : /\ j = reader.at \/ j >= b
                              /\ reader.state.reviewer = TruthAt(j).reviewer

(* The read began when there were b entries.                               *)
Began(b) ==
    /\ \A j \in b .. Len(log) : TruthAt(j) \in truths
    /\ reader.torn => reader.at >= b
    /\ StatusSince(b) /\ ReviewerSince(b)

ReadInv ==
    reader # Rest => reader.at <= Len(log) /\ \E b \in 0 .. Len(log) : Began(b)

IInv ==
    /\ TypeOK /\ ReadInv /\ VerdictWasTrue /\ FinalNotOlder
    /\ snapshot # None => snapshot.upto <= Len(log)

----------------------------------------------------------------------------
(* What the rollout says. *)

LEMMA GreatestOf ==
    ASSUME NEW m \in Nat, NEW S \in SUBSET (0 .. m), S # {}
    PROVE  Max(S) \in S /\ \A k \in S : k <= Max(S)
<1> DEFINE T == {m - k : k \in S}
<1>1. \A k \in S : k \in 0 .. m
  OBVIOUS
<1>2. T \subseteq Nat /\ T # {}
  <2>1. \A k \in S : m - k \in Nat
    BY <1>1
  <2> QED  BY <2>1
<1>3. \E n \in T : \A k \in T : ~ (<<k, n>> \in OpToRel(<, Nat))
  BY <1>2, NatLessThanWellFounded, WFMin, Zenon
<1>4. PICK n \in T : \A k \in T : ~ (k < n)
  BY <1>2, <1>3 DEF OpToRel
<1>5. PICK x \in S : n = m - x
  BY <1>4
<1>6. ASSUME NEW k \in S PROVE x >= k
  <2>1. m - k \in T /\ m - k \in Int /\ n \in Int
    BY <1>1, <1>2, <1>4
  <2>2. ~ (m - k < n)
    BY <2>1, <1>4
  <2> QED  BY <1>1, <1>5, <2>1, <2>2
<1>7. \E y \in S : \A k \in S : y >= k
  BY <1>6
<1>8. Max(S) \in S /\ \A k \in S : Max(S) >= k
  BY <1>7 DEF Max
<1> QED  BY <1>1, <1>8

LEMMA NewestFacts ==
    ASSUME NEW n \in Nat, NEW S \in SUBSET (1 .. n)
    PROVE  /\ Newest(S) \in 0 .. n
           /\ S # {} => Newest(S) \in S /\ \A k \in S : k <= Newest(S)
           /\ S = {} => Newest(S) = 0
           /\ Newest(S \cup {n + 1}) = n + 1
<1>1. ASSUME S # {} PROVE Max(S) \in S /\ \A k \in S : k <= Max(S)
  BY <1>1, GreatestOf
<1>2. Max(S \cup {n + 1}) = n + 1
  <2> DEFINE T == S \cup {n + 1}
  <2>1. T \in SUBSET (0 .. n + 1) /\ T # {} /\ n + 1 \in Nat /\ n + 1 \in T
    OBVIOUS
  <2> HIDE DEF T
  <2>2. Max(T) \in T /\ n + 1 <= Max(T)
    BY <2>1, GreatestOf
  <2>3. Max(T) \in 0 .. n + 1
    BY <2>1, <2>2
  <2>4. Max(T) = n + 1
    BY <2>2, <2>3
  <2> QED  BY <2>4 DEF T
<1>3. Newest(S \cup {n + 1}) = n + 1
  <2>1. S \cup {n + 1} # {}
    OBVIOUS
  <2> QED  BY <1>2, <2>1, Zenon DEF Newest
<1>4. CASE S = {}
  <2>1. Newest(S) = 0
    BY <1>4 DEF Newest
  <2> QED  BY <1>3, <1>4, <2>1
<1>5. CASE S # {}
  <2>1. Newest(S) = Max(S)
    BY <1>5 DEF Newest
  <2>2. Newest(S) \in S /\ \A k \in S : k <= Newest(S)
    BY <1>1, <1>5, <2>1
  <2>3. Newest(S) \in 0 .. n
    <3>1. Newest(S) \in 1 .. n
      BY <2>2, Zenon
    <3>2. \A k \in 1 .. n : k \in 0 .. n
      OBVIOUS
    <3> QED  BY <3>1, <3>2
  <2> QED  BY <1>3, <1>5, <2>2, <2>3
<1> QED  BY <1>4, <1>5

LEMMA EntryFacts ==
    ASSUME NEW e \in Entry
    PROVE  /\ EntryStatus(e) \in Status \cup {NoSignal}
           /\ e.reviewer \in {None, AutoReview}
<1>1. e \in [kind : Kind, reviewer : {None, AutoReview}]
  BY RolloutAssumption
<1> QED  BY <1>1 DEF EntryStatus, Kind, Status, NoSignal

(* Before anything is written the rollout says Zero.                       *)
LEMMA TruthAtZero == TruthAt(0) = Zero
<1>1. 1 .. 0 = {}
  OBVIOUS
<1>2. {k \in 1 .. 0 : EntryStatus(log[k]) # NoSignal} = {} /\ {k \in 1 .. 0 : IsContext(log[k])} = {}
  BY <1>1
<1> QED  BY <1>2 DEF TruthAt, Newest, Zero

(* One line more: the fold of TrailingState takes what the line says.      *)
LEMMA TruthStep ==
    ASSUME TypeOK, NEW n \in Nat, n < Len(log)
    PROVE  TruthAt(n + 1) = Take(TruthAt(n), log[n + 1])
<1> DEFINE S(m) == {k \in 1 .. m : EntryStatus(log[k]) # NoSignal}
           C(m) == {k \in 1 .. m : IsContext(log[k])}
<1>1. S(n) \in SUBSET (1 .. n) /\ C(n) \in SUBSET (1 .. n)
  OBVIOUS
<1>2. /\ EntryStatus(log[n + 1]) # NoSignal => S(n + 1) = S(n) \cup {n + 1}
      /\ EntryStatus(log[n + 1]) = NoSignal => S(n + 1) = S(n)
      /\ IsContext(log[n + 1]) => C(n + 1) = C(n) \cup {n + 1}
      /\ ~ IsContext(log[n + 1]) => C(n + 1) = C(n)
  <2>1. 1 .. n + 1 = (1 .. n) \cup {n + 1}
    OBVIOUS
  <2> QED  BY <2>1
<1> DEFINE signal(m)  == Newest(S(m))
           context(m) == Newest(C(m))
<1>3. \A m : TruthAt(m) =
          [status   |-> IF signal(m) = 0 THEN "idle" ELSE EntryStatus(log[signal(m)]),
           reviewer |-> IF context(m) = 0 THEN None ELSE log[context(m)].reviewer]
  BY DEF TruthAt
<1>4. /\ EntryStatus(log[n + 1]) # NoSignal => signal(n + 1) = n + 1
      /\ EntryStatus(log[n + 1]) = NoSignal => signal(n + 1) = signal(n)
      /\ IsContext(log[n + 1]) => context(n + 1) = n + 1
      /\ ~ IsContext(log[n + 1]) => context(n + 1) = context(n)
  <2> HIDE DEF S, C
  <2> QED  BY <1>1, <1>2, NewestFacts
<1>5. n + 1 # 0
  OBVIOUS
<1> HIDE DEF signal, context
<1> QED  BY <1>3, <1>4, <1>5 DEF Take

LEMMA TruthType ==
    ASSUME TypeOK, NEW n \in Nat, n <= Len(log)
    PROVE  TruthAt(n) \in State
<1> DEFINE S == {k \in 1 .. n : EntryStatus(log[k]) # NoSignal}
           C == {k \in 1 .. n : IsContext(log[k])}
<1>1. S \in SUBSET (1 .. n) /\ C \in SUBSET (1 .. n)
  OBVIOUS
<1>2. \A k \in 1 .. n : log[k] \in Entry
  BY LenProperties, ElementOfSeq DEF TypeOK
<1>3. TruthAt(n) =
          [status   |-> IF Newest(S) = 0 THEN "idle" ELSE EntryStatus(log[Newest(S)]),
           reviewer |-> IF Newest(C) = 0 THEN None ELSE log[Newest(C)].reviewer]
  BY DEF TruthAt
<1>4. Newest(S) # 0 => EntryStatus(log[Newest(S)]) \in Status
  <2>1. Newest(S) # 0 => Newest(S) \in S
    <3> HIDE DEF S
    <3> QED  BY <1>1, NewestFacts
  <2> QED  BY <2>1, <1>2, EntryFacts
<1>5. Newest(C) # 0 => log[Newest(C)].reviewer \in {None, AutoReview}
  <2>1. Newest(C) # 0 => Newest(C) \in C
    <3> HIDE DEF C
    <3> QED  BY <1>1, NewestFacts
  <2> QED  BY <2>1, <1>2, EntryFacts
<1> HIDE DEF S, C
<1> QED  BY <1>3, <1>4, <1>5 DEF State, Status

(* What the first entries said stays as the rollout grows.                 *)
LEMMA TruthStays ==
    ASSUME TypeOK, NEW e \in Entry, log' = Append(log, e)
    PROVE  /\ Len(log) \in Nat /\ Len(log') = Len(log) + 1
           /\ \A k \in 1 .. Len(log) : log'[k] = log[k]
           /\ \A n \in 0 .. Len(log) : TruthAt(n)' = TruthAt(n)
<1>1. /\ Len(log) \in Nat /\ Len(log') = Len(log) + 1
      /\ \A k \in 1 .. Len(log) : log'[k] = log[k]
  BY LenProperties, AppendProperties DEF TypeOK
<1>2. ASSUME NEW n \in 0 .. Len(log) PROVE TruthAt(n)' = TruthAt(n)
  <2> DEFINE S == {k \in 1 .. n : EntryStatus(log[k]) # NoSignal}
             C == {k \in 1 .. n : IsContext(log[k])}
  <2>1. \A k \in 1 .. n : log'[k] = log[k]
    BY <1>1
  <2>2. /\ {k \in 1 .. n : EntryStatus(log'[k]) # NoSignal} = S
        /\ {k \in 1 .. n : IsContext(log'[k])} = C
    BY <2>1 DEF EntryStatus, IsContext
  <2>3. S \in SUBSET (1 .. n) /\ C \in SUBSET (1 .. n) /\ n \in Nat
    BY <1>1
  <2>4. /\ Newest(S) # 0 => Newest(S) \in 1 .. n
        /\ Newest(C) # 0 => Newest(C) \in 1 .. n
    <3> HIDE DEF S, C
    <3> QED  BY <2>3, NewestFacts
  <2>5. /\ Newest(S) # 0 => EntryStatus(log'[Newest(S)]) = EntryStatus(log[Newest(S)])
        /\ Newest(C) # 0 => log'[Newest(C)].reviewer = log[Newest(C)].reviewer
    <3> HIDE DEF S, C
    <3> QED  BY <2>1, <2>4 DEF EntryStatus
  <2> QED  BY <2>2, <2>5 DEF TruthAt
<1> QED  BY <1>1, <1>2

LEMMA TruthSame ==
    ASSUME log' = log
    PROVE  \A n : TruthAt(n)' = TruthAt(n)
<1> QED  BY DEF TruthAt, EntryStatus, IsContext

(* A stop is judged by the status alone, an approval by the reviewer, and  *)
(* any other claim by neither.                                             *)
LEMMA ReconcileBy ==
    ASSUME NEW c, NEW s, NEW t,
           c = "stopped" => s.status = t.status,
           c = "approval" => s.reviewer = t.reviewer
    PROVE  Reconcile(c, s) = Reconcile(c, t)
<1>1. CASE c = "stopped"
  BY <1>1 DEF Reconcile
<1>2. CASE c = "approval"
  BY <1>2 DEF Reconcile
<1>3. CASE c \notin {"stopped", "approval"}
  BY <1>3 DEF Reconcile
<1> QED  BY <1>1, <1>2, <1>3

----------------------------------------------------------------------------
(* Every step keeps the invariant. *)

LEMMA InitInv == Init => IInv
<1> SUFFICES ASSUME Init PROVE IInv
  OBVIOUS
<1>1. log \in Seq(Entry)
  BY EmptySeq DEF Init
<1> QED  BY <1>1 DEF Init, IInv, TypeOK, ReadInv, VerdictWasTrue, FinalNotOlder

LEMMA WriteHalfKeeps ==
    ASSUME IInv, WriteHalf
    PROVE  IInv'
<1> USE DEF IInv, WriteHalf
<1>1. TypeOK'
  BY DEF TypeOK
<1>2. ReadInv'
  BY TruthSame DEF ReadInv, Began, StatusSince, ReviewerSince
<1>3. VerdictWasTrue' /\ FinalNotOlder' /\ (snapshot # None => snapshot.upto <= Len(log))'
  BY DEF VerdictWasTrue, FinalNotOlder, InTail
<1> QED  BY <1>1, <1>2, <1>3

LEMMA WriteEntryKeeps ==
    ASSUME IInv, NEW e \in Entry, WriteEntry(e)
    PROVE  IInv'
<1>1. /\ Len(log) \in Nat /\ Len(log') = Len(log) + 1
      /\ \A k \in 1 .. Len(log) : log'[k] = log[k]
      /\ \A n \in 0 .. Len(log) : TruthAt(n)' = TruthAt(n)
  BY TruthStays DEF IInv, WriteEntry
<1>2. TypeOK'
  BY AppendProperties DEF IInv, TypeOK, WriteEntry
<1>3. truths \subseteq truths'
  BY DEF WriteEntry
<1>4. ReadInv'
  <2> SUFFICES ASSUME reader # Rest
               PROVE  reader.at <= Len(log') /\ \E b \in 0 .. Len(log') : Began(b)'
    BY DEF ReadInv, WriteEntry
  <2>1. reader' = reader /\ reader \in Reader /\ reader.at \in Nat
    BY DEF IInv, TypeOK, Reader, WriteEntry
  <2>2. reader.at <= Len(log) /\ \E b \in 0 .. Len(log) : Began(b)
    BY DEF IInv, ReadInv
  <2>3. PICK b \in 0 .. Len(log) : Began(b)
    BY <2>2
  <2>4. \A j \in b .. Len(log') : TruthAt(j)' \in truths'
    <3>1. TruthAt(Len(log))' \in truths'
      BY DEF WriteEntry, Truth
    <3>2. \A j \in b .. Len(log) : TruthAt(j)' \in truths'
      BY <1>1, <1>3, <2>3 DEF Began
    <3>3. \A j \in b .. Len(log') : j = Len(log') \/ j \in b .. Len(log)
      BY <1>1
    <3> QED  BY <3>1, <3>2, <3>3
  <2>5. \A j \in 0 .. reader.at : TruthAt(j)' = TruthAt(j)
    BY <1>1, <2>1, <2>2
  <2>6. StatusSince(b)' /\ ReviewerSince(b)'
    BY <2>1, <2>3, <2>5 DEF Began, StatusSince, ReviewerSince
  <2>7. reader'.torn => reader'.at >= b
    BY <2>1, <2>3 DEF Began
  <2>8. Began(b)'
    BY <2>4, <2>6, <2>7 DEF Began
  <2>9. reader.at <= Len(log') /\ b \in 0 .. Len(log')
    BY <1>1, <2>1, <2>2
  <2> QED  BY <2>8, <2>9
<1>5. VerdictWasTrue'
  BY <1>3 DEF IInv, VerdictWasTrue, WriteEntry
<1>6. snapshot # None => snapshot.upto \in Nat /\ snapshot.upto <= Len(log)
  BY DEF IInv, TypeOK
<1>7. FinalNotOlder'
  <2>1. snapshot # None => \A k \in 1 .. snapshot.upto : k \in 1 .. Len(log)
    BY <1>1, <1>6
  <2>2. snapshot' = snapshot
    BY DEF WriteEntry
  <2> QED  BY <1>1, <2>1, <2>2 DEF IInv, FinalNotOlder, InTail
<1>8. (snapshot # None => snapshot.upto <= Len(log))'
  BY <1>1, <1>6 DEF WriteEntry
<1> QED  BY <1>2, <1>4, <1>5, <1>7, <1>8 DEF IInv

(* The read starts with what is complete now, and it has folded nothing.   *)
LEMMA OpenKeeps ==
    ASSUME IInv, NEW p \in {"approval", "stopped", "snapshot"}, Open(p),
           log' = log, half' = half, truths' = {Truth}, snapshot' = None
    PROVE  IInv'
<1>1. Len(log) \in Nat
  BY LenProperties DEF IInv, TypeOK
<1>2. reader' \in Reader
  BY DEF Open, Reader, State, Zero, Status
<1>3. TypeOK'
  BY <1>2 DEF IInv, TypeOK
<1>4. Began(Len(log))'
  <2>1. TruthAt(0)' = Zero
    BY TruthAtZero, TruthSame
  <2>2. reader'.at = 0 /\ reader'.torn = FALSE /\ reader'.state = Zero
    BY DEF Open
  <2>3. \A j \in Len(log) .. Len(log) : TruthAt(j)' \in truths'
    BY <1>1, TruthSame DEF Truth
  <2>4. StatusSince(Len(log))' /\ ReviewerSince(Len(log))'
    BY <2>1, <2>2 DEF StatusSince, ReviewerSince
  <2> QED  BY <2>2, <2>3, <2>4 DEF Began
<1>5. reader'.at <= Len(log') /\ Len(log') \in 0 .. Len(log')
  BY <1>1 DEF Open
<1>6. ReadInv'
  BY <1>4, <1>5 DEF ReadInv
<1> QED  BY <1>3, <1>6 DEF IInv, VerdictWasTrue, FinalNotOlder, Open

LEMMA HookKeeps ==
    ASSUME IInv, NEW c \in Claim, Hook(c)
    PROVE  IInv'
<1>1. CASE NeedsEvidence(c)
  BY <1>1, OpenKeeps DEF Hook, NeedsEvidence
<1>2. CASE ~ NeedsEvidence(c)
  <2>1. /\ reader' = Rest /\ log' = log /\ half' = half /\ snapshot' = None /\ truths' = {Truth}
        /\ verdict' = [claim |-> c, answer |-> Reconcile(c, Zero), failed |-> FALSE]
    BY <1>2 DEF Hook
  <2>2. Reconcile(c, Zero) = Reconcile(c, Truth)
    BY <1>2, ReconcileBy DEF NeedsEvidence
  <2>3. VerdictWasTrue'
    BY <2>1, <2>2 DEF VerdictWasTrue
  <2> QED  BY <2>1, <2>3 DEF IInv, TypeOK, ReadInv, FinalNotOlder
<1> QED  BY <1>1, <1>2

LEMMA SessionSnapshotKeeps ==
    ASSUME IInv, SessionSnapshot
    PROVE  IInv'
<1> QED  BY OpenKeeps DEF SessionSnapshot


(* While the read goes on, only its own record changes.                    *)
LEMMA ReadingFacts ==
    ASSUME IInv, reader # Rest
    PROVE  /\ reader \in Reader /\ reader.at \in Nat /\ Len(log) \in Nat
           /\ reader.at <= Len(log) /\ \E b \in 0 .. Len(log) : Began(b)
<1> QED  BY LenProperties DEF IInv, TypeOK, ReadInv, Reader

LEMMA ReadingKeeps ==
    ASSUME IInv, UNCHANGED <<log, half, truths, verdict, snapshot>>,
           reader' \in Reader, reader'.at <= Len(log),
           NEW b \in 0 .. Len(log), Began(b)'
    PROVE  IInv'
<1>1. TypeOK'
  BY DEF IInv, TypeOK
<1>2. ReadInv'
  BY DEF ReadInv
<1> QED  BY <1>1, <1>2 DEF IInv, VerdictWasTrue, FinalNotOlder, InTail

LEMMA TakeType ==
    ASSUME NEW s \in State, NEW e \in Entry
    PROVE  Take(s, e) \in State
<1> QED  BY EntryFacts DEF Take, State

LEMMA ReadLineKeeps ==
    ASSUME IInv, ReadLine
    PROVE  IInv'
<1>1. reader # Rest /\ reader.at < Len(log)
  BY DEF ReadLine, Rest
<1>2. /\ reader \in Reader /\ reader.at \in Nat /\ Len(log) \in Nat
      /\ \E b \in 0 .. Len(log) : Began(b)
  BY <1>1, ReadingFacts
<1>3. PICK b \in 0 .. Len(log) : Began(b)
  BY <1>2
<1> DEFINE n == reader.at
           e == log[n + 1]
<1>4. /\ n \in Nat /\ n < Len(log) /\ e \in Entry
  BY <1>1, <1>2, LenProperties, ElementOfSeq DEF IInv, TypeOK
<1>5. /\ reader'.at = n + 1 /\ reader'.torn = FALSE
      /\ reader'.state = Take(reader.state, e)
      /\ reader.state \in State
  BY <1>2 DEF ReadLine, Reader
<1>6. reader' \in Reader
  <2>1. n + 1 \in Nat /\ Take(reader.state, e) \in State
    BY <1>4, <1>5, TakeType
  <2>2. reader' = [reader EXCEPT !.at = n + 1, !.state = Take(reader.state, e)]
    BY DEF ReadLine
  <2> HIDE DEF n, e
  <2> QED  BY <1>2, <2>1, <2>2 DEF Reader
<1>7. TruthAt(n + 1) = Take(TruthAt(n), e)
  BY <1>4, TruthStep DEF IInv
<1>8. \A m : TruthAt(m)' = TruthAt(m)
  BY TruthSame DEF ReadLine
<1>9. n + 1 \in 0 .. n + 1 /\ \A j \in 0 .. n : j \in 0 .. n + 1
  BY <1>4
<1> HIDE DEF e
<1>10. StatusSince(b)'
  <2>1. PICK j \in 0 .. n : (j = n \/ j >= b) /\ reader.state.status = TruthAt(j).status
    BY <1>3 DEF Began, StatusSince
  <2>2. SUFFICES \E i \in 0 .. n + 1 : /\ i = n + 1 \/ i >= b
                                       /\ Take(reader.state, e).status = TruthAt(i).status
    BY <1>5, <1>8 DEF StatusSince
  <2>3. CASE EntryStatus(e) # NoSignal
    <3>1. Take(reader.state, e).status = TruthAt(n + 1).status
      BY <1>7, <2>3 DEF Take
    <3> QED  BY <1>9, <3>1
  <2>4. CASE EntryStatus(e) = NoSignal /\ j = n
    <3>1. Take(reader.state, e).status = TruthAt(n + 1).status
      BY <1>7, <2>1, <2>4 DEF Take
    <3> QED  BY <1>9, <3>1
  <2>5. CASE EntryStatus(e) = NoSignal /\ j # n
    <3>1. Take(reader.state, e).status = TruthAt(j).status
      BY <2>1, <2>5 DEF Take
    <3> QED  BY <1>9, <2>1, <2>5, <3>1
  <2> QED  BY <2>3, <2>4, <2>5
<1>11. ReviewerSince(b)'
  <2>1. PICK j \in 0 .. n : (j = n \/ j >= b) /\ reader.state.reviewer = TruthAt(j).reviewer
    BY <1>3 DEF Began, ReviewerSince
  <2>2. SUFFICES \E i \in 0 .. n + 1 : /\ i = n + 1 \/ i >= b
                                       /\ Take(reader.state, e).reviewer = TruthAt(i).reviewer
    BY <1>5, <1>8 DEF ReviewerSince
  <2>3. CASE IsContext(e)
    <3>1. Take(reader.state, e).reviewer = TruthAt(n + 1).reviewer
      BY <1>7, <2>3 DEF Take
    <3> QED  BY <1>9, <3>1
  <2>4. CASE ~ IsContext(e) /\ j = n
    <3>1. Take(reader.state, e).reviewer = TruthAt(n + 1).reviewer
      BY <1>7, <2>1, <2>4 DEF Take
    <3> QED  BY <1>9, <3>1
  <2>5. CASE ~ IsContext(e) /\ j # n
    <3>1. Take(reader.state, e).reviewer = TruthAt(j).reviewer
      BY <2>1, <2>5 DEF Take
    <3> QED  BY <1>9, <2>1, <2>5, <3>1
  <2> QED  BY <2>3, <2>4, <2>5
<1>12. Began(b)'
  BY <1>3, <1>5, <1>8, <1>10, <1>11 DEF Began, ReadLine
<1>13. reader'.at <= Len(log)
  BY <1>4, <1>5, <1>2
<1> QED  BY <1>6, <1>12, <1>13, ReadingKeeps DEF ReadLine

(* The first part of an entry is met at the end, past where the read began.*)
LEMMA ReadFirstPartKeeps ==
    ASSUME IInv, ReadFirstPart
    PROVE  IInv'
<1>1. reader # Rest /\ reader.at = Len(log)
  BY DEF ReadFirstPart, Rest
<1>2. /\ reader \in Reader /\ reader.at \in Nat /\ Len(log) \in Nat
      /\ \E b \in 0 .. Len(log) : Began(b)
  BY <1>1, ReadingFacts
<1>3. PICK b \in 0 .. Len(log) : Began(b)
  BY <1>2
<1>4. reader' \in Reader /\ reader'.at = reader.at /\ reader'.state = reader.state
  BY <1>2 DEF ReadFirstPart, Reader
<1>5. \A m : TruthAt(m)' = TruthAt(m)
  BY TruthSame DEF ReadFirstPart
<1>6. reader.at >= b
  BY <1>1, <1>2
<1>7. StatusSince(b)' /\ ReviewerSince(b)'
  BY <1>3, <1>4, <1>5 DEF Began, StatusSince, ReviewerSince
<1>8. Began(b)'
  BY <1>3, <1>4, <1>5, <1>6, <1>7 DEF Began, ReadFirstPart
<1>9. reader'.at <= Len(log)
  BY <1>1, <1>2, <1>4
<1> QED  BY <1>4, <1>8, <1>9, ReadingKeeps DEF ReadFirstPart

(* An entry is lost: what was folded before it still is no older than b.   *)
LEMMA ReadRestKeeps ==
    ASSUME IInv, ReadRest
    PROVE  IInv'
<1>1. reader # Rest /\ reader.at < Len(log) /\ reader.torn
  BY DEF ReadRest, Rest
<1>2. /\ reader \in Reader /\ reader.at \in Nat /\ Len(log) \in Nat
      /\ \E b \in 0 .. Len(log) : Began(b)
  BY <1>1, ReadingFacts
<1>3. PICK b \in 0 .. Len(log) : Began(b)
  BY <1>2
<1> DEFINE n == reader.at
<1>4. /\ reader' \in Reader /\ reader'.at = n + 1 /\ reader'.torn = FALSE
      /\ reader'.state = reader.state
  <2>1. n + 1 \in Nat
    BY <1>2
  <2>2. reader' = [reader EXCEPT !.at = n + 1, !.torn = FALSE]
    BY DEF ReadRest
  <2> HIDE DEF n
  <2> QED  BY <1>2, <2>1, <2>2 DEF Reader
<1>5. \A m : TruthAt(m)' = TruthAt(m)
  BY TruthSame DEF ReadRest
<1>6. n >= b
  BY <1>1, <1>3 DEF Began
<1>7. \A j \in 0 .. n : j \in 0 .. n + 1
  BY <1>2
<1>8. StatusSince(b)'
  <2>1. PICK j \in 0 .. n : (j = n \/ j >= b) /\ reader.state.status = TruthAt(j).status
    BY <1>3 DEF Began, StatusSince
  <2>2. j >= b
    BY <1>6, <2>1
  <2> QED  BY <1>4, <1>5, <1>7, <2>1, <2>2 DEF StatusSince
<1>9. ReviewerSince(b)'
  <2>1. PICK j \in 0 .. n : (j = n \/ j >= b) /\ reader.state.reviewer = TruthAt(j).reviewer
    BY <1>3 DEF Began, ReviewerSince
  <2>2. j >= b
    BY <1>6, <2>1
  <2> QED  BY <1>4, <1>5, <1>7, <2>1, <2>2 DEF ReviewerSince
<1>10. Began(b)'
  BY <1>3, <1>4, <1>5, <1>8, <1>9 DEF Began, ReadRest
<1>11. reader'.at <= Len(log)
  BY <1>1, <1>2, <1>4
<1> QED  BY <1>4, <1>10, <1>11, ReadingKeeps DEF ReadRest

(* At the end of the file each part of the state is one of the truths.     *)
LEMMA EndOfFileKeeps ==
    ASSUME IInv, EndOfFile
    PROVE  IInv'
<1>1. reader # Rest /\ reader.at = Len(log)
  BY DEF EndOfFile, Rest
<1>2. /\ reader \in Reader /\ reader.at \in Nat /\ Len(log) \in Nat
      /\ \E b \in 0 .. Len(log) : Began(b)
  BY <1>1, ReadingFacts
<1>3. PICK b \in 0 .. Len(log) : Began(b)
  BY <1>2
<1>4. CASE reader.for = "snapshot"
  <2>1. /\ reader' \in Reader /\ reader'.at = reader.at
        /\ reader'.state = reader.state /\ reader'.torn = reader.torn
    BY <1>2, <1>4 DEF EndOfFile, Reader
  <2>2. \A m : TruthAt(m)' = TruthAt(m)
    BY TruthSame DEF EndOfFile
  <2>3. StatusSince(b)' /\ ReviewerSince(b)'
    BY <1>3, <2>1, <2>2 DEF Began, StatusSince, ReviewerSince
  <2>4. Began(b)'
    BY <1>3, <2>1, <2>2, <2>3 DEF Began, EndOfFile
  <2>5. reader'.at <= Len(log)
    BY <1>1, <1>2, <2>1
  <2> QED  BY <1>4, <2>1, <2>4, <2>5, ReadingKeeps DEF EndOfFile
<1>5. CASE reader.for # "snapshot"
  <2>1. reader' = Rest /\ Judge(reader.state, FALSE) /\ UNCHANGED <<log, half, truths, snapshot>>
    BY <1>5 DEF EndOfFile
  <2>2. reader.for \in {"approval", "stopped"}
    BY <1>2, <1>5 DEF Reader
  <2>3. \A j \in 0 .. Len(log) : j = Len(log) \/ j >= b => TruthAt(j) \in truths
    BY <1>2, <1>3 DEF Began
  <2>4. \E t \in truths : reader.state.status = t.status
    BY <1>1, <1>3, <2>3 DEF Began, StatusSince
  <2>5. \E t \in truths : reader.state.reviewer = t.reviewer
    BY <1>1, <1>3, <2>3 DEF Began, ReviewerSince
  <2>6. \E t \in truths : Reconcile(reader.for, reader.state) = Reconcile(reader.for, t)
    <3>1. CASE reader.for = "stopped"
      BY <2>4, <3>1, ReconcileBy
    <3>2. CASE reader.for = "approval"
      BY <2>5, <3>2, ReconcileBy
    <3> QED  BY <2>2, <3>1, <3>2
  <2>7. VerdictWasTrue'
    BY <2>1, <2>6 DEF VerdictWasTrue, Judge
  <2> QED  BY <2>1, <2>7 DEF IInv, TypeOK, ReadInv, FinalNotOlder, InTail
<1> QED  BY <1>4, <1>5

LEMMA ReadErrorKeeps ==
    ASSUME IInv, ReadError
    PROVE  IInv'
<1>1. reader' = Rest /\ UNCHANGED <<log, half, truths, snapshot>>
  BY DEF ReadError
<1>2. VerdictWasTrue'
  BY DEF ReadError, Judge, IInv, VerdictWasTrue
<1> QED  BY <1>1, <1>2 DEF IInv, TypeOK, ReadInv, FinalNotOlder, InTail

(* The final message is looked for in what is there by now.                *)
LEMMA FinalMessage ==
    ASSUME TypeOK, NEW size
    PROVE  /\ FinalAssistantMessage(size) \in Nat
           /\ \A k \in 1 .. Len(log) : log[k].kind = "answer" /\ InTail(k, size)
                                           => FinalAssistantMessage(size) >= k
<1> DEFINE said == {k \in DOMAIN log : log[k].kind = "answer" /\ InTail(k, size)}
<1>1. DOMAIN log = 1 .. Len(log) /\ Len(log) \in Nat
  BY LenProperties DEF TypeOK
<1>2. said \in SUBSET (0 .. Len(log))
  BY <1>1
<1>3. FinalAssistantMessage(size) = IF said = {} THEN 0 ELSE Max(said)
  BY DEF FinalAssistantMessage
<1>4. \A k \in 1 .. Len(log) : log[k].kind = "answer" /\ InTail(k, size) => k \in said
  BY <1>1
<1> HIDE DEF said
<1>5. CASE said = {}
  BY <1>3, <1>4, <1>5
<1>6. CASE said # {}
  <2>1. Max(said) \in said /\ \A k \in said : k <= Max(said)
    BY <1>1, <1>2, <1>6, GreatestOf
  <2>2. Max(said) \in Nat
    <3>1. said \subseteq Nat
      BY <1>2
    <3> QED  BY <2>1, <3>1, Zenon
  <2>3. \A k \in said : k \in Nat
    BY <1>2
  <2> QED  BY <1>3, <1>4, <1>6, <2>1, <2>2, <2>3
<1> QED  BY <1>5, <1>6

LEMMA ReadFinalKeeps ==
    ASSUME IInv, ReadFinal
    PROVE  IInv'
<1>1. reader # Rest
  BY DEF ReadFinal, Rest
<1>2. reader \in Reader /\ reader.at \in Nat /\ Len(log) \in Nat /\ reader.at <= Len(log)
  BY <1>1, ReadingFacts
<1>3. TypeOK
  BY DEF IInv
<1>4. Size \in Nat
  BY <1>2 DEF Size
<1>5. /\ snapshot' = [status |-> reader.state.status, final |-> FinalAssistantMessage(Size),
                      upto |-> reader.at, size |-> Size]
      /\ reader' = Rest /\ log' = log /\ half' = half /\ truths' = truths /\ verdict' = verdict
  BY DEF ReadFinal
<1>6. /\ FinalAssistantMessage(Size) \in Nat
      /\ \A k \in 1 .. Len(log) : log[k].kind = "answer" /\ InTail(k, Size)
                                      => FinalAssistantMessage(Size) >= k
  BY <1>3, FinalMessage
<1>7. snapshot' \in [status : Status, final : Nat, upto : Nat, size : Nat]
  BY <1>2, <1>4, <1>5, <1>6 DEF Reader, State
<1>8. FinalNotOlder'
  <2>1. \A k \in 1 .. reader.at : k \in 1 .. Len(log)
    BY <1>2
  <2>2. snapshot'.upto = reader.at /\ snapshot'.size = Size
        /\ snapshot'.final = FinalAssistantMessage(Size)
    BY <1>5
  <2> QED  BY <1>5, <1>6, <2>1, <2>2 DEF FinalNotOlder, InTail
<1>9. TypeOK'
  BY <1>3, <1>5, <1>7 DEF TypeOK
<1>10. (snapshot # None => snapshot.upto <= Len(log))'
  BY <1>2, <1>5
<1>11. ReadInv' /\ VerdictWasTrue'
  BY <1>5 DEF IInv, ReadInv, VerdictWasTrue
<1> QED  BY <1>8, <1>9, <1>10, <1>11 DEF IInv

LEMMA Stutters ==
    ASSUME IInv, UNCHANGED vars
    PROVE  IInv'
<1>1. \A m : TruthAt(m)' = TruthAt(m)
  BY TruthSame DEF vars
<1>2. ReadInv'
  BY <1>1 DEF IInv, vars, ReadInv, Began, StatusSince, ReviewerSince
<1> QED  BY <1>2 DEF IInv, vars, TypeOK, VerdictWasTrue, FinalNotOlder, InTail

----------------------------------------------------------------------------
THEOREM Invariant == Spec => []IInv
<1>1. Init => IInv
  BY InitInv
<1>2. ASSUME IInv, [Next]_vars PROVE IInv'
  BY <1>2, WriteHalfKeeps, WriteEntryKeeps, HookKeeps, SessionSnapshotKeeps, ReadLineKeeps,
     ReadFirstPartKeeps, ReadRestKeeps, EndOfFileKeeps, ReadErrorKeeps, ReadFinalKeeps,
     Stutters DEF Next
<1> QED  BY <1>1, <1>2, PTL DEF Spec

(* A verdict is one that the rollout gave at some moment of the read, for  *)
(* every rollout and every interleaving of its writer and the read         *)
(* (TrailingState and Reconcile).                                          *)
THEOREM VerdictIsTrue == Spec => []VerdictWasTrue
<1>1. IInv => VerdictWasTrue
  BY DEF IInv
<1> QED  BY Invariant, <1>1, PTL

(* However much is written between the two reads of SessionSnapshot, and   *)
(* wherever the window begins, the final message is no older than the      *)
(* state.                                                                  *)
THEOREM FinalIsNotOlder == Spec => []FinalNotOlder
<1>1. IInv => FinalNotOlder
  BY DEF IInv
<1> QED  BY Invariant, <1>1, PTL

================================================================================
