---------------------------- MODULE SessionProofs ----------------------------
(***************************************************************************)
(* What the program makes of a transcript, for transcripts of every length. *)
(*                                                                         *)
(* First the discovery scan: its verdict and its turn count are exact.  The *)
(* inductive invariant says what each variable of the scan remembers of the *)
(* transcript read so far.  An entry is an ending event, an activity or     *)
(* neither, and whether it is one depends only on the entries up to it, so  *)
(* reading one more leaves the classes of the others alone.                 *)
(*                                                                         *)
(* Then the viewer, which reads the whole transcript again whenever it has  *)
(* grown.  Each pass of ReadSession is a recursive function over a sequence *)
(* whose value at n depends on the first n elements only, so what was built *)
(* of the transcript before is still there when one entry more is read; the *)
(* inductive invariant says what holds of the chunks and of the open turn.  *)
(*                                                                         *)
(* Last the two verdicts: on an ordinary transcript the items the viewer    *)
(* shows are the answers of the transcript in their order, results put on   *)
(* calls, so IsOngoing reads the same work and endings as the scan.         *)
(***************************************************************************)
EXTENDS Session, FiniteSetTheorems, SequenceTheorems, WellFoundedInduction, TLAPS

(* THE DISCOVERY SCAN *)

(* Entry i asks to approve a shutdown.                                     *)
Asks(s, i) == Scanned(s[i]) /\ s[i].kind = "approval" /\ s[i].id # NoId

SomeWork(s)   == \E i \in 1 .. Len(s) : Works(s, i)
SomeEnding(s) == \E i \in 1 .. Len(s) : Ends(s, i)

HasAnyExact  == hasAny <=> SomeWork(read)
LastEndExact == lastEndingIndex # -1 <=> SomeEnding(read)
AfterExact   == hasAfter <=> SomeEnding(read) /\ WorkAfterLastEnding(read)
AskedExact   == \A x \in ToolId :
                    x \in shutdownIDs <=>
                    \E i \in 1 .. Len(read) : Asks(read, i) /\ read[i].id = x
PendingExact == \A x \in ToolId :
                    x \in pendingToolIDs <=>
                    \E i \in 1 .. Len(read) : Unanswered(read, i) /\ read[i].id = x

IInv == TypeOK /\ HasAnyExact /\ LastEndExact /\ AfterExact /\ AskedExact /\ PendingExact

----------------------------------------------------------------------------
(* An entry's fields are what AllEntries says.                             *)
LEMMA EntryFields ==
    ASSUME NEW e \in Entry
    PROVE  /\ e.id \in ToolId \cup {NoId}
           /\ e.kind \in Assistant \cup User \cup Others
           /\ e \in AllEntries
BY EntryAssumption DEF AllEntries

(* Reading one more entry keeps the earlier ones in place.                 *)
LEMMA ReadOneMore ==
    ASSUME NEW s \in Seq(Entry), NEW e \in Entry
    PROVE  /\ Append(s, e) \in Seq(Entry)
           /\ Len(s) \in Nat
           /\ Len(Append(s, e)) = Len(s) + 1
           /\ Append(s, e)[Len(s) + 1] = e
           /\ \A i \in 1 .. Len(s) : Append(s, e)[i] = s[i]
OBVIOUS

(* The class of an entry does not depend on what follows it.               *)
LEMMA ClassesStay ==
    ASSUME NEW s \in Seq(Entry), NEW e \in Entry, NEW i \in 1 .. Len(s)
    PROVE  /\ Ends(Append(s, e), i) <=> Ends(s, i)
           /\ Works(Append(s, e), i) <=> Works(s, i)
           /\ Asks(Append(s, e), i) <=> Asks(s, i)
<1> DEFINE t == Append(s, e)
<1>1. t[i] = s[i] /\ \A j \in 1 .. i - 1 : t[j] = s[j]
  BY ReadOneMore
<1>2. Approved(t, i) <=> Approved(s, i)
  BY <1>1 DEF Approved
<1>3. Ends(t, i) <=> Ends(s, i)
  BY <1>1, <1>2 DEF Ends
<1> QED
  BY <1>1, <1>3 DEF Works, Asks

(* Reading an entry that ends the work.                                    *)
LEMMA AfterEnding ==
    ASSUME NEW s \in Seq(Entry), NEW e \in Entry,
           Ends(Append(s, e), Len(s) + 1), ~ Works(Append(s, e), Len(s) + 1)
    PROVE  /\ SomeEnding(Append(s, e))
           /\ SomeWork(Append(s, e)) <=> SomeWork(s)
           /\ ~ WorkAfterLastEnding(Append(s, e))
<1> DEFINE t == Append(s, e)
           n == Len(s) + 1
<1>1. /\ Len(t) = n /\ n \in Nat /\ n - 1 = Len(s)
      /\ \A i \in 1 .. n : i = n \/ i \in 1 .. Len(s)
      /\ \A i \in 1 .. Len(s) : i \in 1 .. n /\ n \in i + 1 .. n
      /\ n \in 1 .. n
  BY ReadOneMore
<1>2. SomeEnding(t)
  BY <1>1 DEF SomeEnding
<1>3. SomeWork(t) <=> SomeWork(s)
  BY <1>1, ClassesStay DEF SomeWork
<1>4. ~ WorkAfterLastEnding(t)
  BY <1>1 DEF WorkAfterLastEnding
<1> QED
  BY <1>2, <1>3, <1>4

(* Reading an entry that is AI activity.                                   *)
LEMMA AfterActivity ==
    ASSUME NEW s \in Seq(Entry), NEW e \in Entry,
           Works(Append(s, e), Len(s) + 1), ~ Ends(Append(s, e), Len(s) + 1)
    PROVE  /\ SomeEnding(Append(s, e)) <=> SomeEnding(s)
           /\ SomeWork(Append(s, e))
           /\ WorkAfterLastEnding(Append(s, e))
<1> DEFINE t == Append(s, e)
           n == Len(s) + 1
<1>1. /\ Len(t) = n /\ n \in Nat
      /\ \A i \in 1 .. n : i = n \/ i \in 1 .. Len(s)
      /\ \A i \in 1 .. Len(s) : i \in 1 .. n
      /\ n \in 1 .. n /\ n + 1 .. n = {}
  BY ReadOneMore
<1>2. SomeEnding(t) <=> SomeEnding(s)
  BY <1>1, ClassesStay DEF SomeEnding
<1>3. SomeWork(t) /\ WorkAfterLastEnding(t)
  BY <1>1 DEF SomeWork, WorkAfterLastEnding
<1> QED
  BY <1>2, <1>3

(* Reading an entry that is neither.                                       *)
LEMMA AfterOther ==
    ASSUME NEW s \in Seq(Entry), NEW e \in Entry,
           ~ Works(Append(s, e), Len(s) + 1), ~ Ends(Append(s, e), Len(s) + 1)
    PROVE  /\ SomeEnding(Append(s, e)) <=> SomeEnding(s)
           /\ SomeWork(Append(s, e)) <=> SomeWork(s)
           /\ WorkAfterLastEnding(Append(s, e)) <=> WorkAfterLastEnding(s)
<1> DEFINE t == Append(s, e)
           n == Len(s) + 1
<1>1. /\ Len(t) = n /\ n \in Nat /\ Len(s) \in Nat
      /\ \A i \in 1 .. n : i = n \/ i \in 1 .. Len(s)
      /\ \A i \in 1 .. Len(s) : i \in 1 .. n
  BY ReadOneMore
<1>2. (SomeEnding(t) <=> SomeEnding(s)) /\ (SomeWork(t) <=> SomeWork(s))
  BY <1>1, ClassesStay DEF SomeEnding, SomeWork
<1>3. ASSUME NEW i \in 1 .. Len(s)
      PROVE  (\A j \in i + 1 .. n : ~ Ends(t, j)) <=>
             (\A j \in i + 1 .. Len(s) : ~ Ends(s, j))
  <2>1. \A j \in i + 1 .. n : j = n \/ j \in i + 1 .. Len(s)
    BY <1>1
  <2>2. \A j \in i + 1 .. Len(s) : j \in i + 1 .. n /\ j \in 1 .. Len(s)
    BY <1>1
  <2> QED
    BY <2>1, <2>2, ClassesStay
<1>4. WorkAfterLastEnding(t) <=> WorkAfterLastEnding(s)
  <2>1. WorkAfterLastEnding(t) <=>
        \E i \in 1 .. n : Works(t, i) /\ \A j \in i + 1 .. n : ~ Ends(t, j)
    BY <1>1 DEF WorkAfterLastEnding
  <2>2. WorkAfterLastEnding(t) <=>
        \E i \in 1 .. Len(s) : Works(t, i) /\ \A j \in i + 1 .. n : ~ Ends(t, j)
    BY <1>1, <2>1
  <2>3. WorkAfterLastEnding(t) <=>
        \E i \in 1 .. Len(s) : Works(s, i) /\ \A j \in i + 1 .. Len(s) : ~ Ends(s, j)
    BY <1>3, <2>2, ClassesStay
  <2> QED
    BY <2>3 DEF WorkAfterLastEnding
<1> QED
  BY <1>2, <1>4

----------------------------------------------------------------------------
(* Which of these an entry is, in terms of the scan's state.               *)
LEMMA NewEntryClass ==
    ASSUME NEW e \in Entry, IInv
    PROVE  LET t == Append(read, e)
               n == Len(read) + 1
           IN  /\ Ends(t, n) <=>
                    \/ Scanned(e) /\ e.kind = "text"
                    \/ Scanned(e) /\ e.kind \in {"plan", "approval"} /\ e.id # NoId
                    \/ e.kind = "interrupted"
                    \/ ResultOf(e) /\ (e.kind = "rejected" \/ e.id \in shutdownIDs)
               /\ Works(t, n) <=>
                    \/ Scanned(e) /\ e.kind \in {"thinking", "redacted"}
                    \/ Scanned(e) /\ e.kind \in {"tool", "agent"} /\ e.id # NoId
                    \/ ResultOf(e) /\ ~ Ends(t, n)
<1> DEFINE t == Append(read, e)
           n == Len(read) + 1
<1>1. /\ read \in Seq(Entry) /\ Len(read) \in Nat /\ n - 1 = Len(read)
      /\ t[n] = e
      /\ \A j \in 1 .. n - 1 : t[j] = read[j]
  BY ReadOneMore DEF IInv, TypeOK
<1>2. ASSUME ResultOf(e)
      PROVE  Approved(t, n) <=> e.id \in shutdownIDs
  <2>1. e.id \in ToolId /\ e.id # NoId
    BY <1>2, EntryFields DEF ResultOf
  <2>2. Approved(t, n) <=> \E j \in 1 .. Len(read) : Asks(read, j) /\ read[j].id = e.id
    BY <1>1, <2>1 DEF Approved, Asks
  <2> QED
    BY <2>1, <2>2 DEF IInv, AskedExact
<1>3. Ends(t, n) <=>
         \/ Scanned(e) /\ e.kind = "text"
         \/ Scanned(e) /\ e.kind \in {"plan", "approval"} /\ e.id # NoId
         \/ e.kind = "interrupted"
         \/ ResultOf(e) /\ (e.kind = "rejected" \/ e.id \in shutdownIDs)
  BY <1>1, <1>2 DEF Ends
<1>4. Works(t, n) <=>
         \/ Scanned(e) /\ e.kind \in {"thinking", "redacted"}
         \/ Scanned(e) /\ e.kind \in {"tool", "agent"} /\ e.id # NoId
         \/ ResultOf(e) /\ ~ Ends(t, n)
  BY <1>1 DEF Works
<1> QED
  BY <1>3, <1>4

(* Every action reads one entry, and moves the flags as its class demands.  *)
LEMMA ScanByClass ==
    ASSUME NEW e \in Entry, IInv, Scan(e)
    PROVE  LET t == Append(read, e)
               n == Len(read) + 1
           IN  /\ Reading(e)
               /\ \/ Ends(t, n) /\ ~ Works(t, n) /\ Ending
                  \/ Works(t, n) /\ ~ Ends(t, n) /\ Activity
                  \/ ~ Works(t, n) /\ ~ Ends(t, n) /\ UNCHANGED flags
<1> DEFINE E == Ends(Append(read, e), Len(read) + 1)
           W == Works(Append(read, e), Len(read) + 1)
<1> SUFFICES /\ Reading(e)
             /\ \/ E /\ ~ W /\ Ending
                \/ W /\ ~ E /\ Activity
                \/ ~ W /\ ~ E /\ UNCHANGED flags
  OBVIOUS
<1>1. /\ E <=> \/ Scanned(e) /\ e.kind = "text"
               \/ Scanned(e) /\ e.kind \in {"plan", "approval"} /\ e.id # NoId
               \/ e.kind = "interrupted"
               \/ ResultOf(e) /\ (e.kind = "rejected" \/ e.id \in shutdownIDs)
      /\ W <=> \/ Scanned(e) /\ e.kind \in {"thinking", "redacted"}
               \/ Scanned(e) /\ e.kind \in {"tool", "agent"} /\ e.id # NoId
               \/ ResultOf(e) /\ ~ E
  BY NewEntryClass
<1> HIDE DEF E, W
<1> USE <1>1 DEF Scanned, ResultOf, Results
<1>2. CASE Thinking(e)
  BY <1>2 DEF Thinking
<1>3. CASE TextOutput(e)
  BY <1>3 DEF TextOutput
<1>4. CASE ToolUse(e)
  BY <1>4 DEF ToolUse
<1>5. CASE ExitPlanMode(e)
  BY <1>5 DEF ExitPlanMode
<1>6. CASE ShutdownApproval(e)
  BY <1>6 DEF ShutdownApproval
<1>7. CASE ToolResult(e)
  BY <1>7 DEF ToolResult, Assistant, Spoken, Calls
<1>8. CASE Interruption(e)
  BY <1>8 DEF Interruption, Assistant, Spoken, Calls
<1>9. CASE Skip(e)
  BY <1>9 DEF Skip, Ignored, Assistant, Spoken, Calls, User, Others
<1> QED
  BY <1>2, <1>3, <1>4, <1>5, <1>6, <1>7, <1>8, <1>9 DEF Scan

(* The shutdown approvals and pending calls move with the entry read.      *)
LEMMA ScanOfIds ==
    ASSUME NEW e \in Entry, IInv, Scan(e)
    PROVE  /\ shutdownIDs' =
                IF Scanned(e) /\ e.kind = "approval" /\ e.id # NoId
                THEN shutdownIDs \cup {e.id} ELSE shutdownIDs
           /\ pendingToolIDs' =
                IF Scanned(e) /\ e.kind \in {"tool", "agent"} /\ e.id # NoId
                THEN pendingToolIDs \cup {e.id}
                ELSE IF e.kind = "interrupted" THEN {}
                ELSE IF ResultOf(e) THEN pendingToolIDs \ {e.id}
                ELSE pendingToolIDs
<1> USE DEF Scanned, ResultOf, Results
<1>2. CASE Thinking(e)
  BY <1>2 DEF Thinking
<1>3. CASE TextOutput(e)
  BY <1>3 DEF TextOutput
<1>4. CASE ToolUse(e)
  BY <1>4 DEF ToolUse
<1>5. CASE ExitPlanMode(e)
  BY <1>5 DEF ExitPlanMode
<1>6. CASE ShutdownApproval(e)
  BY <1>6 DEF ShutdownApproval
<1>7. CASE ToolResult(e)
  BY <1>7 DEF ToolResult, Assistant, Spoken, Calls
<1>8. CASE Interruption(e)
  BY <1>8 DEF Interruption, Assistant, Spoken, Calls
<1>9. CASE Skip(e)
  BY <1>9 DEF Skip, Ignored, Assistant, Spoken, Calls, User, Others
<1> QED
  BY <1>2, <1>3, <1>4, <1>5, <1>6, <1>7, <1>8, <1>9 DEF Scan

(* One more entry keeps the type invariant.                                *)
LEMMA ScanTypeOK ==
    ASSUME NEW e \in Entry, IInv, Scan(e)
    PROVE  TypeOK'
<1>1. /\ read' = Append(read, e) /\ CountTurn(e)
      /\ Ending \/ Activity \/ UNCHANGED flags
  BY ScanByClass DEF Reading
<1>2. read' \in Seq(Entry)
  BY <1>1, ReadOneMore DEF IInv, TypeOK
<1>3. turnCount' \in Nat /\ awaitingAIGroup' \in BOOLEAN
  BY <1>1 DEF CountTurn, IInv, TypeOK
<1>4. /\ activityIndex' \in Nat /\ lastEndingIndex' \in Nat \cup {-1}
  BY <1>1 DEF Ending, Activity, flags, IInv, TypeOK
<1>5. hasAny' \in BOOLEAN
  BY <1>1 DEF Ending, Activity, flags, IInv, TypeOK
<1>6. hasAfter' \in BOOLEAN
  BY <1>1 DEF Ending, Activity, flags, IInv, TypeOK
<1>7. shutdownIDs' \subseteq ToolId /\ pendingToolIDs' \subseteq ToolId
  BY ScanOfIds, EntryFields DEF ResultOf, IInv, TypeOK
<1> QED
  BY <1>2, <1>3, <1>4, <1>5, <1>6, <1>7 DEF TypeOK

(* One more entry keeps what the flags remember.                           *)
LEMMA ScanFlags ==
    ASSUME NEW e \in Entry, IInv, Scan(e)
    PROVE  HasAnyExact' /\ LastEndExact' /\ AfterExact'
<1> DEFINE t == Append(read, e)
           n == Len(read) + 1
<1>1. /\ read' = t /\ read \in Seq(Entry)
      /\ activityIndex \in Nat /\ lastEndingIndex \in Nat \cup {-1}
      /\ hasAny \in BOOLEAN /\ hasAfter \in BOOLEAN
  BY ScanByClass DEF Reading, IInv, TypeOK
<1>2. /\ hasAny <=> SomeWork(read)
      /\ lastEndingIndex # -1 <=> SomeEnding(read)
      /\ hasAfter <=> SomeEnding(read) /\ WorkAfterLastEnding(read)
  BY DEF IInv, HasAnyExact, LastEndExact, AfterExact
<1>3. CASE Ends(t, n) /\ ~ Works(t, n) /\ Ending
  <2>1. SomeEnding(t) /\ (SomeWork(t) <=> SomeWork(read)) /\ ~ WorkAfterLastEnding(t)
    BY <1>1, <1>3, AfterEnding
  <2>2. lastEndingIndex' # -1 /\ hasAfter' = FALSE /\ hasAny' = hasAny
    BY <1>1, <1>3 DEF Ending
  <2> QED
    BY <1>1, <1>2, <2>1, <2>2 DEF HasAnyExact, LastEndExact, AfterExact
<1>4. CASE Works(t, n) /\ ~ Ends(t, n) /\ Activity
  <2>1. (SomeEnding(t) <=> SomeEnding(read)) /\ SomeWork(t) /\ WorkAfterLastEnding(t)
    BY <1>1, <1>4, AfterActivity
  <2>2. /\ lastEndingIndex' = lastEndingIndex /\ hasAny' = TRUE
        /\ hasAfter' <=> hasAfter \/ lastEndingIndex # -1
    <3>1. lastEndingIndex >= 0 <=> lastEndingIndex # -1
      BY <1>1
    <3> QED
      BY <1>4, <3>1, Zenon DEF Activity
  <2> QED
    BY <1>1, <1>2, <2>1, <2>2 DEF HasAnyExact, LastEndExact, AfterExact
<1>5. CASE ~ Works(t, n) /\ ~ Ends(t, n) /\ UNCHANGED flags
  <2>1. /\ SomeEnding(t) <=> SomeEnding(read)
        /\ SomeWork(t) <=> SomeWork(read)
        /\ WorkAfterLastEnding(t) <=> WorkAfterLastEnding(read)
    BY <1>1, <1>5, AfterOther
  <2> QED
    BY <1>1, <1>2, <1>5, <2>1 DEF HasAnyExact, LastEndExact, AfterExact, flags
<1> QED
  BY <1>3, <1>4, <1>5, ScanByClass

(* One more entry keeps what the shutdown approvals remember.              *)
LEMMA ScanAsked ==
    ASSUME NEW e \in Entry, IInv, Scan(e)
    PROVE  AskedExact'
<1> DEFINE t == Append(read, e)
           n == Len(read) + 1
<1>1. /\ read' = t /\ read \in Seq(Entry) /\ Len(t) = n /\ t[n] = e /\ n \in 1 .. n
      /\ \A i \in 1 .. n : i = n \/ i \in 1 .. Len(read)
      /\ \A i \in 1 .. Len(read) : i \in 1 .. n /\ t[i] = read[i]
  BY ScanByClass, ReadOneMore DEF Reading, IInv, TypeOK
<1>2. Asks(t, n) <=> Scanned(e) /\ e.kind = "approval" /\ e.id # NoId
  BY <1>1 DEF Asks
<1>3. ASSUME NEW x \in ToolId
      PROVE  x \in shutdownIDs' <=> \E i \in 1 .. Len(t) : Asks(t, i) /\ t[i].id = x
  <2>1. x \in shutdownIDs <=> \E i \in 1 .. Len(read) : Asks(read, i) /\ read[i].id = x
    BY DEF IInv, AskedExact
  <2>2. (\E i \in 1 .. Len(t) : Asks(t, i) /\ t[i].id = x) <=>
           \/ \E i \in 1 .. Len(read) : Asks(read, i) /\ read[i].id = x
           \/ Asks(t, n) /\ e.id = x
    BY <1>1, ClassesStay
  <2>3. x \in shutdownIDs' <=> x \in shutdownIDs \/ (Asks(t, n) /\ e.id = x)
    BY <1>2, ScanOfIds
  <2> QED
    BY <2>1, <2>2, <2>3
<1> QED
  BY <1>1, <1>3 DEF AskedExact

(* One more entry keeps what the pending calls remember.                   *)
LEMMA ScanPending ==
    ASSUME NEW e \in Entry, IInv, Scan(e)
    PROVE  PendingExact'
<1> DEFINE t == Append(read, e)
           n == Len(read) + 1
           Calling == Scanned(e) /\ e.kind \in {"tool", "agent"} /\ e.id # NoId
           Answers(x) == e.kind = "interrupted" \/ (ResultOf(e) /\ e.id = x)
<1>1. /\ read' = t /\ read \in Seq(Entry) /\ Len(read) \in Nat
      /\ Len(t) = n /\ t[n] = e /\ n \in 1 .. n /\ n + 1 .. n = {}
      /\ \A i \in 1 .. n : i = n \/ i \in 1 .. Len(read)
      /\ \A i \in 1 .. Len(read) : i \in 1 .. n /\ n \in i + 1 .. n /\ t[i] = read[i]
  BY ScanByClass, ReadOneMore DEF Reading, IInv, TypeOK
<1>2. Unanswered(t, n) <=> Calling
  BY <1>1 DEF Unanswered
<1>3. ASSUME NEW i \in 1 .. Len(read)
      PROVE  Unanswered(t, i) <=> Unanswered(read, i) /\ ~ Answers(read[i].id)
  <2>1. \A j \in i + 1 .. n : j = n \/ j \in i + 1 .. Len(read)
    BY <1>1
  <2>2. \A j \in i + 1 .. Len(read) : j \in i + 1 .. n /\ t[j] = read[j]
    BY <1>1
  <2>3. t[i] = read[i] /\ n \in i + 1 .. n
    BY <1>1
  <2> QED
    BY <1>1, <2>1, <2>2, <2>3 DEF Unanswered
<1>4. ASSUME NEW x \in ToolId
      PROVE  x \in pendingToolIDs' <=> \E i \in 1 .. Len(t) : Unanswered(t, i) /\ t[i].id = x
  <2>1. x \in pendingToolIDs <=>
        \E i \in 1 .. Len(read) : Unanswered(read, i) /\ read[i].id = x
    BY DEF IInv, PendingExact
  <2>2. (\E i \in 1 .. Len(t) : Unanswered(t, i) /\ t[i].id = x) <=>
           \/ (\E i \in 1 .. Len(read) : Unanswered(read, i) /\ read[i].id = x) /\ ~ Answers(x)
           \/ Calling /\ e.id = x
    BY <1>1, <1>2, <1>3
  <2>3. Calling => ~ ResultOf(e) /\ e.kind # "interrupted"
    BY DEF ResultOf, Results
  <2>4. x \in pendingToolIDs' <=>
           (x \in pendingToolIDs /\ ~ Answers(x)) \/ (Calling /\ e.id = x)
    BY <2>3, ScanOfIds
  <2> QED
    BY <2>1, <2>2, <2>4
<1> QED
  BY <1>1, <1>4 DEF PendingExact

----------------------------------------------------------------------------
(* An empty transcript satisfies the invariant.                            *)
LEMMA InitIInv == Init => IInv
<1> SUFFICES ASSUME Init PROVE IInv
  OBVIOUS
<1>1. read = <<>> /\ Len(read) = 0 /\ 1 .. Len(read) = {}
  BY DEF Init
<1>2. read \in Seq(Entry)
  BY <1>1
<1>3. TypeOK
  BY <1>2 DEF Init, TypeOK
<1>4. HasAnyExact /\ LastEndExact /\ AfterExact
  BY <1>1 DEF Init, HasAnyExact, LastEndExact, AfterExact, SomeWork, SomeEnding
<1>5. AskedExact /\ PendingExact
  BY <1>1 DEF Init, AskedExact, PendingExact
<1> QED
  BY <1>3, <1>4, <1>5 DEF IInv

(* Every step of the scan keeps it.                                        *)
LEMMA NextIInv == IInv /\ [Next]_vars => IInv'
<1> SUFFICES ASSUME IInv, [Next]_vars PROVE IInv'
  OBVIOUS
<1>1. CASE Next
  <2>1. PICK e \in Entry : Scan(e)
    BY <1>1 DEF Next
  <2> QED
    BY <2>1, ScanTypeOK, ScanFlags, ScanAsked, ScanPending DEF IInv
<1>2. CASE UNCHANGED vars
  BY <1>2 DEF vars, turns, flags, IInv, TypeOK, HasAnyExact, LastEndExact, AfterExact,
              AskedExact, PendingExact
<1> QED
  BY <1>1, <1>2

(* What the variables remember makes the verdict exact.                    *)
LEMMA IInvVerdict == IInv => VerdictExact
<1> SUFFICES ASSUME IInv PROVE VerdictExact
  OBVIOUS
<1>1. /\ read \in Seq(Entry) /\ Len(read) \in Nat
      /\ \A i \in 1 .. Len(read) : read[i] \in Entry
      /\ pendingToolIDs \subseteq ToolId
  BY DEF IInv, TypeOK
<1>2. pendingToolIDs # {} <=> AwaitsResult(read)
  <2>1. \A i \in 1 .. Len(read) : Unanswered(read, i) => read[i].id \in ToolId
    BY <1>1, EntryFields DEF Unanswered
  <2> QED
    BY <1>1, <2>1 DEF AwaitsResult, IInv, PendingExact
<1>3. (IF lastEndingIndex = -1 THEN hasAny ELSE hasAfter) <=> WorkAfterLastEnding(read)
  <2>1. CASE lastEndingIndex = -1
    <3>1. ~ SomeEnding(read)
      BY <2>1 DEF IInv, LastEndExact
    <3>2. \A i \in 1 .. Len(read) : \A j \in i + 1 .. Len(read) : j \in 1 .. Len(read)
      BY <1>1
    <3>3. WorkAfterLastEnding(read) <=> SomeWork(read)
      BY <3>1, <3>2 DEF SomeEnding, SomeWork, WorkAfterLastEnding
    <3> QED
      BY <2>1, <3>3, Zenon DEF IInv, HasAnyExact
  <2>2. CASE lastEndingIndex # -1
    BY <2>2, Zenon DEF IInv, LastEndExact, AfterExact
  <2> QED
    BY <2>1, <2>2
<1> QED
  BY <1>2, <1>3, Zenon DEF VerdictExact, IsOngoing

(* An interruption with no activity after it is followed by no work, and    *)
(* has answered every call before it.                                       *)
LEMMA IInvInterruption == IInv => InterruptionSettles
<1> SUFFICES ASSUME IInv,
                    NEW i \in 1 .. Len(read), read[i].kind = "interrupted",
                    \A j \in i + 1 .. Len(read) : ~ Works(read, j)
             PROVE  ~ IsOngoing
  BY DEF InterruptionSettles
<1>1. read \in Seq(Entry) /\ Len(read) \in Nat
  BY DEF IInv, TypeOK
<1>2. Ends(read, i)
  BY DEF Ends
<1>3. ASSUME NEW k \in 1 .. Len(read), Works(read, k)
      PROVE  k < i
  <2>1. ~ Works(read, i)
    BY <1>2 DEF Works, Scanned, Assistant, Spoken, Calls
  <2> QED
    BY <1>1, <1>3, <2>1
<1>4. ~ WorkAfterLastEnding(read)
  <2>1. \A k \in 1 .. Len(read) : k < i => i \in k + 1 .. Len(read)
    BY <1>1
  <2> QED
    BY <1>2, <1>3, <2>1 DEF WorkAfterLastEnding
<1>5. ~ AwaitsResult(read)
  <2>1. \A k \in 1 .. Len(read) : Unanswered(read, k) => Works(read, k)
    BY DEF Unanswered, Works
  <2>2. \A k \in 1 .. Len(read) : k < i => i \in k + 1 .. Len(read)
    BY <1>1
  <2> QED
    BY <1>3, <2>1, <2>2 DEF AwaitsResult, Unanswered
<1> QED
  BY <1>4, <1>5, IInvVerdict, Zenon DEF VerdictExact

(* The scan's state is well-typed, whatever transcript it reads.            *)
THEOREM ScanTypeCorrect == Spec => []TypeOK
<1>1. IInv => TypeOK
  BY DEF IInv
<1> QED
  BY <1>1, InitIInv, NextIInv, PTL DEF Spec

(* For transcripts of every length and every set of tool ids, the one-pass  *)
(* verdict is the one the whole transcript gives: AI activity after the     *)
(* last ending event, or a tool call that still awaits its result.          *)
THEOREM VerdictIsExact == Spec => []VerdictExact
  BY InitIInv, NextIInv, IInvVerdict, PTL DEF Spec

(* After an interruption nothing is ongoing until the AI is active again.   *)
THEOREM InterruptionsSettle == Spec => []InterruptionSettles
  BY InitIInv, NextIInv, IInvInterruption, PTL DEF Spec

----------------------------------------------------------------------------
(* Counting the turns: one more entry opens a turn, answers the open one,  *)
(* or leaves the counts alone.                                             *)
SentIn(s)     == {i \in 1 .. Len(s) : IsUserTurn(s[i])}
AnswersTo(s, i) == \E k \in i + 1 .. Len(s) :
                    /\ IsAnswer(s[k])
                    /\ \A j \in i + 1 .. k : j \notin SentIn(s)
AnsweredIn(s) == {i \in SentIn(s) : AnswersTo(s, i)}
Open(s)       == \E i \in SentIn(s) \ AnsweredIn(s) : \A j \in SentIn(s) : j <= i

TurnInv ==
    /\ turnCount = Cardinality(SentIn(read)) + Cardinality(AnsweredIn(read))
    /\ awaitingAIGroup <=> Open(read)

CountInv == IInv /\ TurnInv

(* What is sent, and when an earlier turn is answered, after one entry more.*)
LEMMA SentOneMore ==
    ASSUME NEW s \in Seq(Entry), NEW e \in Entry
    PROVE  LET t == Append(s, e)
               n == Len(s) + 1
           IN  /\ SentIn(t) = IF IsUserTurn(e) THEN SentIn(s) \cup {n} ELSE SentIn(s)
               /\ n \in Nat /\ ~ AnswersTo(t, n)
               /\ \A i \in SentIn(s) :
                     /\ i \in 1 .. Len(s) /\ i # n
                     /\ AnswersTo(t, i) <=>
                          \/ AnswersTo(s, i)
                          \/ /\ IsAnswer(e) /\ ~ IsUserTurn(e)
                             /\ \A j \in SentIn(s) : j <= i
<1> DEFINE t == Append(s, e)
           n == Len(s) + 1
<1>1. /\ Len(t) = n /\ n \in Nat /\ Len(s) \in Nat /\ t[n] = e
      /\ \A i \in 1 .. n : i = n \/ i \in 1 .. Len(s)
      /\ \A i \in 1 .. Len(s) : i \in 1 .. n /\ t[i] = s[i] /\ i # n
      /\ n \in 1 .. n /\ n + 1 .. n = {}
  BY ReadOneMore
<1>2. SentIn(t) = IF IsUserTurn(e) THEN SentIn(s) \cup {n} ELSE SentIn(s)
  BY <1>1 DEF SentIn
<1>3. ~ AnswersTo(t, n)
  BY <1>1 DEF AnswersTo
<1>4. SentIn(s) \subseteq 1 .. Len(s)
  BY DEF SentIn
<1>5. \A j \in 1 .. Len(s) : j \in SentIn(t) <=> j \in SentIn(s)
  BY <1>1, <1>2
<1>6. n \in SentIn(t) <=> IsUserTurn(e)
  BY <1>1, <1>2, <1>4
<1> HIDE DEF t
<1>7. ASSUME NEW i \in SentIn(s)
      PROVE  AnswersTo(t, i) <=>
                \/ AnswersTo(s, i)
                \/ IsAnswer(e) /\ ~ IsUserTurn(e) /\ \A j \in SentIn(s) : j <= i
  <2>1. i \in 1 .. Len(s) /\ n \in i + 1 .. n
    BY <1>1, <1>4
  <2>2. \A k \in i + 1 .. n : k = n \/ k \in i + 1 .. Len(s)
    BY <1>1, <2>1
  <2>3. \A k \in i + 1 .. Len(s) : /\ k \in i + 1 .. n /\ k \in 1 .. Len(s)
                                   /\ \A j \in i + 1 .. k : j \in 1 .. Len(s)
    BY <1>1, <2>1
  <2>4. ASSUME NEW k \in i + 1 .. Len(s)
        PROVE  /\ IsAnswer(t[k]) <=> IsAnswer(s[k])
               /\ (\A j \in i + 1 .. k : j \notin SentIn(t)) <=>
                  (\A j \in i + 1 .. k : j \notin SentIn(s))
    BY <1>1, <1>5, <2>3
  <2>5. (\A j \in i + 1 .. n : j \notin SentIn(t)) <=>
           ~ IsUserTurn(e) /\ \A j \in SentIn(s) : j <= i
    <3>1. \A j \in SentIn(s) : j \in 1 .. Len(s) /\ (j <= i \/ j \in i + 1 .. n)
      BY <1>1, <1>4, <2>1
    <3>2. \A j \in i + 1 .. n : ~ (j <= i) /\ (j = n \/ j \in 1 .. Len(s))
      BY <1>1, <2>1, <2>2, <2>3
    <3> QED  BY <1>5, <1>6, <2>1, <3>1, <3>2
  <2>6. AnswersTo(t, i) <=>
           \/ \E k \in i + 1 .. Len(s) :
                 IsAnswer(t[k]) /\ \A j \in i + 1 .. k : j \notin SentIn(t)
           \/ IsAnswer(e) /\ \A j \in i + 1 .. n : j \notin SentIn(t)
    BY <1>1, <2>1, <2>2, <2>3 DEF AnswersTo
  <2> QED  BY <2>4, <2>5, <2>6 DEF AnswersTo
<1> QED  BY <1>1, <1>2, <1>3, <1>4, <1>7 DEF t

(* The entries sent are finitely many, and so are the answered ones.       *)
LEMMA TurnsFinite ==
    ASSUME NEW s \in Seq(Entry)
    PROVE  IsFiniteSet(SentIn(s)) /\ IsFiniteSet(AnsweredIn(s))
<1>1. Len(s) \in Nat
  OBVIOUS
<1>2. IsFiniteSet(1 .. Len(s))
  BY <1>1, FS_Interval
<1> QED
  BY <1>2, FS_Subset DEF SentIn, AnsweredIn

(* A user turn opens a turn and answers none.                              *)
LEMMA TurnSent ==
    ASSUME NEW s \in Seq(Entry), NEW e \in Entry, IsUserTurn(e)
    PROVE  /\ Cardinality(SentIn(Append(s, e))) = Cardinality(SentIn(s)) + 1
           /\ AnsweredIn(Append(s, e)) = AnsweredIn(s)
           /\ Open(Append(s, e))
<1> DEFINE t == Append(s, e)
           n == Len(s) + 1
<1>1. /\ SentIn(t) = SentIn(s) \cup {n} /\ n \notin SentIn(s) /\ ~ AnswersTo(t, n)
      /\ \A i \in SentIn(s) : i \in 1 .. Len(s) /\ (AnswersTo(t, i) <=> AnswersTo(s, i))
  BY SentOneMore
<1>2. Cardinality(SentIn(t)) = Cardinality(SentIn(s)) + 1
  BY <1>1, TurnsFinite, FS_AddElement
<1>3. AnsweredIn(t) = AnsweredIn(s)
  BY <1>1 DEF AnsweredIn
<1>4. n \in SentIn(t) \ AnsweredIn(t) /\ \A j \in SentIn(t) : j <= n
  BY <1>1, ReadOneMore DEF AnsweredIn
<1> QED  BY <1>2, <1>3, <1>4 DEF Open

(* An answer to the open turn answers that one, and none is open after it. *)
LEMMA TurnAnswered ==
    ASSUME NEW s \in Seq(Entry), NEW e \in Entry, ~ IsUserTurn(e), IsAnswer(e), Open(s)
    PROVE  /\ SentIn(Append(s, e)) = SentIn(s)
           /\ Cardinality(AnsweredIn(Append(s, e))) = Cardinality(AnsweredIn(s)) + 1
           /\ ~ Open(Append(s, e))
<1> DEFINE t == Append(s, e)
<1>1. /\ SentIn(t) = SentIn(s)
      /\ \A i \in SentIn(s) :
            /\ i \in 1 .. Len(s)
            /\ AnswersTo(t, i) <=> AnswersTo(s, i) \/ \A j \in SentIn(s) : j <= i
  BY SentOneMore
<1>2. PICK m \in SentIn(s) \ AnsweredIn(s) : \A j \in SentIn(s) : j <= m
  BY DEF Open
<1>3. \A i \in SentIn(s) : (\A j \in SentIn(s) : j <= i) => i = m
  <2>1. \A i, j \in 1 .. Len(s) : i <= j /\ j <= i => i = j
    OBVIOUS
  <2> QED  BY <1>1, <1>2, <2>1
<1> HIDE DEF t
<1>4. AnsweredIn(t) = AnsweredIn(s) \cup {m}
  BY <1>1, <1>2, <1>3 DEF AnsweredIn
<1>5. Cardinality(AnsweredIn(t)) = Cardinality(AnsweredIn(s)) + 1
  BY <1>2, <1>4, TurnsFinite, FS_AddElement
<1>6. ~ Open(t)
  BY <1>1, <1>3, <1>4 DEF Open
<1> QED  BY <1>1, <1>5, <1>6 DEF t

(* Any other entry, and an answer when no turn is open, changes nothing.   *)
LEMMA TurnUnchanged ==
    ASSUME NEW s \in Seq(Entry), NEW e \in Entry, ~ IsUserTurn(e), ~ (IsAnswer(e) /\ Open(s))
    PROVE  /\ SentIn(Append(s, e)) = SentIn(s)
           /\ AnsweredIn(Append(s, e)) = AnsweredIn(s)
           /\ Open(Append(s, e)) <=> Open(s)
<1> DEFINE t == Append(s, e)
<1>1. /\ SentIn(t) = SentIn(s)
      /\ \A i \in SentIn(s) :
            AnswersTo(t, i) <=> AnswersTo(s, i) \/ (IsAnswer(e) /\ \A j \in SentIn(s) : j <= i)
  BY SentOneMore
<1>2. \A i \in SentIn(s) : AnswersTo(t, i) <=> AnswersTo(s, i)
  BY <1>1 DEF Open, AnsweredIn
<1>3. AnsweredIn(t) = AnsweredIn(s)
  BY <1>1, <1>2 DEF AnsweredIn
<1> QED  BY <1>1, <1>3 DEF Open

LEMMA InitCount == Init => CountInv
<1> SUFFICES ASSUME Init PROVE CountInv
  OBVIOUS
<1>1. SentIn(read) = {}
  <2>1. 1 .. Len(read) = {}
    BY DEF Init
  <2> QED  BY <2>1 DEF SentIn
<1>2. AnsweredIn(read) = {}
  BY <1>1 DEF AnsweredIn
<1>3. Cardinality(SentIn(read)) = 0 /\ Cardinality(AnsweredIn(read)) = 0
  BY <1>1, <1>2, FS_EmptySet, Zenon
<1>4. turnCount = Cardinality(SentIn(read)) + Cardinality(AnsweredIn(read))
  BY <1>3 DEF Init
<1>5. ~ awaitingAIGroup /\ ~ Open(read)
  BY <1>1 DEF Init, Open
<1>6. TurnInv
  BY <1>4, <1>5, Zenon DEF TurnInv
<1> QED  BY <1>6, InitIInv DEF CountInv

LEMMA ScanTurns ==
    ASSUME NEW e \in Entry, CountInv, Scan(e)
    PROVE  TurnInv'
<1>1. /\ read' = Append(read, e) /\ CountTurn(e)
      /\ read \in Seq(Entry) /\ awaitingAIGroup \in BOOLEAN
  BY ScanByClass DEF CountInv, IInv, TypeOK, Reading
<1>2. PICK S, A \in Nat : S = Cardinality(SentIn(read)) /\ A = Cardinality(AnsweredIn(read))
  BY <1>1, TurnsFinite, FS_CardinalityType
<1>3. turnCount = S + A /\ (awaitingAIGroup <=> Open(read))
  BY <1>2 DEF CountInv, TurnInv
<1>4. CASE IsUserTurn(e)
  <2>1. turnCount' = S + A + 1 /\ awaitingAIGroup'
    BY <1>1, <1>3, <1>4 DEF CountTurn
  <2>2. /\ Cardinality(SentIn(read')) = S + 1 /\ Cardinality(AnsweredIn(read')) = A
        /\ Open(read')
    BY <1>1, <1>2, <1>4, TurnSent
  <2> QED  BY <1>2, <2>1, <2>2 DEF TurnInv
<1>5. CASE ~ IsUserTurn(e) /\ IsAnswer(e) /\ Open(read)
  <2>1. turnCount' = S + A + 1 /\ ~ awaitingAIGroup'
    BY <1>1, <1>3, <1>5 DEF CountTurn
  <2>2. /\ Cardinality(SentIn(read')) = S /\ Cardinality(AnsweredIn(read')) = A + 1
        /\ ~ Open(read')
    BY <1>1, <1>2, <1>5, TurnAnswered
  <2> QED  BY <1>2, <2>1, <2>2 DEF TurnInv
<1>6. CASE ~ IsUserTurn(e) /\ ~ (IsAnswer(e) /\ Open(read))
  <2>1. turnCount' = S + A /\ (awaitingAIGroup' <=> awaitingAIGroup)
    BY <1>1, <1>3, <1>6 DEF CountTurn
  <2>2. /\ Cardinality(SentIn(read')) = S /\ Cardinality(AnsweredIn(read')) = A
        /\ Open(read') <=> Open(read)
    BY <1>1, <1>2, <1>6, TurnUnchanged
  <2> QED  BY <1>3, <2>1, <2>2 DEF TurnInv
<1> QED  BY <1>4, <1>5, <1>6

LEMMA NextCount == CountInv /\ [Next]_vars => CountInv'
<1> SUFFICES ASSUME CountInv, [Next]_vars PROVE CountInv'
  OBVIOUS
<1>1. IInv'
  BY NextIInv DEF CountInv
<1>2. CASE Next
  <2>1. PICK e \in Entry : Scan(e)
    BY <1>2 DEF Next
  <2> QED  BY <1>1, <2>1, ScanTurns DEF CountInv
<1>3. CASE UNCHANGED vars
  BY <1>1, <1>3 DEF vars, turns, CountInv, TurnInv
<1> QED  BY <1>2, <1>3

(* However the entries come, a turn is what the user sent or the first     *)
(* answer to the latest of it (discover.go: turnCount, awaitingAIGroup).   *)
THEOREM TurnsAreExact == Spec => []TurnCountExact
<1>1. CountInv => TurnCountExact
  BY DEF CountInv, TurnInv, TurnCountExact, SentIn, AnsweredIn, AnswersTo, Open
<1> QED
  BY <1>1, InitCount, NextCount, PTL DEF Spec

(* A session is scanned by the rules of the scan alone: what is proved of   *)
(* the scan holds while the viewer reads along.                             *)
THEOREM SessionScans == SessionSpec => Spec
<1>1. SessionInit => Init
  BY DEF SessionInit
<1>2. [SessionNext]_<<vars, chunks>> => [Next]_vars
  BY DEF SessionNext, Write, Next
<1> QED  BY <1>1, <1>2, PTL DEF SessionSpec, Spec

----------------------------------------------------------------------------
(* RECURSIVE FUNCTIONS OVER A SEQUENCE *)

(* A property of 0 that every number hands on to the next holds of all;     *)
(* T are its counterexamples.                                              *)
LEMMA NoLeast ==
    ASSUME NEW T \in SUBSET Nat, 0 \notin T,
           \A n \in Nat : n \notin T => n + 1 \notin T
    PROVE  T = {}
<1> SUFFICES ASSUME T # {} PROVE FALSE
  OBVIOUS
<1>1. PICK m \in T : \A k \in T : ~ (<<k, m>> \in OpToRel(<, Nat))
  BY NatLessThanWellFounded, WFMin, Zenon
<1>2. \A k \in T : ~ (k < m)
  BY <1>1 DEF OpToRel
<1>3. m - 1 \in Nat /\ (m - 1) + 1 = m /\ m - 1 < m
  OBVIOUS
<1> QED  BY <1>2, <1>3

(* What BuildChunks holds after n messages, from what it held before the    *)
(* last of them.                                                            *)
LEMMA BuiltIs ==
    ASSUME NEW msgs, Len(msgs) \in Nat
    PROVE  LET f == Pipeline!Built(msgs) IN
           /\ DOMAIN f = 0 .. Len(msgs)
           /\ f[0] = [chunks |-> <<>>, buf |-> <<>>, slash |-> FALSE]
           /\ \A n \in 1 .. Len(msgs) :
                 f[n] = Pipeline!AddMessage(f[n - 1], msgs[n])
<1> DEFINE start == [chunks |-> <<>>, buf |-> <<>>, slash |-> FALSE]
           from(x, n) == Pipeline!AddMessage(x, msgs[n])
           Is(f, m) == f = [n \in 0 .. m |-> IF n = 0 THEN start ELSE from(f[n - 1], n)]
           T == {m \in Nat : ~ \E f : Is(f, m)}
<1>1. T = {}
  <2> HIDE DEF start, from
  <2>1. 0 \notin T
    <3>1. PICK f : f = [n \in 0 .. 0 |-> start]
      OBVIOUS
    <3>2. Is(f, 0)
      BY <3>1
    <3> QED  BY <3>2
  <2>2. ASSUME NEW m \in Nat, m \notin T PROVE m + 1 \notin T
    <3>1. PICK f : Is(f, m)
      BY <2>2
    <3>2. PICK g : g = [n \in 0 .. m + 1 |-> IF n \in 0 .. m THEN f[n] ELSE from(f[n - 1], n)]
      OBVIOUS
    <3>3. \A n \in 0 .. m : g[n] = f[n]
      BY <3>2
    <3>4. ASSUME NEW n \in 0 .. m + 1
          PROVE  g[n] = IF n = 0 THEN start ELSE from(g[n - 1], n)
      <4>1. CASE n = m + 1
        BY <3>2, <3>3, <4>1
      <4>2. CASE n # m + 1
        <5>1. n \in 0 .. m /\ (n # 0 => n - 1 \in 0 .. m)
          BY <4>2
        <5>2. f[n] = IF n = 0 THEN start ELSE from(f[n - 1], n)
          BY <3>1, <5>1
        <5> QED  BY <3>3, <5>1, <5>2
      <4> QED  BY <4>1, <4>2
    <3>5. Is(g, m + 1)
      BY <3>2, <3>4
    <3> QED  BY <3>5
  <2> HIDE DEF T
  <2>3. T \in SUBSET Nat
    BY DEF T
  <2> QED  BY <2>1, <2>2, <2>3, NoLeast
<1>2. PICK f : Is(f, Len(msgs))
  BY <1>1
<1>3. Is(Pipeline!Built(msgs), Len(msgs))
  BY <1>2 DEF Pipeline!Built
<1> HIDE DEF start, from
<1>4. PICK g : g = Pipeline!Built(msgs) /\ Is(g, Len(msgs))
  BY <1>3
<1>5. /\ DOMAIN g = 0 .. Len(msgs)
      /\ \A n \in 0 .. Len(msgs) : g[n] = IF n = 0 THEN start ELSE from(g[n - 1], n)
  BY <1>4
<1>6. \A n \in 1 .. Len(msgs) : g[n] = from(g[n - 1], n)
  <2>1. \A n \in 1 .. Len(msgs) : n \in 0 .. Len(msgs) /\ n # 0
    OBVIOUS
  <2> QED  BY <1>5, <2>1
<1>7. g[0] = start
  BY <1>5
<1> QED  BY <1>4, <1>5, <1>6, <1>7 DEF start, from

(* The items of the first n messages of a turn.                             *)
LEMMA MergedIs ==
    ASSUME NEW buf, Len(buf) \in Nat
    PROVE  LET f == Pipeline!Merged(buf) IN
           /\ DOMAIN f = 0 .. Len(buf)
           /\ f[0] = <<>>
           /\ \A n \in 1 .. Len(buf) :
                 f[n] = Pipeline!AddBlock(f[n - 1], buf[n])
<1> DEFINE start == <<>>
           from(x, n) == Pipeline!AddBlock(x, buf[n])
           Is(f, m) == f = [n \in 0 .. m |-> IF n = 0 THEN start ELSE from(f[n - 1], n)]
           T == {m \in Nat : ~ \E f : Is(f, m)}
<1>1. T = {}
  <2> HIDE DEF start, from
  <2>1. 0 \notin T
    <3>1. PICK f : f = [n \in 0 .. 0 |-> start]
      OBVIOUS
    <3>2. Is(f, 0)
      BY <3>1
    <3> QED  BY <3>2
  <2>2. ASSUME NEW m \in Nat, m \notin T PROVE m + 1 \notin T
    <3>1. PICK f : Is(f, m)
      BY <2>2
    <3>2. PICK g : g = [n \in 0 .. m + 1 |-> IF n \in 0 .. m THEN f[n] ELSE from(f[n - 1], n)]
      OBVIOUS
    <3>3. \A n \in 0 .. m : g[n] = f[n]
      BY <3>2
    <3>4. ASSUME NEW n \in 0 .. m + 1
          PROVE  g[n] = IF n = 0 THEN start ELSE from(g[n - 1], n)
      <4>1. CASE n = m + 1
        BY <3>2, <3>3, <4>1
      <4>2. CASE n # m + 1
        <5>1. n \in 0 .. m /\ (n # 0 => n - 1 \in 0 .. m)
          BY <4>2
        <5>2. f[n] = IF n = 0 THEN start ELSE from(f[n - 1], n)
          BY <3>1, <5>1
        <5> QED  BY <3>3, <5>1, <5>2
      <4> QED  BY <4>1, <4>2
    <3>5. Is(g, m + 1)
      BY <3>2, <3>4
    <3> QED  BY <3>5
  <2> HIDE DEF T
  <2>3. T \in SUBSET Nat
    BY DEF T
  <2> QED  BY <2>1, <2>2, <2>3, NoLeast
<1>2. PICK f : Is(f, Len(buf))
  BY <1>1
<1>3. Is(Pipeline!Merged(buf), Len(buf))
  BY <1>2 DEF Pipeline!Merged
<1> HIDE DEF start, from
<1>4. PICK g : g = Pipeline!Merged(buf) /\ Is(g, Len(buf))
  BY <1>3
<1>5. /\ DOMAIN g = 0 .. Len(buf)
      /\ \A n \in 0 .. Len(buf) : g[n] = IF n = 0 THEN start ELSE from(g[n - 1], n)
  BY <1>4
<1>6. \A n \in 1 .. Len(buf) : g[n] = from(g[n - 1], n)
  <2>1. \A n \in 1 .. Len(buf) : n \in 0 .. Len(buf) /\ n # 0
    OBVIOUS
  <2> QED  BY <1>5, <2>1
<1>7. g[0] = start
  BY <1>5
<1> QED  BY <1>4, <1>5, <1>6, <1>7 DEF start, from

(* The AI's messages among the first n of a turn.                           *)
LEMMA AnswersIs ==
    ASSUME NEW buf, Len(buf) \in Nat
    PROVE  LET f == Pipeline!Answers(buf) IN
           /\ DOMAIN f = 0 .. Len(buf)
           /\ f[0] = <<>>
           /\ \A n \in 1 .. Len(buf) :
                 f[n] = IF buf[n].class = "ai" THEN Append(f[n - 1], n) ELSE f[n - 1]
<1> DEFINE start == <<>>
           from(x, n) == IF buf[n].class = "ai" THEN Append(x, n) ELSE x
           Is(f, m) == f = [n \in 0 .. m |-> IF n = 0 THEN start ELSE from(f[n - 1], n)]
           T == {m \in Nat : ~ \E f : Is(f, m)}
<1>1. T = {}
  <2> HIDE DEF start, from
  <2>1. 0 \notin T
    <3>1. PICK f : f = [n \in 0 .. 0 |-> start]
      OBVIOUS
    <3>2. Is(f, 0)
      BY <3>1
    <3> QED  BY <3>2
  <2>2. ASSUME NEW m \in Nat, m \notin T PROVE m + 1 \notin T
    <3>1. PICK f : Is(f, m)
      BY <2>2
    <3>2. PICK g : g = [n \in 0 .. m + 1 |-> IF n \in 0 .. m THEN f[n] ELSE from(f[n - 1], n)]
      OBVIOUS
    <3>3. \A n \in 0 .. m : g[n] = f[n]
      BY <3>2
    <3>4. ASSUME NEW n \in 0 .. m + 1
          PROVE  g[n] = IF n = 0 THEN start ELSE from(g[n - 1], n)
      <4>1. CASE n = m + 1
        BY <3>2, <3>3, <4>1
      <4>2. CASE n # m + 1
        <5>1. n \in 0 .. m /\ (n # 0 => n - 1 \in 0 .. m)
          BY <4>2
        <5>2. f[n] = IF n = 0 THEN start ELSE from(f[n - 1], n)
          BY <3>1, <5>1
        <5> QED  BY <3>3, <5>1, <5>2
      <4> QED  BY <4>1, <4>2
    <3>5. Is(g, m + 1)
      BY <3>2, <3>4
    <3> QED  BY <3>5
  <2> HIDE DEF T
  <2>3. T \in SUBSET Nat
    BY DEF T
  <2> QED  BY <2>1, <2>2, <2>3, NoLeast
<1>2. PICK f : Is(f, Len(buf))
  BY <1>1
<1>3. Is(Pipeline!Answers(buf), Len(buf))
  BY <1>2 DEF Pipeline!Answers
<1> HIDE DEF start, from
<1>4. PICK g : g = Pipeline!Answers(buf) /\ Is(g, Len(buf))
  BY <1>3
<1>5. /\ DOMAIN g = 0 .. Len(buf)
      /\ \A n \in 0 .. Len(buf) : g[n] = IF n = 0 THEN start ELSE from(g[n - 1], n)
  BY <1>4
<1>6. \A n \in 1 .. Len(buf) : g[n] = from(g[n - 1], n)
  <2>1. \A n \in 1 .. Len(buf) : n \in 0 .. Len(buf) /\ n # 0
    OBVIOUS
  <2> QED  BY <1>5, <2>1
<1>7. g[0] = start
  BY <1>5
<1> QED  BY <1>4, <1>5, <1>6, <1>7 DEF start, from

(* The messages of the first n entries of a transcript.                     *)
LEMMA ClassifiedIs ==
    ASSUME NEW log, Len(log) \in Nat
    PROVE  LET f == Pipeline!Classified(log) IN
           /\ DOMAIN f = 0 .. Len(log)
           /\ f[0] = <<>>
           /\ \A n \in 1 .. Len(log) :
                 f[n] = IF Pipeline!Class(log[n]) = "drop" THEN f[n - 1]
                        ELSE Append(f[n - 1], Pipeline!Message(log, n))
<1> DEFINE start == <<>>
           from(x, n) == IF Pipeline!Class(log[n]) = "drop" THEN x
                         ELSE Append(x, Pipeline!Message(log, n))
           Is(f, m) == f = [n \in 0 .. m |-> IF n = 0 THEN start ELSE from(f[n - 1], n)]
           T == {m \in Nat : ~ \E f : Is(f, m)}
<1>1. T = {}
  <2> HIDE DEF start, from
  <2>1. 0 \notin T
    <3>1. PICK f : f = [n \in 0 .. 0 |-> start]
      OBVIOUS
    <3>2. Is(f, 0)
      BY <3>1
    <3> QED  BY <3>2
  <2>2. ASSUME NEW m \in Nat, m \notin T PROVE m + 1 \notin T
    <3>1. PICK f : Is(f, m)
      BY <2>2
    <3>2. PICK g : g = [n \in 0 .. m + 1 |-> IF n \in 0 .. m THEN f[n] ELSE from(f[n - 1], n)]
      OBVIOUS
    <3>3. \A n \in 0 .. m : g[n] = f[n]
      BY <3>2
    <3>4. ASSUME NEW n \in 0 .. m + 1
          PROVE  g[n] = IF n = 0 THEN start ELSE from(g[n - 1], n)
      <4>1. CASE n = m + 1
        BY <3>2, <3>3, <4>1
      <4>2. CASE n # m + 1
        <5>1. n \in 0 .. m /\ (n # 0 => n - 1 \in 0 .. m)
          BY <4>2
        <5>2. f[n] = IF n = 0 THEN start ELSE from(f[n - 1], n)
          BY <3>1, <5>1
        <5> QED  BY <3>3, <5>1, <5>2
      <4> QED  BY <4>1, <4>2
    <3>5. Is(g, m + 1)
      BY <3>2, <3>4
    <3> QED  BY <3>5
  <2> HIDE DEF T
  <2>3. T \in SUBSET Nat
    BY DEF T
  <2> QED  BY <2>1, <2>2, <2>3, NoLeast
<1>2. PICK f : Is(f, Len(log))
  BY <1>1
<1>3. Is(Pipeline!Classified(log), Len(log))
  BY <1>2 DEF Pipeline!Classified
<1> HIDE DEF start, from
<1>4. PICK g : g = Pipeline!Classified(log) /\ Is(g, Len(log))
  BY <1>3
<1>5. /\ DOMAIN g = 0 .. Len(log)
      /\ \A n \in 0 .. Len(log) : g[n] = IF n = 0 THEN start ELSE from(g[n - 1], n)
  BY <1>4
<1>6. \A n \in 1 .. Len(log) : g[n] = from(g[n - 1], n)
  <2>1. \A n \in 1 .. Len(log) : n \in 0 .. Len(log) /\ n # 0
    OBVIOUS
  <2> QED  BY <1>5, <2>1
<1>7. g[0] = start
  BY <1>5
<1> QED  BY <1>4, <1>5, <1>6, <1>7 DEF start, from

----------------------------------------------------------------------------
(* ONE ENTRY MORE, ONE MESSAGE MORE *)

(* The classes and the kinds of what Classify keeps.                        *)
Classes == {"ai", "meta", "user", "system", "compact", "teammate", "memory"}
Kinds   == Assistant \cup User \cup Others

(* What Classify makes of an entry, and the types of what is built.         *)
Msg == [class : Classes, kind : Kinds, id : ToolId \cup {NoId}, at : Nat]

(* What Append does to a sequence.                                          *)
LEMMA AppendTo ==
    ASSUME NEW S, NEW q \in Seq(S), NEW x \in S
    PROVE  /\ Append(q, x) \in Seq(S)
           /\ Len(q) \in Nat
           /\ Len(Append(q, x)) = Len(q) + 1
           /\ Append(q, x)[Len(q) + 1] = x
           /\ \A i \in 1 .. Len(q) : Append(q, x)[i] = q[i]
           /\ DOMAIN q = 1 .. Len(q)
OBVIOUS

(* An entry is classified by its kind and by who wrote it.                  *)
LEMMA ClassOf ==
    ASSUME NEW e \in Entry
    PROVE  /\ Class(e) \in Classes \cup {"drop"}
           /\ e.kind \in Kinds /\ e.id \in ToolId \cup {NoId}
           /\ Class(e) = "ai" => e.kind \in Assistant
           /\ Class(e) = "meta" => e.kind \in Results \cup {"expanded"}
           /\ Class(e) = "user" => e.kind \in {"prompt", "slash"}
           /\ Class(e) = "system" => e.kind = "output"
           /\ Class(e) \in {"teammate", "memory", "compact"} => e.kind = Class(e)
           /\ Class(e) = "drop" =>
                 e.by # "main" \/ e.kind \in {"interrupted", "protocol", "reminder", "other"}
           /\ e.by = "main" /\ e.kind = "expanded" => Class(e) = "meta"
<1>1. e \in [kind : Kinds, id : ToolId \cup {NoId}, by : {"main", "side", "synthetic"}]
  BY EntryAssumption DEF AllEntries, Kinds
<1>2. e.kind \in Kinds /\ e.id \in ToolId \cup {NoId}
  BY <1>1
<1> QED
  BY <1>2 DEF Class, Pipeline!Class, Pipeline!UserClass, Pipeline!Assistant, Pipeline!Calls,
     Pipeline!Spoken, Pipeline!Results, Kinds, Classes, Assistant, Calls, Spoken, Results, User, Others

(* The message that entry n becomes.                                        *)
NewMessage(e, n) == [class |-> Class(e), kind |-> e.kind, id |-> e.id, at |-> n]

(* One more entry is one more message, or none when it is dropped.          *)
LEMMA ClassifyAppend ==
    ASSUME NEW s \in Seq(Entry), NEW e \in Entry
    PROVE  Pipeline!Classify(Append(s, e)) =
               IF Class(e) = "drop" THEN Pipeline!Classify(s)
               ELSE Append(Pipeline!Classify(s), NewMessage(e, Len(s) + 1))
<1> DEFINE t == Append(s, e)
           T == {n \in Nat : /\ n <= Len(s)
                             /\ Pipeline!Classified(t)[n] # Pipeline!Classified(s)[n]}
<1>1. /\ Len(s) \in Nat /\ Len(t) = Len(s) + 1 /\ Len(t) \in Nat /\ t[Len(s) + 1] = e
      /\ \A i \in 1 .. Len(s) : t[i] = s[i]
  BY ReadOneMore
<1> HIDE DEF t
<1>2. T = {}
  <2>1. 0 \notin T
    BY <1>1, ClassifiedIs
  <2>2. ASSUME NEW n \in Nat, n \notin T PROVE n + 1 \notin T
    <3> SUFFICES ASSUME n + 1 <= Len(s)
                 PROVE  Pipeline!Classified(t)[n + 1] = Pipeline!Classified(s)[n + 1]
      OBVIOUS
    <3>1. n + 1 \in 1 .. Len(s) /\ n + 1 \in 1 .. Len(t) /\ (n + 1) - 1 = n /\ n <= Len(s)
      BY <1>1
    <3>2. Pipeline!Classified(t)[n] = Pipeline!Classified(s)[n] /\ t[n + 1] = s[n + 1]
      BY <1>1, <2>2, <3>1
    <3>3. Pipeline!Message(t, n + 1) = Pipeline!Message(s, n + 1)
      BY <3>2 DEF Pipeline!Message
    <3> QED  BY <1>1, <3>1, <3>2, <3>3, ClassifiedIs
  <2> HIDE DEF T
  <2>3. T \in SUBSET Nat
    BY DEF T
  <2> QED  BY <2>1, <2>2, <2>3, NoLeast
<1>3. Pipeline!Classified(t)[Len(s)] = Pipeline!Classified(s)[Len(s)]
  BY <1>1, <1>2
<1>4. Len(t) \in 1 .. Len(t) /\ Len(t) - 1 = Len(s) /\ t[Len(t)] = e
  BY <1>1
<1>5. Pipeline!Message(t, Len(t)) = NewMessage(e, Len(s) + 1)
  BY <1>1, <1>4 DEF Pipeline!Message, NewMessage, Class
<1>6. Pipeline!Classify(t) = IF Pipeline!Class(e) = "drop" THEN Pipeline!Classify(s)
               ELSE Append(Pipeline!Classify(s), Pipeline!Message(t, Len(t)))
  BY <1>1, <1>3, <1>4, ClassifiedIs DEF Pipeline!Classify
<1> QED  BY <1>5, <1>6 DEF Class, t

(* The accumulator of BuildChunks after the messages of a transcript.       *)
Acc(s) == Pipeline!Built(Pipeline!Classify(s))[Len(Pipeline!Classify(s))]

(* One more message is added to what the earlier ones were built into.      *)
LEMMA BuiltAppend ==
    ASSUME NEW msgs \in Seq(Msg), NEW m \in Msg
    PROVE  Pipeline!Built(Append(msgs, m))[Len(msgs) + 1] =
               Pipeline!AddMessage(Pipeline!Built(msgs)[Len(msgs)], m)
<1> DEFINE t == Append(msgs, m)
           T == {n \in Nat : n <= Len(msgs) /\ Pipeline!Built(t)[n] # Pipeline!Built(msgs)[n]}
<1>1. /\ Len(msgs) \in Nat /\ Len(t) = Len(msgs) + 1 /\ Len(t) \in Nat /\ t[Len(msgs) + 1] = m
      /\ \A i \in 1 .. Len(msgs) : t[i] = msgs[i]
  BY AppendTo
<1> HIDE DEF t
<1>2. T = {}
  <2>1. 0 \notin T
    BY <1>1, BuiltIs
  <2>2. ASSUME NEW n \in Nat, n \notin T PROVE n + 1 \notin T
    <3> SUFFICES ASSUME n + 1 <= Len(msgs)
                 PROVE  Pipeline!Built(t)[n + 1] = Pipeline!Built(msgs)[n + 1]
      OBVIOUS
    <3>1. n + 1 \in 1 .. Len(msgs) /\ n + 1 \in 1 .. Len(t) /\ (n + 1) - 1 = n /\ n <= Len(msgs)
      BY <1>1
    <3>2. Pipeline!Built(t)[n] = Pipeline!Built(msgs)[n] /\ t[n + 1] = msgs[n + 1]
      BY <1>1, <2>2, <3>1
    <3> QED  BY <1>1, <3>1, <3>2, BuiltIs
  <2> HIDE DEF T
  <2>3. T \in SUBSET Nat
    BY DEF T
  <2> QED  BY <2>1, <2>2, <2>3, NoLeast
<1>3. Pipeline!Built(t)[Len(msgs)] = Pipeline!Built(msgs)[Len(msgs)]
  BY <1>1, <1>2
<1>4. Len(t) \in 1 .. Len(t) /\ Len(t) - 1 = Len(msgs) /\ t[Len(t)] = m
  BY <1>1
<1>5. Pipeline!Built(t)[Len(t)] = Pipeline!AddMessage(Pipeline!Built(msgs)[Len(msgs)], m)
  BY <1>1, <1>3, <1>4, BuiltIs
<1> QED  BY <1>1, <1>5 DEF t

(* The items of a turn as its messages come in: those of the first messages *)
(* stay what they were.                                                     *)
LEMMA MergedAppend ==
    ASSUME NEW buf \in Seq(Msg), NEW m \in Msg
    PROVE  /\ \A n \in 0 .. Len(buf) :
                 Pipeline!Merged(Append(buf, m))[n] = Pipeline!Merged(buf)[n]
           /\ Pipeline!Merged(Append(buf, m))[Len(buf) + 1] =
                  Pipeline!AddBlock(Pipeline!Merged(buf)[Len(buf)], m)
<1> DEFINE t == Append(buf, m)
           T == {n \in Nat : n <= Len(buf) /\ Pipeline!Merged(t)[n] # Pipeline!Merged(buf)[n]}
<1>1. /\ Len(buf) \in Nat /\ Len(t) = Len(buf) + 1 /\ Len(t) \in Nat /\ t[Len(buf) + 1] = m
      /\ \A i \in 1 .. Len(buf) : t[i] = buf[i]
  BY AppendTo
<1> HIDE DEF t
<1>2. T = {}
  <2>1. 0 \notin T
    BY <1>1, MergedIs
  <2>2. ASSUME NEW n \in Nat, n \notin T PROVE n + 1 \notin T
    <3> SUFFICES ASSUME n + 1 <= Len(buf)
                 PROVE  Pipeline!Merged(t)[n + 1] = Pipeline!Merged(buf)[n + 1]
      OBVIOUS
    <3>1. n + 1 \in 1 .. Len(buf) /\ n + 1 \in 1 .. Len(t) /\ (n + 1) - 1 = n /\ n <= Len(buf)
      BY <1>1
    <3>2. Pipeline!Merged(t)[n] = Pipeline!Merged(buf)[n] /\ t[n + 1] = buf[n + 1]
      BY <1>1, <2>2, <3>1
    <3> QED  BY <1>1, <3>1, <3>2, MergedIs
  <2> HIDE DEF T
  <2>3. T \in SUBSET Nat
    BY DEF T
  <2> QED  BY <2>1, <2>2, <2>3, NoLeast
<1>3. \A n \in 0 .. Len(buf) : Pipeline!Merged(t)[n] = Pipeline!Merged(buf)[n]
  BY <1>1, <1>2
<1>4. /\ Len(t) \in 1 .. Len(t) /\ Len(t) - 1 = Len(buf) /\ t[Len(t)] = m
      /\ Len(buf) \in 0 .. Len(buf)
  BY <1>1
<1>5. Pipeline!Merged(t)[Len(t)] = Pipeline!AddBlock(Pipeline!Merged(buf)[Len(buf)], m)
  BY <1>1, <1>3, <1>4, MergedIs
<1> QED  BY <1>1, <1>3, <1>5 DEF t

(* Only an answer of the AI is one more answer of the turn.                 *)
LEMMA AnswersAppend ==
    ASSUME NEW buf \in Seq(Msg), NEW m \in Msg
    PROVE  Pipeline!Answers(Append(buf, m))[Len(buf) + 1] =
               IF m.class = "ai" THEN Append(Pipeline!Answers(buf)[Len(buf)], Len(buf) + 1)
                                 ELSE Pipeline!Answers(buf)[Len(buf)]
<1> DEFINE t == Append(buf, m)
           T == {n \in Nat : n <= Len(buf) /\ Pipeline!Answers(t)[n] # Pipeline!Answers(buf)[n]}
<1>1. /\ Len(buf) \in Nat /\ Len(t) = Len(buf) + 1 /\ Len(t) \in Nat /\ t[Len(buf) + 1] = m
      /\ \A i \in 1 .. Len(buf) : t[i] = buf[i]
  BY AppendTo
<1> HIDE DEF t
<1>2. T = {}
  <2>1. 0 \notin T
    BY <1>1, AnswersIs
  <2>2. ASSUME NEW n \in Nat, n \notin T PROVE n + 1 \notin T
    <3> SUFFICES ASSUME n + 1 <= Len(buf)
                 PROVE  Pipeline!Answers(t)[n + 1] = Pipeline!Answers(buf)[n + 1]
      OBVIOUS
    <3>1. n + 1 \in 1 .. Len(buf) /\ n + 1 \in 1 .. Len(t) /\ (n + 1) - 1 = n /\ n <= Len(buf)
      BY <1>1
    <3>2. Pipeline!Answers(t)[n] = Pipeline!Answers(buf)[n] /\ t[n + 1] = buf[n + 1]
      BY <1>1, <2>2, <3>1
    <3> QED  BY <1>1, <3>1, <3>2, AnswersIs
  <2> HIDE DEF T
  <2>3. T \in SUBSET Nat
    BY DEF T
  <2> QED  BY <2>1, <2>2, <2>3, NoLeast
<1>3. Pipeline!Answers(t)[Len(buf)] = Pipeline!Answers(buf)[Len(buf)]
  BY <1>1, <1>2
<1>4. Len(t) \in 1 .. Len(t) /\ Len(t) - 1 = Len(buf) /\ t[Len(t)] = m
  BY <1>1
<1>5. Pipeline!Answers(t)[Len(t)] =
          IF m.class = "ai" THEN Append(Pipeline!Answers(buf)[Len(buf)], Len(t))
                            ELSE Pipeline!Answers(buf)[Len(buf)]
  BY <1>1, <1>3, <1>4, AnswersIs
<1> QED  BY <1>1, <1>5 DEF t

----------------------------------------------------------------------------
(* THE ITEMS OF A TURN *)

(* The items, cycles and chunks that BuildChunks makes.                     *)
ItemTypes == {"thinking", "output", "tool", "subagent", "teammate", "memory"}
AnItem ==
    [type : ItemTypes, kind : Kinds, id : ToolId \cup {NoId}, at : Nat, result : Nat,
     full : BOOLEAN]
ACycle == [at : Nat, start : Nat, end : Nat, tools : Nat]
AChunk ==
    [type : Classes, at : Nat, expanded : Nat, thinking : BOOLEAN, items : Seq(AnItem),
     cycles : Seq(ACycle)]

(* What starts a chunk of its own, and what joins the AI's turn.            *)
Alone  == {"user", "system", "compact"}
Joined == {"ai", "meta", "teammate", "memory"}

(* Item it has become jt: the call that the result m answers.               *)
Matched(it, jt, m) ==
    /\ IsCall(it) /\ it.id = m.id /\ it.result = 0
    /\ jt \in AnItem /\ jt.type = it.type /\ jt.id = it.id /\ jt.at = it.at /\ jt.result = m.at

(* What a message of the turn does to its items.                            *)
LEMMA AddBlockCases ==
    ASSUME NEW items \in Seq(AnItem), NEW e \in Entry, NEW n \in Nat, Class(e) \in Joined,
           NEW m, m = NewMessage(e, n), NEW new, new = Pipeline!AddBlock(items, m)
    PROVE  \/ /\ new = items /\ ~ Visible(e)
           \/ \E it \in AnItem :
                 /\ new = Append(items, it)
                 /\ it.at = n /\ it.result = 0
                 /\ IsCall(it) => Class(e) = "ai"
           \/ /\ new \in Seq(AnItem) /\ Len(new) = Len(items)
              /\ \E p \in 1 .. Len(items) :
                    /\ Matched(items[p], new[p], m)
                    /\ \A k \in 1 .. Len(items) : k # p => new[k] = items[k]
<1> DEFINE Res(it) == /\ new = Append(items, it)
                      /\ it.at = n /\ it.result = 0
                      /\ IsCall(it) => Class(e) = "ai"
<1>a. m \in Msg /\ m.class = Class(e) /\ m.kind = e.kind /\ m.at = n /\ m.id = e.id
  BY ClassOf DEF NewMessage, Msg, Joined, Classes
<1>b. ASSUME NEW type \in ItemTypes, NEW full \in BOOLEAN
      PROVE  /\ Pipeline!Item(type, m, full) \in AnItem
             /\ Pipeline!Item(type, m, full).at = n
             /\ Pipeline!Item(type, m, full).result = 0
             /\ Pipeline!Item(type, m, full).type = type
  BY <1>a DEF Pipeline!Item, AnItem, Msg
<1>c. ASSUME NEW type \in ItemTypes, NEW full \in BOOLEAN,
             new = Append(items, Pipeline!Item(type, m, full)),
             type \in {"tool", "subagent"} => Class(e) = "ai"
      PROVE  \E it \in AnItem : Res(it)
  <2>1. Res(Pipeline!Item(type, m, full))
    BY <1>b, <1>c DEF IsCall, Pipeline!IsCall
  <2> QED  BY <1>b, <2>1
<1>1. CASE m.kind \in Pipeline!Results
  <2>1. new = Pipeline!MatchResult(items, m)
    BY <1>1 DEF Pipeline!AddBlock
  <2>2. CASE Pipeline!Pending(items, m.id) = {}
    BY <1>c, <2>1, <2>2 DEF Pipeline!MatchResult, ItemTypes
  <2>3. CASE Pipeline!Pending(items, m.id) # {}
    <3>1. PICK p : p \in Pipeline!Pending(items, m.id)
      BY <2>3
    <3>2. /\ p \in 1 .. Len(items) /\ IsCall(items[p]) /\ items[p].id = m.id
          /\ items[p].result = 0 /\ items[p] \in AnItem
      BY <3>1 DEF Pipeline!Pending, IsCall
    <3>3. \A k \in 1 .. Len(items) : k # p => k \notin Pipeline!Pending(items, m.id)
      BY <3>1, <3>2 DEF Pipeline!Pending
    <3>4. /\ DOMAIN new = 1 .. Len(items)
          /\ \A k \in 1 .. Len(items) :
                new[k] = IF k \in Pipeline!Pending(items, m.id)
                         THEN Pipeline!WithResult(items[k], m) ELSE items[k]
      BY <2>1, <2>3 DEF Pipeline!MatchResult
    <3>5. new[p] = Pipeline!WithResult(items[p], m)
      BY <3>1, <3>2, <3>4
    <3>6. Matched(items[p], new[p], m)
      BY <1>a, <3>2, <3>5 DEF Matched, AnItem, IsCall, Pipeline!IsCall, Pipeline!WithResult, Msg
    <3>7. \A k \in 1 .. Len(items) : k # p => new[k] = items[k]
      BY <3>3, <3>4
    <3>8. \A k \in 1 .. Len(items) : new[k] \in AnItem
      BY <3>6, <3>7 DEF Matched
    <3>9. new \in Seq(AnItem) /\ Len(new) = Len(items)
      <4>1. Len(items) \in Nat
        OBVIOUS
      <4>2. new = [k \in 1 .. Len(items) |-> new[k]]
        <5> DEFINE G(k) == IF k \in Pipeline!Pending(items, m.id)
                           THEN Pipeline!WithResult(items[k], m) ELSE items[k]
        <5>1. new = [k \in 1 .. Len(items) |-> G(k)]
          BY <2>1, <2>3 DEF Pipeline!MatchResult
        <5> HIDE DEF G
        <5> QED  BY <5>1
      <4> QED  BY <3>8, <4>1, <4>2
    <3> QED  BY <3>2, <3>6, <3>7, <3>9
  <2> QED  BY <2>2, <2>3
<1>2. CASE m.kind \notin Pipeline!Results
  <2> DEFINE type == Pipeline!ItemType(m)
  <2>1. CASE type = "none"
    <3>1. new = items
      BY <1>2, <2>1 DEF Pipeline!AddBlock
    <3>2. ~ Visible(e)
      BY <1>a, <1>2, <2>1, ClassOf DEF Pipeline!ItemType, Pipeline!Results, Pipeline!Calls,
         Joined, Visible, Assistant, Calls, Spoken, Results
    <3> QED  BY <3>1, <3>2
  <2>2. CASE type # "none"
    <3>1. new = Append(items,
                       Pipeline!Item(type, m, m.kind \notin Pipeline!Calls \cup {"blank"}))
      BY <1>2, <2>2 DEF Pipeline!AddBlock
    <3>2. type \in ItemTypes /\ (type \in {"tool", "subagent"} => Class(e) = "ai")
      BY <1>a, <2>2, ClassOf DEF Pipeline!ItemType, ItemTypes, Pipeline!Calls, Joined, Results
    <3> QED  BY <1>c, <3>1, <3>2
  <2> QED  BY <2>1, <2>2
<1> QED  BY <1>1, <1>2

(* The items of a turn's messages, and which of them the AI answered with.  *)
Items(b)  == Pipeline!Merged(b)[Len(b)]
Replies(b) == Pipeline!Answers(b)[Len(b)]

(* The messages of a turn: in the order of the transcript s, and nothing in *)
(* s from the first of them on starts a chunk of its own.                   *)
BufOk(s, b) ==
    /\ b \in Seq(Msg)
    /\ \A i \in 1 .. Len(b) :
          /\ b[i].at \in 1 .. Len(s) /\ b[i].class \in Joined
          /\ \A j \in 1 .. i - 1 : b[j].at < b[i].at
    /\ b # <<>> => \A j \in b[1].at .. Len(s) : Class(s[j]) \notin Alone

(* The items of the turn and the calls among them that have their result.   *)
ItemsOk(s, b) ==
    /\ Items(b) \in Seq(AnItem)
    /\ \A n \in 1 .. Len(Items(b)) :
          LET it == Items(b)[n] IN
          /\ b # <<>> /\ it.at \in b[1].at .. Len(s)
          /\ it.result # 0 =>
                IsCall(it) /\ it.result \in it.at + 1 .. Len(s) /\ s[it.result].id = it.id

(* What the cycles are cut from: the items never become fewer, each belongs *)
(* to the message it came with, and the answers are the AI's messages.      *)
CutOk(b) ==
    LET M == Pipeline!Merged(b)
        A == Replies(b)
    IN  /\ \A i \in 0 .. Len(b) : M[i] \in Seq(AnItem)
        /\ \A i, j \in 0 .. Len(b) : i <= j => Len(M[i]) <= Len(M[j])
        /\ A \in Seq(Nat)
        /\ \A c \in 1 .. Len(A) :
              A[c] \in 1 .. Len(b) /\ b[A[c]].class = "ai" /\ \A d \in 1 .. c - 1 : A[d] < A[c]
        /\ \A i \in 1 .. Len(b) : b[i].class = "ai" => \E c \in 1 .. Len(A) : A[c] = i
        /\ \A n \in 1 .. Len(Items(b)) : \E i \in 1 .. Len(b) :
              /\ Items(b)[n].at = b[i].at
              /\ Len(M[i - 1]) < n /\ n <= Len(M[i])
              /\ IsCall(Items(b)[n]) => b[i].class = "ai"

(* What holds of the messages of an open turn, and of what they become.     *)
TurnOk(s, b) == BufOk(s, b) /\ ItemsOk(s, b) /\ CutOk(b)

(* Before its first message a turn is empty.                                *)
LEMMA NoTurn == ASSUME NEW s PROVE TurnOk(s, <<>>)
<1>1. Len(<<>>) = 0 /\ <<>> \in Seq(Msg) /\ <<>> \in Seq(AnItem) /\ <<>> \in Seq(Nat)
  OBVIOUS
<1>2. Pipeline!Merged(<<>>)[0] = <<>> /\ Pipeline!Answers(<<>>)[0] = <<>>
  BY <1>1, MergedIs, AnswersIs
<1>3. BufOk(s, <<>>)
  BY <1>1 DEF BufOk
<1>4. Items(<<>>) = <<>> /\ Replies(<<>>) = <<>>
  BY <1>1, <1>2 DEF Items, Replies
<1>a. /\ Items(<<>>) \in Seq(AnItem) /\ Replies(<<>>) \in Seq(Nat)
      /\ 1 .. Len(Items(<<>>)) = {} /\ 1 .. Len(Replies(<<>>)) = {} /\ 1 .. Len(<<>>) = {}
  <2>1. 1 .. 0 = {}
    OBVIOUS
  <2> QED  BY <1>1, <1>4, <2>1, Zenon
<1>5. ItemsOk(s, <<>>)
  BY <1>a DEF ItemsOk
<1>6. CutOk(<<>>)
  <2>1. \A i \in 0 .. 0 : i = 0
    OBVIOUS
  <2>2. \A i \in 0 .. 0 : Pipeline!Merged(<<>>)[i] = <<>>
    BY <1>2, <2>1
  <2>3. \A i, j \in 0 .. 0 :
            i <= j => Len(Pipeline!Merged(<<>>)[i]) <= Len(Pipeline!Merged(<<>>)[j])
    BY <1>1, <2>2
  <2>4. \A i \in 0 .. 0 : Pipeline!Merged(<<>>)[i] \in Seq(AnItem)
    BY <1>1, <2>2
  <2> QED  BY <1>1, <1>a, <2>3, <2>4 DEF CutOk
<1> QED  BY <1>3, <1>5, <1>6 DEF TurnOk

(* An entry that is dropped leaves the open turn as it is.                  *)
LEMMA TurnDropped ==
    ASSUME NEW s \in Seq(Entry), NEW e \in Entry, NEW b, TurnOk(s, b), Class(e) = "drop"
    PROVE  TurnOk(Append(s, e), b)
<1> DEFINE t == Append(s, e)
<1>1. /\ Len(s) \in Nat /\ Len(t) = Len(s) + 1 /\ t[Len(s) + 1] = e
      /\ \A i \in 1 .. Len(s) : t[i] = s[i]
  BY ReadOneMore
<1> HIDE DEF t
<1>2. BufOk(t, b)
  <2>1. \A j \in 1 .. Len(t) : j = Len(s) + 1 \/ j \in 1 .. Len(s)
    BY <1>1
  <2>2. Class(t[Len(s) + 1]) \notin Alone
    BY <1>1 DEF Alone
  <2>3. \A i \in 1 .. Len(b) : b[i].at \in 1 .. Len(t)
    BY <1>1 DEF TurnOk, BufOk
  <2>4. ASSUME b # <<>>, NEW j \in b[1].at .. Len(t) PROVE Class(t[j]) \notin Alone
    <3>1. b[1].at \in 1 .. Len(s)
      BY <2>4 DEF TurnOk, BufOk
    <3>2. j \in 1 .. Len(t) /\ (j \in 1 .. Len(s) => j \in b[1].at .. Len(s))
      BY <1>1, <2>4, <3>1
    <3> QED  BY <1>1, <2>1, <2>2, <2>4, <3>2 DEF TurnOk, BufOk
  <2> QED  BY <2>3, <2>4 DEF TurnOk, BufOk
<1>3. ItemsOk(t, b)
  <2> SUFFICES ASSUME NEW n \in 1 .. Len(Items(b))
               PROVE  LET it == Items(b)[n] IN
                      /\ b # <<>> /\ it.at \in b[1].at .. Len(t)
                      /\ it.result # 0 =>
                            /\ IsCall(it) /\ it.result \in it.at + 1 .. Len(t)
                            /\ t[it.result].id = it.id
    BY DEF TurnOk, ItemsOk
  <2> DEFINE it == Items(b)[n]
  <2>1. /\ b # <<>> /\ it.at \in b[1].at .. Len(s)
        /\ it.result # 0 =>
               IsCall(it) /\ it.result \in it.at + 1 .. Len(s) /\ s[it.result].id = it.id
    BY DEF TurnOk, ItemsOk
  <2>2. b[1].at \in 1 .. Len(s)
    BY <2>1 DEF TurnOk, BufOk
  <2> HIDE DEF it
  <2> QED  BY <1>1, <2>1, <2>2 DEF it
<1> QED  BY <1>2, <1>3 DEF TurnOk, t

(* One more message of the turn keeps all of it: a result finds its call    *)
(* among the items, the answers stay in order, and no item is moved.        *)
LEMMA TurnAppend ==
    ASSUME NEW s \in Seq(Entry), NEW e \in Entry, NEW b, TurnOk(s, b), Class(e) \in Joined
    PROVE  /\ TurnOk(Append(s, e), Append(b, NewMessage(e, Len(s) + 1)))
           /\ Items(Append(b, NewMessage(e, Len(s) + 1))) =
                  Pipeline!AddBlock(Items(b), NewMessage(e, Len(s) + 1))
<1> DEFINE t == Append(s, e)
           m == NewMessage(e, Len(s) + 1)
           c == Append(b, m)
           I == Items(b)
           J == Items(c)
           last == Len(b) + 1
<1>1. /\ Len(s) \in Nat /\ Len(t) = Len(s) + 1 /\ t[Len(s) + 1] = e
      /\ \A i \in 1 .. Len(s) : t[i] = s[i]
  BY ReadOneMore
<1>2. /\ m \in Msg /\ m.class = Class(e) /\ m.at = Len(s) + 1 /\ m.id = e.id
      /\ m.class \in Joined
  BY <1>1, ClassOf DEF NewMessage, Msg, Joined, Classes
<1>3. /\ b \in Seq(Msg) /\ c \in Seq(Msg) /\ Len(b) \in Nat /\ Len(c) = last /\ c[last] = m
      /\ \A i \in 1 .. Len(b) : c[i] = b[i]
      /\ c # <<>> /\ last # 0
  <2>1. b \in Seq(Msg)
    BY DEF TurnOk, BufOk
  <2>2. /\ c \in Seq(Msg) /\ Len(b) \in Nat /\ Len(c) = last /\ c[last] = m
        /\ \A i \in 1 .. Len(b) : c[i] = b[i]
    BY <1>2, <2>1, AppendTo
  <2>3. last # 0
    BY <2>2
  <2> QED  BY <2>1, <2>2, <2>3
<1>4. J = Pipeline!AddBlock(I, m)
  BY <1>2, <1>3, MergedAppend DEF Items
<1>5. I \in Seq(AnItem)
  BY DEF TurnOk, ItemsOk
<1>6. /\ J = I \/ (\E it \in AnItem : /\ J = Append(I, it) /\ it.at = Len(s) + 1
                                     /\ it.result = 0 /\ (IsCall(it) => Class(e) = "ai"))
         \/ /\ J \in Seq(AnItem) /\ Len(J) = Len(I)
            /\ \E p \in 1 .. Len(I) :
                    /\ Matched(I[p], J[p], m)
                    /\ \A k \in 1 .. Len(I) : k # p => J[k] = I[k]
  BY <1>1, <1>4, <1>5, AddBlockCases
<1> HIDE DEF t, m, c, I, J
<1>7. BufOk(t, c)
  <2>1. ASSUME NEW i \in 1 .. last
        PROVE  /\ c[i].at \in 1 .. Len(t) /\ c[i].class \in Joined
               /\ \A j \in 1 .. i - 1 : c[j].at < c[i].at
    <3>1. CASE i = last
      <4>1. \A j \in 1 .. last - 1 : c[j] = b[j] /\ b[j].at \in 1 .. Len(s)
        <5>1. \A j \in 1 .. last - 1 : j \in 1 .. Len(b)
          BY <1>3
        <5> QED  BY <1>3, <5>1 DEF TurnOk, BufOk
      <4>2. c[i].at = Len(s) + 1 /\ c[i].class \in Joined
        BY <1>2, <1>3, <3>1
      <4>3. Len(s) + 1 \in 1 .. Len(t) /\ \A x \in 1 .. Len(s) : x < Len(s) + 1
        BY <1>1
      <4> QED  BY <3>1, <4>1, <4>2, <4>3
    <3>2. CASE i # last
      <4>1. i \in 1 .. Len(b) /\ \A j \in 1 .. i - 1 : j \in 1 .. Len(b)
        BY <1>3, <3>2
      <4>2. /\ b[i].at \in 1 .. Len(s) /\ b[i].class \in Joined
            /\ \A j \in 1 .. i - 1 : b[j].at < b[i].at
        BY <4>1 DEF TurnOk, BufOk
      <4>3. \A x \in 1 .. Len(s) : x \in 1 .. Len(t)
        BY <1>1
      <4>4. c[i] = b[i] /\ \A j \in 1 .. i - 1 : c[j] = b[j]
        BY <1>3, <4>1
      <4> QED  BY <4>2, <4>3, <4>4
    <3> QED  BY <3>1, <3>2
  <2>2. ASSUME NEW j \in c[1].at .. Len(t) PROVE Class(t[j]) \notin Alone
    <3>1. Class(t[Len(s) + 1]) \notin Alone
      BY <1>1, <1>2 DEF Joined, Alone
    <3>2. CASE b = <<>>
      <4>1. c[1].at = Len(s) + 1
        BY <1>2, <1>3, <3>2
      <4> QED  BY <1>1, <3>1, <4>1
    <3>3. CASE b # <<>>
      <4>1. 1 \in 1 .. Len(b) /\ c[1] = b[1]
        BY <1>3, <3>3
      <4>2. b[1].at \in 1 .. Len(s) /\ \A k \in b[1].at .. Len(s) : Class(s[k]) \notin Alone
        BY <3>3, <4>1 DEF TurnOk, BufOk
      <4>3. j = Len(s) + 1 \/ (j \in b[1].at .. Len(s) /\ j \in 1 .. Len(s))
        BY <1>1, <4>1, <4>2
      <4> QED  BY <1>1, <3>1, <4>2, <4>3
    <3> QED  BY <3>2, <3>3
  <2> QED  BY <1>3, <2>1, <2>2 DEF BufOk
<1>8. c[1].at \in 1 .. Len(s) + 1 /\ (b # <<>> => c[1].at = b[1].at)
  <2>1. CASE b = <<>>
    BY <1>1, <1>2, <1>3, <2>1
  <2>2. CASE b # <<>>
    <3>1. 1 \in 1 .. Len(b)
      BY <1>3, <2>2
    <3> QED  BY <1>1, <1>3, <2>2, <3>1 DEF TurnOk, BufOk
  <2> QED  BY <2>1, <2>2
<1>9. \A n \in 1 .. Len(I) :
          /\ I[n].at \in c[1].at .. Len(s) /\ I[n] \in AnItem
          /\ I[n].result # 0 =>
                /\ IsCall(I[n]) /\ I[n].result \in I[n].at + 1 .. Len(s)
                /\ s[I[n].result].id = I[n].id
  BY <1>5, <1>8 DEF TurnOk, ItemsOk, I
<1>10. J \in Seq(AnItem)
  BY <1>5, <1>6
<1>11. ItemsOk(t, c)
  <2> SUFFICES ASSUME NEW n \in 1 .. Len(J)
               PROVE  /\ J[n].at \in c[1].at .. Len(t)
                      /\ J[n].result # 0 =>
                            /\ IsCall(J[n]) /\ J[n].result \in J[n].at + 1 .. Len(t)
                            /\ t[J[n].result].id = J[n].id
    BY <1>3, <1>10 DEF ItemsOk, J
  <2>1. ASSUME n \in 1 .. Len(I), J[n] = I[n]
        PROVE  /\ J[n].at \in c[1].at .. Len(t)
               /\ J[n].result # 0 =>
                     /\ IsCall(J[n]) /\ J[n].result \in J[n].at + 1 .. Len(t)
                     /\ t[J[n].result].id = J[n].id
    <3>1. I[n].at \in 1 .. Len(s)
      BY <1>1, <1>8, <1>9, <2>1
    <3>2. I[n].result # 0 => I[n].result \in 1 .. Len(s)
      BY <1>1, <1>9, <2>1, <3>1
    <3> QED  BY <1>1, <1>8, <1>9, <2>1, <3>1, <3>2
  <2>2. CASE J = I
    BY <2>1, <2>2
  <2>3. CASE \E it \in AnItem : J = Append(I, it) /\ it.at = Len(s) + 1 /\ it.result = 0
    <3>1. PICK it \in AnItem : J = Append(I, it) /\ it.at = Len(s) + 1 /\ it.result = 0
      BY <2>3
    <3>2. /\ Len(I) \in Nat /\ Len(J) = Len(I) + 1 /\ J[Len(I) + 1] = it
          /\ \A k \in 1 .. Len(I) : J[k] = I[k]
      BY <1>5, <3>1
    <3>3. CASE n = Len(I) + 1
      BY <1>1, <1>8, <3>1, <3>2, <3>3
    <3>4. CASE n # Len(I) + 1
      BY <2>1, <3>2, <3>4
    <3> QED  BY <3>3, <3>4
  <2>4. CASE /\ Len(J) = Len(I)
             /\ \E p \in 1 .. Len(I) :
                    /\ Matched(I[p], J[p], m)
                    /\ \A k \in 1 .. Len(I) : k # p => J[k] = I[k]
    <3>1. PICK p \in 1 .. Len(I) : /\ Matched(I[p], J[p], m)
                                   /\ \A k \in 1 .. Len(I) : k # p => J[k] = I[k]
      BY <2>4
    <3>2. CASE n = p
      <4>1. /\ IsCall(J[n]) /\ J[n].at = I[n].at /\ J[n].result = Len(s) + 1 /\ J[n].id = e.id
        BY <1>2, <3>1, <3>2 DEF Matched, IsCall, Pipeline!IsCall
      <4>2. I[n].at \in c[1].at .. Len(s)
        BY <1>9, <3>2
      <4> QED  BY <1>1, <1>8, <4>1, <4>2
    <3>3. CASE n # p
      BY <2>1, <2>4, <3>1, <3>3
    <3> QED  BY <3>2, <3>3
  <2> QED  BY <1>6, <2>2, <2>3, <2>4
<1>12. CutOk(c)
  <2> DEFINE M == Pipeline!Merged(b)
             N == Pipeline!Merged(c)
             A == Replies(b)
             B == Replies(c)
  <2>1. (\A i \in 0 .. Len(b) : N[i] = M[i]) /\ N[last] = J
    BY <1>2, <1>3, <1>4, MergedAppend DEF Items, J, I, c
  <2>2. B = IF m.class = "ai" THEN Append(A, last) ELSE A
    BY <1>2, <1>3, AnswersAppend DEF Replies, c
  <2>3. /\ \A i \in 0 .. Len(b) : M[i] \in Seq(AnItem)
        /\ \A i, j \in 0 .. Len(b) : i <= j => Len(M[i]) <= Len(M[j])
        /\ A \in Seq(Nat)
        /\ \A k \in 1 .. Len(A) :
              A[k] \in 1 .. Len(b) /\ b[A[k]].class = "ai" /\ \A d \in 1 .. k - 1 : A[d] < A[k]
        /\ \A i \in 1 .. Len(b) : b[i].class = "ai" => \E k \in 1 .. Len(A) : A[k] = i
        /\ \A n \in 1 .. Len(I) : \E i \in 1 .. Len(b) :
              /\ I[n].at = b[i].at
              /\ Len(M[i - 1]) < n /\ n <= Len(M[i])
              /\ IsCall(I[n]) => b[i].class = "ai"
    BY DEF TurnOk, CutOk, I
  <2>4. M[Len(b)] = I
    BY DEF I, Items
  <2> HIDE DEF M, N, A, B
  <2>5. Len(I) \in Nat /\ Len(J) \in Nat /\ Len(I) <= Len(J)
    BY <1>5, <1>6, <1>10
  <2>6. \A i \in 0 .. last : i = last \/ i \in 0 .. Len(b)
    BY <1>3
  <2>7. \A i \in 0 .. last : N[i] \in Seq(AnItem)
    BY <1>10, <2>1, <2>3, <2>6
  <2>8. ASSUME NEW i \in 0 .. last, NEW j \in 0 .. last, i <= j PROVE Len(N[i]) <= Len(N[j])
    <3>1. CASE j \in 0 .. Len(b)
      <4>1. i \in 0 .. Len(b)
        BY <1>3, <2>8, <3>1
      <4> QED  BY <2>1, <2>3, <2>8, <3>1, <4>1
    <3>2. CASE j = last /\ i = last
      BY <2>1, <2>5, <3>2
    <3>3. CASE j = last /\ i \in 0 .. Len(b)
      <4>1. Len(M[i]) <= Len(M[Len(b)]) /\ Len(M[i]) \in Nat
        BY <1>3, <2>3, <3>3
      <4> QED  BY <2>1, <2>4, <2>5, <3>3, <4>1
    <3> QED  BY <2>6, <3>1, <3>2, <3>3
  <2>9. B \in Seq(Nat)
    BY <1>3, <2>2, <2>3
  <2>10. ASSUME NEW k \in 1 .. Len(B)
         PROVE  B[k] \in 1 .. last /\ c[B[k]].class = "ai" /\ \A d \in 1 .. k - 1 : B[d] < B[k]
    <3>1. ASSUME k \in 1 .. Len(A), \A d \in 1 .. k : B[d] = A[d]
          PROVE  B[k] \in 1 .. last /\ c[B[k]].class = "ai" /\ \A d \in 1 .. k - 1 : B[d] < B[k]
      <4>1. /\ A[k] \in 1 .. Len(b) /\ b[A[k]].class = "ai" /\ B[k] = A[k]
            /\ \A d \in 1 .. k - 1 : A[d] < A[k]
        BY <2>3, <3>1
      <4>2. \A d \in 1 .. k - 1 : B[d] = A[d]
        BY <3>1
      <4> QED  BY <1>3, <4>1, <4>2
    <3>2. CASE m.class # "ai"
      BY <2>2, <3>1, <3>2
    <3>3. CASE m.class = "ai"
      <4>1. /\ Len(A) \in Nat /\ Len(B) = Len(A) + 1 /\ B[Len(A) + 1] = last
            /\ \A d \in 1 .. Len(A) : B[d] = A[d]
        BY <1>3, <2>2, <2>3, <3>3
      <4>2. CASE k \in 1 .. Len(A)
        BY <3>1, <4>1, <4>2
      <4>3. CASE k = Len(A) + 1
        <5>1. \A d \in 1 .. k - 1 : B[d] \in 1 .. Len(b)
          BY <2>3, <4>1, <4>3
        <5> QED  BY <1>3, <3>3, <4>1, <4>3, <5>1
      <4> QED  BY <4>1, <4>2, <4>3
    <3> QED  BY <3>2, <3>3
  <2>11. ASSUME NEW i \in 1 .. last, c[i].class = "ai" PROVE \E k \in 1 .. Len(B) : B[k] = i
    <3>1. CASE i = last
      <4>1. Len(A) \in Nat /\ B = Append(A, last)
        BY <1>3, <2>2, <2>3, <2>11, <3>1
      <4>2. Len(A) + 1 \in 1 .. Len(B) /\ B[Len(A) + 1] = last
        BY <1>3, <2>3, <4>1
      <4> QED  BY <3>1, <4>2
    <3>2. CASE i # last
      <4>1. i \in 1 .. Len(b) /\ b[i].class = "ai"
        BY <1>3, <2>11, <3>2
      <4>2. PICK k \in 1 .. Len(A) : A[k] = i
        BY <2>3, <4>1
      <4>3. k \in 1 .. Len(B) /\ B[k] = A[k]
        BY <1>3, <2>2, <2>3
      <4> QED  BY <4>2, <4>3
    <3> QED  BY <3>1, <3>2
  <2>12. ASSUME NEW n \in 1 .. Len(J)
         PROVE  \E i \in 1 .. last : /\ J[n].at = c[i].at
                                     /\ Len(N[i - 1]) < n /\ n <= Len(N[i])
                                     /\ IsCall(J[n]) => c[i].class = "ai"
    <3>1. ASSUME n \in 1 .. Len(I), J[n].at = I[n].at, IsCall(J[n]) => IsCall(I[n])
          PROVE  \E i \in 1 .. last : /\ J[n].at = c[i].at
                                      /\ Len(N[i - 1]) < n /\ n <= Len(N[i])
                                      /\ IsCall(J[n]) => c[i].class = "ai"
      <4>1. PICK i \in 1 .. Len(b) : /\ I[n].at = b[i].at
                                     /\ Len(M[i - 1]) < n /\ n <= Len(M[i])
                                     /\ IsCall(I[n]) => b[i].class = "ai"
        BY <2>3, <3>1
      <4>2. i \in 1 .. last /\ i - 1 \in 0 .. Len(b) /\ i \in 0 .. Len(b)
        BY <1>3
      <4> QED  BY <1>3, <2>1, <3>1, <4>1, <4>2
    <3>2. CASE J = I
      BY <3>1, <3>2
    <3>3. CASE \E it \in AnItem : /\ J = Append(I, it) /\ it.at = Len(s) + 1
                                  /\ it.result = 0 /\ (IsCall(it) => Class(e) = "ai")
      <4>1. PICK it \in AnItem : /\ J = Append(I, it) /\ it.at = Len(s) + 1
                                 /\ it.result = 0 /\ (IsCall(it) => Class(e) = "ai")
        BY <3>3
      <4>2. /\ Len(J) = Len(I) + 1 /\ J[Len(I) + 1] = it
            /\ \A k \in 1 .. Len(I) : J[k] = I[k]
        BY <1>5, <4>1
      <4>3. CASE n = Len(I) + 1
        <5>1. last \in 1 .. last /\ last - 1 = Len(b) /\ Len(b) \in 0 .. Len(b)
          BY <1>3
        <5>2. Len(N[last - 1]) < n /\ n <= Len(N[last])
          BY <2>1, <2>4, <2>5, <4>2, <4>3, <5>1
        <5> QED  BY <1>2, <1>3, <4>1, <4>2, <4>3, <5>1, <5>2
      <4>4. CASE n # Len(I) + 1
        BY <2>5, <3>1, <4>2, <4>4
      <4> QED  BY <4>3, <4>4
    <3>4. CASE /\ Len(J) = Len(I)
               /\ \E p \in 1 .. Len(I) :
                    /\ Matched(I[p], J[p], m)
                    /\ \A k \in 1 .. Len(I) : k # p => J[k] = I[k]
      <4>1. PICK p \in 1 .. Len(I) : /\ Matched(I[p], J[p], m)
                                     /\ \A k \in 1 .. Len(I) : k # p => J[k] = I[k]
        BY <3>4
      <4>2. J[n].at = I[n].at /\ (IsCall(J[n]) => IsCall(I[n]))
        BY <3>4, <4>1 DEF Matched
      <4> QED  BY <3>1, <3>4, <4>2
    <3> QED  BY <1>6, <3>2, <3>3, <3>4
  <2> QED
    BY <1>3, <2>7, <2>8, <2>9, <2>10, <2>11, <2>12 DEF CutOk, N, B, J
<1> QED  BY <1>4, <1>7, <1>11, <1>12 DEF TurnOk, t, m, c, I, J

----------------------------------------------------------------------------
(* THE TURN'S CHUNK AND ITS CYCLES *)

(* Chunks and Session count alike.                                          *)
LEMMA SameCardinality ==
    ASSUME NEW S
    PROVE  Pipeline!Cardinality(S) = Cardinality(S)
BY Zenon DEF Pipeline!Cardinality, Cardinality

(* The chunk that mergeAIBuffer makes of a turn, with its cycles: one for   *)
(* each answer, from its own first item up to that of the next answer.      *)
LEMMA MergeIs ==
    ASSUME NEW s, NEW b, TurnOk(s, b), b # <<>>
    PROVE  LET c == Pipeline!MergeAIBuffer(b)
               M == Pipeline!Merged(b)
               A == Replies(b)
               end(k) == IF k < Len(A) THEN Len(M[A[k + 1] - 1]) ELSE Len(Items(b))
           IN  /\ c \in AChunk
               /\ c.type = "ai" /\ c.items = Items(b)
               /\ Len(c.cycles) = Len(A) /\ DOMAIN c.cycles = 1 .. Len(A)
               /\ \A k \in 1 .. Len(A) :
                     /\ c.cycles[k].at = b[A[k]].at
                     /\ c.cycles[k].start = Len(M[A[k] - 1]) + 1
                     /\ c.cycles[k].end = end(k)
                     /\ c.cycles[k].tools =
                            Cardinality({n \in c.cycles[k].start .. c.cycles[k].end :
                                             IsCall(c.items[n])})
<1> DEFINE c == Pipeline!MergeAIBuffer(b)
           M == Pipeline!Merged(b)
           A == Replies(b)
           I == Items(b)
           starts == [i \in DOMAIN b |-> Len(M[i - 1])]
           end(k) == IF k < Len(A) THEN starts[A[k + 1]] ELSE Len(I)
           cycle(k) == [at |-> b[A[k]].at, start |-> starts[A[k]] + 1, end |-> end(k),
                        tools |-> Pipeline!Cardinality(
                                     {n \in starts[A[k]] + 1 .. end(k) : IsCall(I[n])})]
<1>1. /\ b \in Seq(Msg) /\ DOMAIN b = 1 .. Len(b) /\ Len(b) \in Nat /\ 1 \in 1 .. Len(b)
      /\ I \in Seq(AnItem) /\ A \in Seq(Nat) /\ DOMAIN A = 1 .. Len(A) /\ Len(A) \in Nat
  BY DEF TurnOk, BufOk, ItemsOk, CutOk
<1>2. \A k \in 1 .. Len(A) : A[k] \in 1 .. Len(b)
  BY DEF TurnOk, CutOk
<1>3. \A i \in 0 .. Len(b) : Len(M[i]) \in Nat
  BY DEF TurnOk, CutOk
<1>4. c.cycles = [k \in 1 .. Len(A) |-> cycle(k)]
  <2>1. c.cycles = Pipeline!BuildCycles(b, starts, I)
    BY DEF Pipeline!MergeAIBuffer, Items
  <2>2. Pipeline!BuildCycles(b, starts, I) = [k \in DOMAIN A |-> cycle(k)]
    BY DEF Pipeline!BuildCycles, Replies, IsCall
  <2> QED  BY <1>1, <2>1, <2>2
<1>5. c.type = "ai" /\ c.items = I /\ c.at = b[1].at /\ c.expanded = 0
  BY DEF Pipeline!MergeAIBuffer, Items
<1>6. /\ c = [type |-> "ai", at |-> c.at, expanded |-> 0, thinking |-> c.thinking,
              items |-> c.items, cycles |-> c.cycles]
      /\ c.thinking \in BOOLEAN
  BY DEF Pipeline!MergeAIBuffer
<1>7. \A k \in 1 .. Len(A) : starts[A[k]] = Len(M[A[k] - 1]) /\ starts[A[k]] \in Nat
  <2> TAKE k \in 1 .. Len(A)
  <2>1. A[k] \in 1 .. Len(b) /\ A[k] - 1 \in 0 .. Len(b)
    BY <1>1, <1>2
  <2> QED  BY <1>1, <1>3, <2>1
<1>8. \A k \in 1 .. Len(A) :
         end(k) \in Nat /\ end(k) = IF k < Len(A) THEN Len(M[A[k + 1] - 1]) ELSE Len(I)
  <2> TAKE k \in 1 .. Len(A)
  <2>1. CASE k < Len(A)
    <3>1. k + 1 \in 1 .. Len(A)
      BY <1>1, <2>1
    <3> QED  BY <1>7, <2>1, <3>1
  <2>2. CASE ~ (k < Len(A))
    BY <1>1, <2>2
  <2> QED  BY <2>1, <2>2
<1> HIDE DEF c, M, A, I, starts, end
<1>9. \A k \in 1 .. Len(A) : cycle(k) \in ACycle
  <2> TAKE k \in 1 .. Len(A)
  <2>1. b[A[k]].at \in Nat
    <3>1. b[A[k]] \in Msg
      BY <1>1, <1>2
    <3> QED  BY <3>1 DEF Msg
  <2>2. starts[A[k]] + 1 \in Nat /\ starts[A[k]] + 1 \in Int /\ end(k) \in Int
    BY <1>7, <1>8
  <2>3. IsFiniteSet({n \in starts[A[k]] + 1 .. end(k) : IsCall(I[n])})
    <3>1. IsFiniteSet(starts[A[k]] + 1 .. end(k))
      BY <2>2, FS_Interval
    <3> QED  BY <3>1, FS_Subset
  <2>4. Pipeline!Cardinality({n \in starts[A[k]] + 1 .. end(k) : IsCall(I[n])}) \in Nat
    BY <2>3, FS_CardinalityType, SameCardinality
  <2> QED  BY <1>8, <2>1, <2>2, <2>4 DEF ACycle
<1>10. \A k \in 1 .. Len(A) : /\ cycle(k).at = b[A[k]].at
                              /\ cycle(k).start = starts[A[k]] + 1
                              /\ cycle(k).end = end(k)
                              /\ cycle(k).tools =
                                     Cardinality({n \in starts[A[k]] + 1 .. end(k) :
                                                      IsCall(I[n])})
  BY SameCardinality
<1> HIDE DEF cycle
<1>11. c.cycles \in Seq(ACycle) /\ Len(c.cycles) = Len(A) /\ DOMAIN c.cycles = 1 .. Len(A)
  BY <1>1, <1>4, <1>9
<1>12. c \in AChunk
  <2>1. c.at \in Nat
    <3>1. b[1] \in Msg
      BY <1>1
    <3> QED  BY <1>5, <3>1 DEF Msg
  <2>2. c.items \in Seq(AnItem) /\ "ai" \in Classes
    BY <1>1, <1>5 DEF Classes
  <2> QED  BY <1>6, <1>11, <2>1, <2>2 DEF AChunk
<1>13. \A k \in 1 .. Len(A) :
          /\ c.cycles[k].at = b[A[k]].at
          /\ c.cycles[k].start = Len(M[A[k] - 1]) + 1
          /\ c.cycles[k].end = IF k < Len(A) THEN Len(M[A[k + 1] - 1]) ELSE Len(I)
          /\ c.cycles[k].tools =
                 Cardinality({n \in c.cycles[k].start .. c.cycles[k].end : IsCall(c.items[n])})
  <2> TAKE k \in 1 .. Len(A)
  <2>1. c.cycles[k] = cycle(k)
    BY <1>4
  <2>2. /\ c.cycles[k].at = b[A[k]].at
        /\ c.cycles[k].start = Len(M[A[k] - 1]) + 1
        /\ c.cycles[k].end = IF k < Len(A) THEN Len(M[A[k + 1] - 1]) ELSE Len(I)
    BY <1>7, <1>8, <1>10, <2>1
  <2>3. c.cycles[k].tools = Cardinality({n \in starts[A[k]] + 1 .. end(k) : IsCall(I[n])})
    BY <1>10, <2>1
  <2>4. starts[A[k]] + 1 = c.cycles[k].start /\ end(k) = c.cycles[k].end
    BY <1>10, <2>1
  <2> QED  BY <1>5, <2>2, <2>3, <2>4
<1> QED  BY <1>5, <1>11, <1>12, <1>13 DEF c, M, A, I

(* The cycles of a turn cut its items into consecutive ranges.              *)
LEMMA TurnPartitioned ==
    ASSUME NEW s, NEW b, TurnOk(s, b), b # <<>>
    PROVE  Partitioned(Pipeline!MergeAIBuffer(b))
<1> DEFINE c == Pipeline!MergeAIBuffer(b)
           M == Pipeline!Merged(b)
           A == Replies(b)
           I == Items(b)
           end(k) == IF k < Len(A) THEN Len(M[A[k + 1] - 1]) ELSE Len(I)
           calls == {n \in DOMAIN c.items : IsCall(c.items[n])}
<1>1. /\ c \in AChunk /\ c.items = I
      /\ Len(c.cycles) = Len(A) /\ DOMAIN c.cycles = 1 .. Len(A)
      /\ \A k \in 1 .. Len(A) :
            /\ c.cycles[k].at = b[A[k]].at
            /\ c.cycles[k].start = Len(M[A[k] - 1]) + 1
            /\ c.cycles[k].end = end(k)
            /\ c.cycles[k].tools =
                   Cardinality({n \in c.cycles[k].start .. c.cycles[k].end :
                                    IsCall(c.items[n])})
  <2> HIDE DEF c
  <2> QED  BY MergeIs DEF c
<1>2. /\ b \in Seq(Msg) /\ Len(b) \in Nat
      /\ I \in Seq(AnItem) /\ DOMAIN I = 1 .. Len(I) /\ Len(I) \in Nat
      /\ A \in Seq(Nat) /\ Len(A) \in Nat
      /\ \A i \in 1 .. Len(b) : /\ b[i].at \in Nat
                                /\ \A j \in 1 .. i - 1 : b[j].at < b[i].at
  BY DEF TurnOk, BufOk, ItemsOk, CutOk, Msg
<1>a. /\ \A i \in 0 .. Len(b) : M[i] \in Seq(AnItem)
      /\ \A k \in 1 .. Len(A) :
            A[k] \in 1 .. Len(b) /\ b[A[k]].class = "ai" /\ \A d \in 1 .. k - 1 : A[d] < A[k]
  BY DEF TurnOk, CutOk
<1>3. /\ \A i \in 0 .. Len(b) : Len(M[i]) \in Nat
      /\ \A i, j \in 0 .. Len(b) : i <= j => Len(M[i]) <= Len(M[j])
      /\ \A k \in 1 .. Len(A) :
            A[k] \in 1 .. Len(b) /\ \A d \in 1 .. k - 1 : A[d] < A[k]
      /\ \A i \in 1 .. Len(b) : b[i].class = "ai" => \E k \in 1 .. Len(A) : A[k] = i
      /\ \A n \in 1 .. Len(I) : \E i \in 1 .. Len(b) :
            /\ I[n].at = b[i].at
            /\ Len(M[i - 1]) < n /\ n <= Len(M[i])
            /\ IsCall(I[n]) => b[i].class = "ai"
  <2>1. /\ \A i, j \in 0 .. Len(b) : i <= j => Len(M[i]) <= Len(M[j])
        /\ \A i \in 1 .. Len(b) : b[i].class = "ai" => \E k \in 1 .. Len(A) : A[k] = i
        /\ \A n \in 1 .. Len(I) : \E i \in 1 .. Len(b) :
              /\ I[n].at = b[i].at
              /\ Len(M[i - 1]) < n /\ n <= Len(M[i])
              /\ IsCall(I[n]) => b[i].class = "ai"
    BY DEF TurnOk, CutOk
  <2> HIDE DEF M, A, I
  <2>2. \A i \in 0 .. Len(b) : Len(M[i]) \in Nat
    BY <1>a
  <2>3. \A k \in 1 .. Len(A) : A[k] \in 1 .. Len(b) /\ \A d \in 1 .. k - 1 : A[d] < A[k]
    BY <1>a
  <2> QED  BY <2>1, <2>2, <2>3
<1>4. M[Len(b)] = I
  BY DEF Items
<1> HIDE DEF c, M, A, I
(* Where the range of cycle k ends.                                         *)
<1>5. ASSUME NEW k \in 1 .. Len(A)
      PROVE  /\ end(k) \in Nat /\ end(k) <= Len(I)
             /\ Len(M[A[k] - 1]) \in Nat /\ Len(M[A[k]]) \in Nat
             /\ Len(M[A[k] - 1]) <= Len(M[A[k]]) /\ Len(M[A[k]]) <= end(k)
  <2>1. /\ A[k] \in 0 .. Len(b) /\ A[k] - 1 \in 0 .. Len(b) /\ Len(b) \in 0 .. Len(b)
        /\ A[k] - 1 <= A[k]
    BY <1>2, <1>3
  <2>2. CASE k < Len(A)
    <3>1. k + 1 \in 1 .. Len(A) /\ k \in 1 .. (k + 1) - 1
      BY <1>2, <2>2
    <3>2. A[k + 1] \in 1 .. Len(b) /\ A[k] < A[k + 1]
      BY <1>2, <1>3, <3>1
    <3>3. A[k] \in Nat /\ Len(b) \in Nat
      BY <1>2, <2>1
    <3>4. A[k + 1] - 1 \in 0 .. Len(b) /\ A[k] <= A[k + 1] - 1 /\ A[k + 1] - 1 <= Len(b)
      BY <3>2, <3>3
    <3> QED  BY <1>3, <1>4, <2>1, <2>2, <3>4
  <2>3. CASE ~ (k < Len(A))
    <3>1. end(k) = Len(I) /\ A[k] <= Len(b)
      BY <1>2, <1>3, <2>3
    <3>2. Len(M[A[k]]) <= Len(M[Len(b)]) /\ Len(M[A[k] - 1]) <= Len(M[A[k]])
      BY <1>3, <2>1, <3>1
    <3>3. Len(M[A[k]]) \in Nat /\ Len(M[A[k] - 1]) \in Nat /\ Len(I) \in Nat
      BY <1>2, <1>3, <2>1
    <3> QED  BY <1>4, <3>1, <3>2, <3>3
  <2> QED  BY <2>2, <2>3
<1>6. ASSUME NEW k \in 1 .. Len(A)
      PROVE  LET range == c.cycles[k].start .. c.cycles[k].end
             IN  /\ c.cycles[k].start <= c.cycles[k].end + 1
                 /\ c.cycles[k].tools = Cardinality(calls \cap range)
                 /\ \A n \in DOMAIN c.items : c.items[n].at = c.cycles[k].at => n \in range
  <2> HIDE DEF end
  <2>1. c.cycles[k].start = Len(M[A[k] - 1]) + 1 /\ c.cycles[k].end = end(k)
    BY <1>1
  <2>a. /\ end(k) \in Nat /\ end(k) <= Len(I)
        /\ Len(M[A[k] - 1]) \in Nat /\ Len(M[A[k]]) \in Nat
        /\ Len(M[A[k] - 1]) <= Len(M[A[k]]) /\ Len(M[A[k]]) <= end(k)
    BY <1>5
  <2>2. c.cycles[k].start <= c.cycles[k].end + 1
    BY <2>1, <2>a
  <2>3. calls \cap (c.cycles[k].start .. c.cycles[k].end)
          = {n \in c.cycles[k].start .. end(k) : IsCall(c.items[n])}
    <3>1. DOMAIN c.items = 1 .. Len(I)
      BY <1>1, <1>2
    <3>2. c.cycles[k].start .. c.cycles[k].end \subseteq 1 .. Len(I)
      <4>1. c.cycles[k].start \in Nat /\ c.cycles[k].start >= 1
        BY <2>1, <2>a
      <4>2. c.cycles[k].end \in Nat /\ c.cycles[k].end <= Len(I)
        BY <2>1, <2>a
      <4> QED  BY <1>2, <4>1, <4>2
    <3> QED  BY <2>1, <3>1, <3>2
  <2>4. ASSUME NEW n \in DOMAIN c.items, c.items[n].at = c.cycles[k].at
        PROVE  n \in c.cycles[k].start .. c.cycles[k].end
    <3>1. n \in 1 .. Len(I) /\ I[n].at = b[A[k]].at
      BY <1>1, <1>2, <2>4
    <3>2. PICK i \in 1 .. Len(b) : I[n].at = b[i].at /\ Len(M[i - 1]) < n /\ n <= Len(M[i])
      BY <1>3, <3>1
    <3>3. i = A[k]
      <4>1. A[k] \in 1 .. Len(b) /\ b[i].at = b[A[k]].at
        BY <1>3, <3>1, <3>2
      <4>2. i < A[k] => i \in 1 .. A[k] - 1
        BY <1>2, <4>1
      <4>3. A[k] < i => A[k] \in 1 .. i - 1
        BY <1>2, <4>1
      <4>4. b[i].at \in Nat /\ b[A[k]].at \in Nat
        BY <1>2, <4>1
      <4> QED  BY <1>2, <4>1, <4>2, <4>3, <4>4
    <3>4. Len(M[A[k] - 1]) < n /\ n <= Len(M[A[k]])
      BY <3>2, <3>3
    <3> QED  BY <2>1, <2>a, <3>1, <3>4
  <2> QED  BY <1>1, <2>2, <2>3, <2>4
<1>7. ASSUME NEW k \in 1 .. Len(A) - 1 PROVE c.cycles[k + 1].start = c.cycles[k].end + 1
  <2>1. k \in 1 .. Len(A) /\ k + 1 \in 1 .. Len(A) /\ k < Len(A)
    BY <1>2
  <2> QED  BY <1>1, <2>1
<1>8. c.cycles # <<>> => Last(c.cycles).end = Len(c.items)
  <2> SUFFICES ASSUME c.cycles # <<>> PROVE Last(c.cycles).end = Len(c.items)
    OBVIOUS
  <2>1. Len(A) \in 1 .. Len(A) /\ ~ (Len(A) < Len(A))
    <3>1. c.cycles \in Seq(ACycle)
      BY <1>1 DEF AChunk
    <3> QED  BY <1>1, <1>2, <3>1
  <2> QED  BY <1>1, <2>1 DEF Last
<1>9. ASSUME NEW n \in calls
      PROVE  n >= IF c.cycles = <<>> THEN Len(c.items) + 1 ELSE c.cycles[1].start
  <2>1. n \in 1 .. Len(I) /\ IsCall(I[n])
    BY <1>1, <1>2
  <2>2. PICK i \in 1 .. Len(b) : Len(M[i - 1]) < n /\ b[i].class = "ai"
    BY <1>3, <2>1
  <2>3. PICK k \in 1 .. Len(A) : A[k] = i
    BY <1>3, <2>2
  <2>4. c.cycles # <<>> /\ 1 \in 1 .. Len(A)
    <3>1. 1 \in 1 .. Len(A)
      BY <1>2, <2>3
    <3> QED  BY <1>1, <3>1
  <2>5. A[1] <= A[k] /\ A[1] - 1 \in 0 .. Len(b) /\ A[k] - 1 \in 0 .. Len(b)
    <3>1. A[1] \in 1 .. Len(b) /\ A[k] \in 1 .. Len(b) /\ (k = 1 \/ 1 \in 1 .. k - 1)
      BY <1>2, <1>3, <2>4
    <3> QED  BY <1>2, <1>3, <2>4, <3>1
  <2>6. /\ Len(M[A[1] - 1]) \in Nat /\ Len(M[A[k] - 1]) \in Nat
        /\ Len(M[A[1] - 1]) <= Len(M[A[k] - 1])
    <3>1. A[1] - 1 <= A[k] - 1
      BY <1>3, <2>4, <2>5
    <3> QED  BY <1>3, <2>5, <3>1
  <2>7. c.cycles[1].start = Len(M[A[1] - 1]) + 1
    BY <1>1, <2>4
  <2> QED  BY <2>1, <2>2, <2>3, <2>4, <2>6, <2>7
<1> HIDE DEF calls
<1> QED
  BY <1>1, <1>6, <1>7, <1>8, <1>9 DEF Partitioned, c, calls

----------------------------------------------------------------------------
(* THE CHUNKS OF A TRANSCRIPT AND OF ONE ENTRY MORE *)

(* What BuildChunks carries from message to message.                        *)
Building == [chunks : Seq(AChunk), buf : Seq(Msg), slash : BOOLEAN]

(* What BuildChunks holds after a transcript: the open turn is one, and     *)
(* only a slash command's chunk waits for an expansion.                     *)
BuildInv(s) ==
    LET acc  == Acc(s)
        last == acc.chunks[Len(acc.chunks)]
    IN  /\ Pipeline!Classify(s) \in Seq(Msg)
        /\ acc \in Building
        /\ TurnOk(s, acc.buf)
        /\ acc.slash => /\ acc.buf = <<>> /\ acc.chunks # <<>>
                        /\ last.type # "ai" /\ last.expanded = 0

(* It starts with no chunk and no turn.                                     *)
LEMMA BuildStart ==
    /\ Acc(<<>>) = [chunks |-> <<>>, buf |-> <<>>, slash |-> FALSE]
    /\ BuildInv(<<>>)
<1>1. Len(<<>>) = 0 /\ <<>> \in Seq(Msg) /\ <<>> \in Seq(AChunk)
  OBVIOUS
<1>2. Pipeline!Classify(<<>>) = <<>>
  BY <1>1, ClassifiedIs DEF Pipeline!Classify
<1>3. Acc(<<>>) = [chunks |-> <<>>, buf |-> <<>>, slash |-> FALSE]
  BY <1>1, <1>2, BuiltIs DEF Acc
<1>4. /\ Acc(<<>>).chunks = <<>> /\ Acc(<<>>).buf = <<>> /\ Acc(<<>>).slash = FALSE
      /\ Acc(<<>>) \in Building
  <2>1. Acc(<<>>).chunks = <<>> /\ Acc(<<>>).buf = <<>> /\ Acc(<<>>).slash = FALSE
    BY <1>3
  <2>2. \A q \in Seq(AChunk), r \in Seq(Msg) :
            [chunks |-> q, buf |-> r, slash |-> FALSE] \in Building
    BY DEF Building
  <2> QED  BY <1>1, <1>3, <2>1, <2>2, Zenon
<1> QED  BY <1>1, <1>2, <1>3, <1>4, NoTurn DEF BuildInv

(* The chunk of a message that stands alone has no items.                   *)
LEMMA PlainIs ==
    ASSUME NEW m \in Msg
    PROVE  LET c == Pipeline!PlainChunk(m)
           IN  /\ c \in AChunk /\ c.type = m.class /\ c.at = m.at /\ c.expanded = 0
               /\ c.items = <<>> /\ c.cycles = <<>>
<1>1. <<>> \in Seq(AnItem) /\ <<>> \in Seq(ACycle)
  OBVIOUS
<1> QED  BY <1>1 DEF Pipeline!PlainChunk, AChunk, Msg

(* The chunks of a transcript before and after one more entry.              *)
Dropped(s, e) ==
    Class(e) = "drop" /\ ReadSession(Append(s, e)) = ReadSession(s)

(* Entry e closes the open turn and is shown as a chunk of its own.         *)
ChunkAdded(s, e) ==
    /\ Class(e) \in Alone
    /\ ReadSession(Append(s, e)) =
           Append(ReadSession(s), Pipeline!PlainChunk(NewMessage(e, Len(s) + 1)))

(* Entry e is the text that the slash command of the last chunk expands to. *)
Expanded(s, e) ==
    LET C == ReadSession(s) IN
    /\ e.kind = "expanded" /\ Class(e) = "meta"
    /\ C # <<>> /\ C[Len(C)].type # "ai" /\ C[Len(C)].expanded = 0
    /\ ReadSession(Append(s, e)) =
           [C EXCEPT ![Len(C)] = [C[Len(C)] EXCEPT !.expanded = Len(s) + 1]]

(* Entry e joins the open turn, whose chunk is built anew, or opens one.    *)
TurnLonger(s, e) ==
    LET K == Acc(s).chunks
        b == Acc(s).buf
        c == Append(b, NewMessage(e, Len(s) + 1))
    IN  /\ Class(e) \in Joined
        /\ K \in Seq(AChunk)
        /\ ReadSession(s) = IF b = <<>> THEN K ELSE Append(K, Pipeline!MergeAIBuffer(b))
        /\ ReadSession(Append(s, e)) = Append(K, Pipeline!MergeAIBuffer(c))
        /\ TurnOk(s, b) /\ TurnOk(Append(s, e), c)
        /\ c # <<>>

(* What the viewer shows is what was built, with the open turn flushed.     *)
LEMMA ReadTyped ==
    ASSUME NEW s, BuildInv(s)
    PROVE  /\ ReadSession(s) = Pipeline!Flush(Acc(s))
           /\ ReadSession(s) \in Seq(AChunk)
<1>1. ReadSession(s) = Pipeline!Flush(Acc(s))
  BY DEF ReadSession, Pipeline!BuildChunks, Acc
<1>2. Acc(s).chunks \in Seq(AChunk) /\ TurnOk(s, Acc(s).buf)
  BY DEF BuildInv, Building
<1>3. CASE Acc(s).buf = <<>>
  BY <1>1, <1>2, <1>3 DEF Pipeline!Flush
<1>4. CASE Acc(s).buf # <<>>
  <2>1. Pipeline!MergeAIBuffer(Acc(s).buf) \in AChunk
    BY <1>2, <1>4, MergeIs
  <2> QED  BY <1>1, <1>2, <1>4, <2>1 DEF Pipeline!Flush
<1> QED  BY <1>3, <1>4

(* Reading a transcript that grew by one entry changes the chunks in one of *)
(* these four ways, though the viewer builds them all from the start.       *)
LEMMA BuildStep ==
    ASSUME NEW s \in Seq(Entry), NEW e \in Entry, BuildInv(s)
    PROVE  /\ BuildInv(Append(s, e))
           /\ Dropped(s, e) \/ ChunkAdded(s, e) \/ Expanded(s, e) \/ TurnLonger(s, e)
<1> DEFINE t == Append(s, e)
           m == NewMessage(e, Len(s) + 1)
           acc == Acc(s)
           K == acc.chunks
           b == acc.buf
<1>1. Len(s) \in Nat /\ Len(t) = Len(s) + 1
  BY ReadOneMore
<1>2. Class(e) # "drop" => m \in Msg
  BY <1>1, ClassOf DEF NewMessage, Msg
<1>3. /\ acc \in Building /\ K \in Seq(AChunk) /\ b \in Seq(Msg) /\ acc.slash \in BOOLEAN
      /\ TurnOk(s, b) /\ Pipeline!Classify(s) \in Seq(Msg)
      /\ acc = [chunks |-> K, buf |-> b, slash |-> acc.slash]
  BY DEF BuildInv, Building
<1>4. acc.slash => b = <<>> /\ K # <<>> /\ K[Len(K)].type # "ai" /\ K[Len(K)].expanded = 0
  BY DEF BuildInv
<1>5. m.class = Class(e) /\ m.kind = e.kind /\ m.at = Len(s) + 1
  BY DEF NewMessage
<1>6. ReadSession(s) = Pipeline!Flush(acc) /\ ReadSession(s) \in Seq(AChunk)
  BY ReadTyped
<1>7. CASE Class(e) = "drop"
  <2>1. Pipeline!Classify(t) = Pipeline!Classify(s)
    BY <1>7, ClassifyAppend
  <2>2. Acc(t) = Acc(s) /\ ReadSession(t) = ReadSession(s)
    BY <2>1 DEF Acc, ReadSession
  <2>3. TurnOk(t, b)
    BY <1>3, <1>7, TurnDropped
  <2> QED  BY <1>3, <1>7, <2>1, <2>2, <2>3 DEF BuildInv, Dropped
<1>8. CASE Class(e) # "drop"
  <2>1. Pipeline!Classify(t) = Append(Pipeline!Classify(s), m)
    BY <1>8, ClassifyAppend
  <2>2. Acc(t) = Pipeline!AddMessage(acc, m) /\ Pipeline!Classify(t) \in Seq(Msg)
    <3>1. /\ Len(Append(Pipeline!Classify(s), m)) = Len(Pipeline!Classify(s)) + 1
          /\ Append(Pipeline!Classify(s), m) \in Seq(Msg)
      BY <1>2, <1>3, <1>8, AppendTo
    <3> QED  BY <1>2, <1>3, <1>8, <2>1, <3>1, BuiltAppend DEF Acc
  <2>3. BuildInv(t) => ReadSession(t) = Pipeline!Flush(Acc(t))
    BY ReadTyped
  <2> HIDE DEF t, m, acc, K, b
  <2>4. CASE Class(e) \in Alone
    <3> DEFINE C == ReadSession(s)
               plain == Pipeline!PlainChunk(m)
    <3>1. Acc(t) = [chunks |-> Append(C, plain), buf |-> <<>>, slash |-> m.kind = "slash"]
      <4>1. m.class \in {"user", "system", "compact"} /\ m.kind # "expanded"
        BY <1>5, <2>4, ClassOf DEF Alone
      <4>2. Pipeline!AddMessage(acc, m) =
                [chunks |-> Append(Pipeline!Flush(acc), Pipeline!PlainChunk(m)), buf |-> <<>>,
                 slash |-> m.kind = "slash"]
        BY <4>1 DEF Pipeline!AddMessage
      <4> QED  BY <1>6, <2>2, <4>2
    <3>2. plain \in AChunk /\ plain.type = Class(e) /\ plain.expanded = 0
      BY <1>2, <1>5, <1>8, PlainIs
    <3>3. /\ Append(C, plain) \in Seq(AChunk) /\ Append(C, plain) # <<>>
          /\ Append(C, plain)[Len(Append(C, plain))] = plain
      BY <1>6, <3>2, AppendTo
    <3>4. /\ Acc(t).chunks = Append(C, plain) /\ Acc(t).buf = <<>>
          /\ Acc(t).slash \in BOOLEAN /\ Acc(t) \in Building
      <4>1. <<>> \in Seq(Msg) /\ (m.kind = "slash") \in BOOLEAN
        OBVIOUS
      <4> QED  BY <3>1, <3>3, <4>1 DEF Building
    <3> HIDE DEF C, plain
    <3>5. plain.type # "ai"
      BY <2>4, <3>2 DEF Alone
    <3>6. BuildInv(t)
      BY <2>2, <3>2, <3>3, <3>4, <3>5, NoTurn DEF BuildInv
    <3>7. ReadSession(t) = Append(C, plain)
      BY <2>3, <3>4, <3>6 DEF Pipeline!Flush
    <3> QED  BY <2>4, <3>6, <3>7 DEF ChunkAdded, C, plain, t, m
  <2>5. CASE m.kind = "expanded" /\ acc.slash /\ Class(e) \notin Alone
    <3> DEFINE n == Len(K)
               c == [K[n] EXCEPT !.expanded = Len(s) + 1]
               L == [K EXCEPT ![n] = c]
    <3>1. Acc(t) = [acc EXCEPT !.chunks = L, !.slash = FALSE]
      BY <1>5, <2>2, <2>5 DEF Pipeline!AddMessage, Alone, K
    <3>2. n \in 1 .. Len(K) /\ K[n] \in AChunk /\ Len(K) \in Nat
      BY <1>3, <1>4, <2>5
    <3>3. c \in AChunk
      <4>1. Len(s) + 1 \in Nat
        BY <1>1
      <4> DEFINE x == K[n]
      <4>2. x \in AChunk
        BY <3>2
      <4> HIDE DEF x
      <4>3. [x EXCEPT !.expanded = Len(s) + 1] \in AChunk
        BY <4>1, <4>2 DEF AChunk
      <4> QED  BY <4>3 DEF x
    <3>4. L \in Seq(AChunk)
      BY <1>3, <3>2, <3>3
    <3>5. Acc(t).chunks = L /\ Acc(t).buf = <<>> /\ Acc(t).slash = FALSE /\ Acc(t) \in Building
      BY <1>3, <1>4, <2>5, <3>1, <3>4 DEF Building, b, K
    <3>6. BuildInv(t)
      BY <2>2, <3>5, NoTurn DEF BuildInv
    <3>7. ReadSession(s) = K
      BY <1>4, <1>6, <2>5 DEF Pipeline!Flush, b, K
    <3>8. ReadSession(t) = L
      BY <2>3, <3>5, <3>6 DEF Pipeline!Flush
    <3>9. e.kind = "expanded" /\ Class(e) = "meta"
      BY <1>5, <1>8, <2>5, ClassOf DEF Alone, Classes, Assistant, Calls, Spoken
    <3> QED  BY <1>4, <2>5, <3>6, <3>7, <3>8, <3>9 DEF Expanded, t
  <2>6. CASE ~ (m.kind = "expanded" /\ acc.slash) /\ Class(e) \notin Alone
    <3> DEFINE c == Append(b, m)
    <3>1. Acc(t) = [acc EXCEPT !.buf = c, !.slash = FALSE]
      BY <1>5, <2>2, <2>6 DEF Pipeline!AddMessage, Alone, b
    <3>2. c \in Seq(Msg) /\ c # <<>>
      BY <1>2, <1>3, <1>8, AppendTo
    <3>3. /\ Acc(t).chunks = K /\ Acc(t).buf = c /\ Acc(t).slash = FALSE /\ Acc(t) \in Building
      BY <1>3, <3>1, <3>2 DEF Building, K
    <3>4. Class(e) \in Joined
      BY <1>8, <2>6, ClassOf DEF Joined, Alone, Classes
    <3>5. TurnOk(t, c)
      BY <1>3, <3>4, TurnAppend DEF t, m
    <3>6. BuildInv(t)
      BY <2>2, <3>3, <3>5 DEF BuildInv
    <3>7. ReadSession(t) = Append(K, Pipeline!MergeAIBuffer(c))
      BY <2>3, <3>2, <3>3, <3>6 DEF Pipeline!Flush
    <3>8. ReadSession(s) = IF b = <<>> THEN K ELSE Append(K, Pipeline!MergeAIBuffer(b))
      BY <1>6 DEF Pipeline!Flush, b, K
    <3> QED
      BY <1>3, <3>2, <3>4, <3>5, <3>6, <3>7, <3>8 DEF TurnLonger, t, m, acc, K, b
  <2> QED  BY <2>4, <2>5, <2>6 DEF t
<1> QED  BY <1>7, <1>8

----------------------------------------------------------------------------
(* SETTLED CHUNKS, ANSWERED CALLS *)

(* Replacing the last chunk.                                                *)
LEMMA PutLast ==
    ASSUME NEW K \in Seq(AChunk), NEW c \in AChunk, K # <<>>
    PROVE  LET L == [K EXCEPT ![Len(K)] = c]
           IN  /\ L \in Seq(AChunk) /\ Len(L) = Len(K) /\ L[Len(K)] = c
               /\ Len(K) \in 1 .. Len(K)
               /\ \A k \in 1 .. Len(K) : k # Len(K) => L[k] = K[k]
OBVIOUS

(* The last chunk may change, or one be added: all others stay.             *)
LEMMA StepSettled ==
    ASSUME NEW s \in Seq(Entry), NEW e \in Entry, BuildInv(s),
           NEW C, C = ReadSession(s), NEW D, D = ReadSession(Append(s, e))
    PROVE  /\ C \in Seq(AChunk) /\ D \in Seq(AChunk)
           /\ \A k \in 1 .. Len(C) - 1 : Len(D) > k /\ D[k] = C[k]
<1>1. C \in Seq(AChunk) /\ D \in Seq(AChunk) /\ Len(C) \in Nat
  BY BuildStep, ReadTyped
<1>2. CASE Dropped(s, e)
  BY <1>1, <1>2 DEF Dropped
<1>3. CASE ChunkAdded(s, e)
  <2>1. D = Append(C, Pipeline!PlainChunk(NewMessage(e, Len(s) + 1)))
    BY <1>3 DEF ChunkAdded
  <2> QED  BY <1>1, <2>1
<1>4. CASE Expanded(s, e)
  <2>1. D = [C EXCEPT ![Len(C)] = [C[Len(C)] EXCEPT !.expanded = Len(s) + 1]]
    BY <1>4 DEF Expanded
  <2> QED  BY <1>1, <2>1
<1>5. CASE TurnLonger(s, e)
  <2>1. PICK K, c, d :
            /\ K \in Seq(AChunk)
            /\ C = K \/ C = Append(K, c)
            /\ D = Append(K, d)
    BY <1>5 DEF TurnLonger
  <2>2. Len(K) \in Nat /\ (C = K \/ Len(C) = Len(K) + 1) /\ Len(D) = Len(K) + 1
    BY <1>1, <2>1
  <2>3. \A k \in 1 .. Len(K) : C[k] = K[k] /\ D[k] = K[k]
    <3>1. \A x : \A k \in 1 .. Len(K) : Append(K, x)[k] = K[k]
      BY <2>1
    <3> QED  BY <2>1, <3>1
  <2> QED  BY <1>1, <2>2, <2>3
<1> QED  BY <1>2, <1>3, <1>4, <1>5, BuildStep

(* The results of a chunk and their calls are entries of the transcript.    *)
CallsAnswered(s, c) ==
    /\ Answered(s, c)
    /\ \A n \in DOMAIN c.items :
          c.items[n].result # 0 => c.items[n].at >= 1 /\ c.items[n].result <= Len(s)

(* The results in a turn sit on their calls.                                *)
LEMMA OpenTurnAnswered ==
    ASSUME NEW s \in Seq(Entry), NEW b, TurnOk(s, b), b # <<>>
    PROVE  CallsAnswered(s, Pipeline!MergeAIBuffer(b))
<1> DEFINE c == Pipeline!MergeAIBuffer(b)
           I == Items(b)
<1>1. c.items = I /\ I \in Seq(AnItem) /\ DOMAIN I = 1 .. Len(I)
  BY MergeIs DEF TurnOk, ItemsOk
<1>2. /\ b[1].at \in 1 .. Len(s) /\ Len(s) \in Nat
      /\ \A j \in b[1].at .. Len(s) : Class(s[j]) \notin Alone
  <2>1. 1 \in 1 .. Len(b)
    BY DEF TurnOk, BufOk
  <2> QED  BY <2>1 DEF TurnOk, BufOk
<1> HIDE DEF c, I
<1>3. ASSUME NEW n \in 1 .. Len(I), I[n].result # 0
      PROVE  /\ I[n].at >= 1 /\ I[n].result <= Len(s)
             /\ IsCall(I[n]) /\ s[I[n].result].id = I[n].id /\ I[n].at < I[n].result
             /\ \A j \in I[n].at .. I[n].result :
                   Class(s[j]) \notin {"user", "system", "compact"}
  <2>1. /\ I[n].at \in b[1].at .. Len(s) /\ IsCall(I[n])
        /\ I[n].result \in I[n].at + 1 .. Len(s) /\ s[I[n].result].id = I[n].id
    BY <1>3 DEF TurnOk, ItemsOk, I
  <2>2. \A j \in I[n].at .. I[n].result : j \in b[1].at .. Len(s)
    BY <1>2, <2>1
  <2> QED  BY <1>2, <2>1, <2>2 DEF Alone
<1> QED  BY <1>1, <1>3 DEF CallsAnswered, Answered, c

(* What comes later does not take a result off its call.                    *)
LEMMA CallsStayAnswered ==
    ASSUME NEW s \in Seq(Entry), NEW e \in Entry, NEW c \in AChunk, CallsAnswered(s, c)
    PROVE  CallsAnswered(Append(s, e), c)
<1> DEFINE t == Append(s, e)
<1>1. Len(s) \in Nat /\ Len(t) = Len(s) + 1 /\ \A i \in 1 .. Len(s) : t[i] = s[i]
  BY ReadOneMore
<1> HIDE DEF t
<1>2. ASSUME NEW n \in DOMAIN c.items, c.items[n].result # 0
      PROVE  LET it == c.items[n] IN
             /\ it.at >= 1 /\ it.result <= Len(t)
             /\ IsCall(it) /\ t[it.result].id = it.id /\ it.at < it.result
             /\ \A j \in it.at .. it.result : Class(t[j]) \notin {"user", "system", "compact"}
  <2> DEFINE it == c.items[n]
  <2>1. /\ it.at >= 1 /\ it.result <= Len(s)
        /\ IsCall(it) /\ s[it.result].id = it.id /\ it.at < it.result
        /\ \A j \in it.at .. it.result : Class(s[j]) \notin {"user", "system", "compact"}
    BY <1>2 DEF CallsAnswered, Answered
  <2>2. it.at \in Nat /\ it.result \in Nat
    <3>1. it \in AnItem
      BY DEF AChunk
    <3> QED  BY <3>1 DEF AnItem
  <2> HIDE DEF it
  <2>3. it.result \in 1 .. Len(s) /\ \A j \in it.at .. it.result : j \in 1 .. Len(s)
    BY <1>1, <2>1, <2>2
  <2> QED  BY <1>1, <2>1, <2>2, <2>3 DEF it
<1> QED  BY <1>2 DEF CallsAnswered, Answered, t

(* Every chunk has its results on their calls and its items in cycles.      *)
ChunkOk(s, c) == CallsAnswered(s, c) /\ Partitioned(c)

ChunksOk(s) == \A k \in 1 .. Len(ReadSession(s)) : ChunkOk(s, ReadSession(s)[k])

(* A chunk without items has no result and no cycle.                        *)
LEMMA PlainOk ==
    ASSUME NEW s, NEW m \in Msg
    PROVE  ChunkOk(s, Pipeline!PlainChunk(m))
<1> DEFINE c == Pipeline!PlainChunk(m)
<1>1. c.items = <<>> /\ c.cycles = <<>>
  BY PlainIs
<1>2. DOMAIN <<>> = {} /\ Len(<<>>) = 0 /\ 1 .. Len(<<>>) - 1 = {}
  OBVIOUS
<1> HIDE DEF c
<1>3. /\ DOMAIN c.items = {} /\ DOMAIN c.cycles = {} /\ 1 .. Len(c.cycles) - 1 = {}
      /\ c.cycles = <<>>
  BY <1>1, <1>2, Zenon
<1> QED  BY <1>3 DEF ChunkOk, CallsAnswered, Answered, Partitioned, c

(* One more entry keeps every chunk right.                                  *)
LEMMA StepChunksOk ==
    ASSUME NEW s \in Seq(Entry), NEW e \in Entry, BuildInv(s), ChunksOk(s)
    PROVE  ChunksOk(Append(s, e))
<1> DEFINE t == Append(s, e)
           C == ReadSession(s)
           D == ReadSession(t)
<1>1. C \in Seq(AChunk) /\ D \in Seq(AChunk) /\ Len(C) \in Nat /\ Len(s) + 1 \in Nat
  BY StepSettled, ReadOneMore
<1>2. \A k \in 1 .. Len(C) : C[k] \in AChunk /\ ChunkOk(t, C[k])
  BY <1>1, CallsStayAnswered DEF ChunksOk, ChunkOk
<1> HIDE DEF t, C, D
<1>a. (\A k \in 1 .. Len(D) : ChunkOk(t, D[k])) => ChunksOk(Append(s, e))
  BY DEF ChunksOk, D, t
<1>3. ASSUME NEW c, ChunkOk(t, c), D = Append(C, c) PROVE ChunksOk(Append(s, e))
  <2>1. Len(D) = Len(C) + 1 /\ D[Len(C) + 1] = c /\ \A k \in 1 .. Len(C) : D[k] = C[k]
    BY <1>1, <1>3
  <2> QED  BY <1>1, <1>2, <1>3, <2>1, <1>a
<1>4. CASE Dropped(s, e)
  <2>1. C = D
    BY <1>4 DEF Dropped, C, D, t
  <2> QED  BY <1>2, <2>1, <1>a
<1>5. CASE ChunkAdded(s, e)
  <2>1. NewMessage(e, Len(s) + 1) \in Msg
    BY <1>1, <1>5, ClassOf DEF NewMessage, Msg, ChunkAdded, Alone
  <2> QED  BY <1>3, <1>5, <2>1, PlainOk DEF ChunkAdded, C, D, t
<1>6. CASE Expanded(s, e)
  <2> DEFINE c == C[Len(C)]
             d == [c EXCEPT !.expanded = Len(s) + 1]
  <2>1. C # <<>> /\ D = [C EXCEPT ![Len(C)] = d]
    BY <1>6 DEF Expanded, C, D, t
  <2>2. c \in AChunk /\ ChunkOk(t, c)
    BY <1>1, <1>2, <2>1
  <2> HIDE DEF c
  <2>3. d \in AChunk /\ d.items = c.items /\ d.cycles = c.cycles
    BY <1>1, <2>2 DEF AChunk
  <2> HIDE DEF d
  <2>4. ChunkOk(t, d)
    BY <2>2, <2>3 DEF ChunkOk, CallsAnswered, Answered, Partitioned
  <2>5. Len(D) = Len(C) /\ D[Len(C)] = d /\ \A k \in 1 .. Len(C) : k # Len(C) => D[k] = C[k]
    BY <1>1, <2>1, <2>3, PutLast
  <2> QED  BY <1>1, <1>2, <2>4, <2>5, <1>a
<1>7. CASE TurnLonger(s, e)
  <2> DEFINE K == Acc(s).chunks
             b == Acc(s).buf
             q == Append(b, NewMessage(e, Len(s) + 1))
             c == Pipeline!MergeAIBuffer(q)
  <2>1. /\ K \in Seq(AChunk) /\ D = Append(K, c) /\ TurnOk(t, q) /\ q # <<>>
        /\ C = K \/ C = Append(K, Pipeline!MergeAIBuffer(b))
    BY <1>7 DEF TurnLonger, C, D, t
  <2>2. t \in Seq(Entry)
    BY ReadOneMore DEF t
  <2>3. ChunkOk(t, c)
    BY <2>1, <2>2, OpenTurnAnswered, TurnPartitioned DEF ChunkOk
  <2> HIDE DEF K, b, q, c
  <2>4. Len(K) \in Nat /\ \A k \in 1 .. Len(K) : k \in 1 .. Len(C) /\ C[k] = K[k]
    BY <2>1
  <2>5. Len(D) = Len(K) + 1 /\ D[Len(K) + 1] = c /\ \A k \in 1 .. Len(K) : D[k] = K[k]
    BY <2>1
  <2> QED  BY <1>2, <2>3, <2>4, <2>5, <1>a
<1> QED  BY <1>4, <1>5, <1>6, <1>7, BuildStep

----------------------------------------------------------------------------
(* WHERE AN ENTRY IS SHOWN *)

(* The places of entry i among the items I of chunk k.                      *)
ItemPlaces(I, k, i) == {<<k, n>> : n \in {n \in DOMAIN I : i \in {I[n].at, I[n].result}}}

(* A new chunk adds its own places to those of the others.                  *)
LEMMA PlacesAppend ==
    ASSUME NEW C \in Seq(AChunk), NEW c \in AChunk, NEW i
    PROVE  Places(Append(C, c), i) = Places(C, i) \cup PlacesIn(c, Len(C) + 1, i)
<1> DEFINE D == Append(C, c)
<1>1. /\ DOMAIN C = 1 .. Len(C) /\ DOMAIN D = 1 .. Len(C) + 1 /\ Len(C) \in Nat
      /\ D[Len(C) + 1] = c /\ \A k \in 1 .. Len(C) : D[k] = C[k]
  OBVIOUS
<1>2. \A k \in 1 .. Len(C) + 1 : k \in 1 .. Len(C) \/ k = Len(C) + 1
  BY <1>1
<1>3. Len(C) + 1 \in 1 .. Len(C) + 1 /\ \A k \in 1 .. Len(C) : k \in 1 .. Len(C) + 1
  BY <1>1
<1> HIDE DEF D
<1>4. ASSUME NEW p \in Places(D, i) PROVE p \in Places(C, i) \cup PlacesIn(c, Len(C) + 1, i)
  BY <1>1, <1>2, <1>4 DEF Places
<1>5. ASSUME NEW p \in Places(C, i) PROVE p \in Places(D, i)
  BY <1>1, <1>3, <1>5 DEF Places
<1>6. ASSUME NEW p \in PlacesIn(c, Len(C) + 1, i) PROVE p \in Places(D, i)
  BY <1>1, <1>3, <1>6 DEF Places
<1> QED  BY <1>4, <1>5, <1>6 DEF D

(* So does what the last chunk gained when it was replaced.                 *)
LEMMA PlacesPutLast ==
    ASSUME NEW C \in Seq(AChunk), NEW c \in AChunk, C # <<>>, NEW i, NEW X,
           PlacesIn(c, Len(C), i) = PlacesIn(C[Len(C)], Len(C), i) \cup X
    PROVE  Places([C EXCEPT ![Len(C)] = c], i) = Places(C, i) \cup X
<1> DEFINE D == [C EXCEPT ![Len(C)] = c]
<1>1. /\ DOMAIN C = 1 .. Len(C) /\ DOMAIN D = 1 .. Len(C) /\ Len(C) \in 1 .. Len(C)
      /\ D[Len(C)] = c /\ \A k \in 1 .. Len(C) : k # Len(C) => D[k] = C[k]
  OBVIOUS
<1> HIDE DEF D
<1>4. ASSUME NEW p \in Places(D, i) PROVE p \in Places(C, i) \cup X
  BY <1>1, <1>4 DEF Places
<1>5. ASSUME NEW p \in Places(C, i) PROVE p \in Places(D, i)
  BY <1>1, <1>5 DEF Places
<1>6. ASSUME NEW p \in X PROVE p \in Places(D, i)
  BY <1>1, <1>6 DEF Places
<1> QED  BY <1>4, <1>5, <1>6 DEF D

(* The places X is at most one, and only entry n is shown there anew.       *)
AtMostOne(X) == X = {} \/ \E p : X = {p}
ItemAdds(I, J, k, n, X) ==
    \A i \in Nat \ {0} :
        ItemPlaces(J, k, i) = ItemPlaces(I, k, i) \cup (IF i = n THEN X ELSE {})
Adds(C, D, n, X) ==
    \A i \in Nat \ {0} : Places(D, i) = Places(C, i) \cup (IF i = n THEN X ELSE {})

(* A message of the turn is shown with one item, or with none.              *)
LEMMA ItemPlacesStep ==
    ASSUME NEW I \in Seq(AnItem), NEW e \in Entry, NEW n \in Nat \ {0}, Class(e) \in Joined,
           NEW J, J = Pipeline!AddBlock(I, NewMessage(e, n)), NEW k
    PROVE  \E X : AtMostOne(X) /\ (Visible(e) => X # {}) /\ ItemAdds(I, J, k, n, X)
<1>0. \/ J = I /\ ~ Visible(e)
      \/ \E it \in AnItem : J = Append(I, it) /\ it.at = n /\ it.result = 0
      \/ \E p \in 1 .. Len(I) : /\ Matched(I[p], J[p], NewMessage(e, n))
                                /\ \A j \in 1 .. Len(I) : j # p => J[j] = I[j]
                                /\ J \in Seq(AnItem) /\ Len(J) = Len(I)
  <2> DEFINE m == NewMessage(e, n)
  <2>1. n \in Nat /\ J = Pipeline!AddBlock(I, m)
    OBVIOUS
  <2> HIDE DEF m
  <2>2. \/ J = I /\ ~ Visible(e)
        \/ \E it \in AnItem : J = Append(I, it) /\ it.at = n /\ it.result = 0
        \/ /\ J \in Seq(AnItem) /\ Len(J) = Len(I)
           /\ \E p \in 1 .. Len(I) : /\ Matched(I[p], J[p], m)
                                     /\ \A j \in 1 .. Len(I) : j # p => J[j] = I[j]
    BY <2>1, AddBlockCases DEF m
  <2> QED  BY <2>2 DEF m
<1>1. CASE J = I /\ ~ Visible(e)
  <2>1. ItemAdds(I, J, k, n, {}) /\ AtMostOne({})
    BY <1>1 DEF ItemAdds, AtMostOne
  <2> QED  BY <1>1, <2>1
<1>2. CASE \E it \in AnItem : J = Append(I, it) /\ it.at = n /\ it.result = 0
  <2>1. PICK it \in AnItem : J = Append(I, it) /\ it.at = n /\ it.result = 0
    BY <1>2
  <2>2. /\ DOMAIN I = 1 .. Len(I) /\ DOMAIN J = 1 .. Len(I) + 1 /\ Len(I) \in Nat
        /\ J[Len(I) + 1] = it /\ \A j \in 1 .. Len(I) : J[j] = I[j]
    BY <2>1
  <2>3. \A j \in 1 .. Len(I) + 1 : j \in 1 .. Len(I) \/ j = Len(I) + 1
    BY <2>2
  <2>4. Len(I) + 1 \in 1 .. Len(I) + 1 /\ \A j \in 1 .. Len(I) : j \in 1 .. Len(I) + 1
    BY <2>2
  <2>5. ASSUME NEW i \in Nat \ {0}
        PROVE  ItemPlaces(J, k, i) =
                   ItemPlaces(I, k, i) \cup (IF i = n THEN {<<k, Len(I) + 1>>} ELSE {})
    BY <2>1, <2>2, <2>3, <2>4 DEF ItemPlaces
  <2>6. ItemAdds(I, J, k, n, {<<k, Len(I) + 1>>}) /\ AtMostOne({<<k, Len(I) + 1>>})
    BY <2>5 DEF ItemAdds, AtMostOne
  <2> QED  BY <2>6
<1>3. CASE \E p \in 1 .. Len(I) : /\ Matched(I[p], J[p], NewMessage(e, n))
                                  /\ \A j \in 1 .. Len(I) : j # p => J[j] = I[j]
                                  /\ J \in Seq(AnItem) /\ Len(J) = Len(I)
  <2>1. PICK p \in 1 .. Len(I) : /\ Matched(I[p], J[p], NewMessage(e, n))
                                 /\ \A j \in 1 .. Len(I) : j # p => J[j] = I[j]
                                 /\ J \in Seq(AnItem) /\ Len(J) = Len(I)
    BY <1>3
  <2>2. DOMAIN I = 1 .. Len(I) /\ DOMAIN J = 1 .. Len(I)
    BY <2>1
  <2>3. I[p].result = 0 /\ J[p].at = I[p].at /\ J[p].result = n
    BY <2>1 DEF Matched, NewMessage
  <2>4. ASSUME NEW i \in Nat \ {0}
        PROVE  ItemPlaces(J, k, i) =
                   ItemPlaces(I, k, i) \cup (IF i = n THEN {<<k, p>>} ELSE {})
    BY <2>1, <2>2, <2>3 DEF ItemPlaces
  <2>5. ItemAdds(I, J, k, n, {<<k, p>>}) /\ AtMostOne({<<k, p>>})
    BY <2>4 DEF ItemAdds, AtMostOne
  <2> QED  BY <2>5
<1> QED  BY <1>0, <1>1, <1>2, <1>3

(* A new entry is shown in one place, or in none, and the places of the     *)
(* others stay.                                                             *)
LEMMA PlacesStep ==
    ASSUME NEW s \in Seq(Entry), NEW e \in Entry, BuildInv(s)
    PROVE  \E X : /\ AtMostOne(X)
                  /\ Visible(e) => X # {}
                  /\ Class(e) = "drop" => X = {}
                  /\ Adds(ReadSession(s), ReadSession(Append(s, e)), Len(s) + 1, X)
<1> DEFINE t == Append(s, e)
           n == Len(s) + 1
           C == ReadSession(s)
           D == ReadSession(t)
<1>1. C \in Seq(AChunk) /\ D \in Seq(AChunk) /\ Len(C) \in Nat /\ n \in Nat \ {0}
  BY StepSettled, ReadOneMore
<1>2. CASE Dropped(s, e)
  <2>1. Adds(C, D, n, {}) /\ AtMostOne({})
    BY <1>2 DEF Dropped, Adds, AtMostOne
  <2>2. ~ Visible(e)
    BY <1>2 DEF Dropped, Visible
  <2> QED  BY <2>1, <2>2
<1>3. CASE ChunkAdded(s, e)
  <2> DEFINE m == NewMessage(e, n)
             c == Pipeline!PlainChunk(m)
  <2>1. m \in Msg /\ m.at = n /\ m.class \in Alone
    BY <1>1, <1>3, ClassOf DEF NewMessage, Msg, ChunkAdded, Alone
  <2>2. c \in AChunk /\ c.type # "ai" /\ c.at = n /\ c.expanded = 0 /\ c.items = <<>>
    BY <2>1, PlainIs DEF Alone
  <2>3. D = Append(C, c)
    BY <1>3 DEF ChunkAdded
  <2> HIDE DEF c
  <2>4. ASSUME NEW i \in Nat \ {0}
        PROVE  PlacesIn(c, Len(C) + 1, i) = IF i = n THEN {<<Len(C) + 1, 0>>} ELSE {}
    <3>1. {j \in DOMAIN c.items : i \in {c.items[j].at, c.items[j].result}} = {}
      BY <2>2
    <3> QED  BY <2>2, <3>1 DEF PlacesIn
  <2> HIDE DEF C, D
  <2>a. \A i \in Nat \ {0} :
            Places(D, i) = Places(C, i) \cup (IF i = n THEN {<<Len(C) + 1, 0>>} ELSE {})
    BY <1>1, <2>2, <2>3, <2>4, PlacesAppend
  <2>5. Adds(C, D, n, {<<Len(C) + 1, 0>>}) /\ AtMostOne({<<Len(C) + 1, 0>>})
    BY <2>a DEF Adds, AtMostOne
  <2>6. Class(e) # "drop"
    BY <1>3 DEF ChunkAdded, Alone
  <2> QED  BY <2>5, <2>6 DEF C, D
<1>4. CASE Expanded(s, e)
  <2> DEFINE c == C[Len(C)]
             d == [c EXCEPT !.expanded = n]
  <2>1. C # <<>> /\ c.type # "ai" /\ c.expanded = 0 /\ D = [C EXCEPT ![Len(C)] = d]
    BY <1>4 DEF Expanded
  <2>2. c \in AChunk /\ ~ Visible(e) /\ Class(e) # "drop"
    BY <1>1, <1>4, <2>1 DEF Expanded, Visible
  <2> HIDE DEF c, C, D
  <2>3. /\ d \in AChunk /\ d.items = c.items /\ d.type = c.type /\ d.at = c.at
        /\ d.expanded = n
    BY <1>1, <2>2 DEF AChunk
  <2> HIDE DEF d
  <2>4. ASSUME NEW i \in Nat \ {0}
        PROVE  PlacesIn(d, Len(C), i) =
                   PlacesIn(c, Len(C), i) \cup (IF i = n THEN {<<Len(C), 0>>} ELSE {})
    BY <2>1, <2>3 DEF PlacesIn
  <2>5. ASSUME NEW i \in Nat \ {0}
        PROVE  Places(D, i) = Places(C, i) \cup (IF i = n THEN {<<Len(C), 0>>} ELSE {})
    <3> DEFINE X == IF i = n THEN {<<Len(C), 0>>} ELSE {}
    <3>1. PlacesIn(d, Len(C), i) = PlacesIn(C[Len(C)], Len(C), i) \cup X
      BY <2>4 DEF c
    <3> HIDE DEF X
    <3>2. Places([C EXCEPT ![Len(C)] = d], i) = Places(C, i) \cup X
      <4>1. C \in Seq(AChunk) /\ d \in AChunk /\ C # <<>>
        BY <1>1, <2>1, <2>3
      <4> QED  BY <3>1, <4>1, PlacesPutLast
    <3> QED  BY <2>1, <3>2 DEF X
  <2>6. Adds(C, D, n, {<<Len(C), 0>>}) /\ AtMostOne({<<Len(C), 0>>})
    BY <2>5 DEF Adds, AtMostOne
  <2> QED  BY <2>2, <2>6 DEF C, D
<1>5. CASE TurnLonger(s, e)
  <2> DEFINE K == Acc(s).chunks
             b == Acc(s).buf
             m == NewMessage(e, n)
             q == Append(b, m)
             k == Len(K) + 1
             I == Items(b)
             J == Items(q)
  <2>1. /\ K \in Seq(AChunk) /\ Class(e) \in Joined
        /\ C = IF b = <<>> THEN K ELSE Append(K, Pipeline!MergeAIBuffer(b))
        /\ D = Append(K, Pipeline!MergeAIBuffer(q))
        /\ TurnOk(s, b) /\ TurnOk(t, q) /\ q # <<>>
    BY <1>5 DEF TurnLonger
  <2>2. I \in Seq(AnItem) /\ J = Pipeline!AddBlock(I, m)
    BY <2>1, TurnAppend DEF TurnOk, ItemsOk
  <2>3. ASSUME NEW r, NEW x, TurnOk(x, r), r # <<>>, NEW i
        PROVE  /\ Pipeline!MergeAIBuffer(r) \in AChunk
               /\ PlacesIn(Pipeline!MergeAIBuffer(r), k, i) = ItemPlaces(Items(r), k, i)
    <3>1. /\ Pipeline!MergeAIBuffer(r) \in AChunk
          /\ Pipeline!MergeAIBuffer(r).type = "ai" /\ Pipeline!MergeAIBuffer(r).items = Items(r)
      BY <2>3, MergeIs
    <3> QED  BY <3>1 DEF PlacesIn, ItemPlaces
  <2>4. PICK X : AtMostOne(X) /\ (Visible(e) => X # {}) /\ ItemAdds(I, J, k, n, X)
    <3> HIDE DEF I, J, k, m, n
    <3>1. J = Pipeline!AddBlock(I, NewMessage(e, n))
      BY <2>2 DEF m
    <3>2. I \in Seq(AnItem) /\ n \in Nat \ {0} /\ Class(e) \in Joined
      BY <1>1, <2>1, <2>2
    <3> QED  BY <3>1, <3>2, ItemPlacesStep
  <2> HIDE DEF C, D, t, K, k
  <2>5. ASSUME NEW i \in Nat \ {0} PROVE Places(C, i) = Places(K, i) \cup ItemPlaces(I, k, i)
    <3>1. CASE b = <<>>
      <4>1. 1 .. 0 = {} /\ Len(<<>>) = 0
        OBVIOUS
      <4>2. DOMAIN I = {}
        <5>1. I = <<>>
          BY <3>1, <4>1, MergedIs DEF Items
        <5> QED  BY <5>1, DOMAIN <<>> = {}
      <4>3. ItemPlaces(I, k, i) = {}
        BY <4>2 DEF ItemPlaces
      <4> QED  BY <2>1, <3>1, <4>3
    <3>2. CASE b # <<>>
      <4>1. C = Append(K, Pipeline!MergeAIBuffer(b))
        BY <2>1, <3>2
      <4>2. /\ Pipeline!MergeAIBuffer(b) \in AChunk
            /\ PlacesIn(Pipeline!MergeAIBuffer(b), k, i) = ItemPlaces(I, k, i)
        BY <2>1, <2>3, <3>2
      <4> QED  BY <2>1, <4>1, <4>2, PlacesAppend DEF k
    <3> QED  BY <3>1, <3>2
  <2>6. ASSUME NEW i \in Nat \ {0} PROVE Places(D, i) = Places(K, i) \cup ItemPlaces(J, k, i)
    <3>1. /\ Pipeline!MergeAIBuffer(q) \in AChunk
          /\ PlacesIn(Pipeline!MergeAIBuffer(q), k, i) = ItemPlaces(J, k, i)
      BY <2>1, <2>3
    <3> QED  BY <2>1, <3>1, PlacesAppend DEF k
  <2> HIDE DEF I, J
  <2>7. Adds(C, D, n, X)
    BY <2>4, <2>5, <2>6 DEF Adds, ItemAdds
  <2>8. Class(e) # "drop"
    BY <2>1 DEF Joined
  <2> QED  BY <2>4, <2>7, <2>8 DEF C, D, t
<1> QED  BY <1>2, <1>3, <1>4, <1>5, BuildStep

(* Each entry to be seen has its place, and nothing has one that is not.    *)
PlacesOk(s) ==
    LET C == ReadSession(s) IN
    /\ \A i \in Nat : i > Len(s) => Places(C, i) = {}
    /\ \A i \in 1 .. Len(s) : /\ AtMostOne(Places(C, i))
                              /\ Visible(s[i]) => Places(C, i) # {}
                              /\ Class(s[i]) = "drop" => Places(C, i) = {}

(* One more entry has its place, and takes none from another.               *)
LEMMA StepPlacesOk ==
    ASSUME NEW s \in Seq(Entry), NEW e \in Entry, BuildInv(s), PlacesOk(s)
    PROVE  PlacesOk(Append(s, e))
<1> DEFINE t == Append(s, e)
           C == ReadSession(s)
           D == ReadSession(t)
<1>1. /\ Len(s) \in Nat /\ Len(t) = Len(s) + 1 /\ t[Len(s) + 1] = e
      /\ \A i \in 1 .. Len(s) : t[i] = s[i]
  BY ReadOneMore
<1>2. PICK X : /\ AtMostOne(X)
               /\ Visible(e) => X # {}
               /\ Class(e) = "drop" => X = {}
               /\ Adds(C, D, Len(s) + 1, X)
  BY PlacesStep
<1>3. /\ \A i \in Nat : i > Len(s) => Places(C, i) = {}
      /\ \A i \in 1 .. Len(s) : /\ AtMostOne(Places(C, i))
                                /\ Visible(s[i]) => Places(C, i) # {}
                                /\ Class(s[i]) = "drop" => Places(C, i) = {}
  BY DEF PlacesOk
<1> HIDE DEF t, C, D
<1>4. \A i \in Nat : i > Len(t) => Places(D, i) = {}
  BY <1>1, <1>2, <1>3 DEF Adds
<1>5. ASSUME NEW i \in 1 .. Len(t)
      PROVE  /\ AtMostOne(Places(D, i))
             /\ Visible(t[i]) => Places(D, i) # {}
             /\ Class(t[i]) = "drop" => Places(D, i) = {}
  <2>a. Places(D, i) = Places(C, i) \cup (IF i = Len(s) + 1 THEN X ELSE {})
    <3>1. i \in Nat \ {0}
      BY <1>1
    <3> QED  BY <1>2, <3>1 DEF Adds
  <2>1. CASE i = Len(s) + 1
    <3>1. Places(C, i) = {}
      BY <1>1, <1>3, <2>1
    <3>2. Places(D, i) = X
      BY <2>1, <2>a, <3>1
    <3> QED  BY <1>1, <1>2, <2>1, <3>2
  <2>2. CASE i # Len(s) + 1
    <3>1. i \in 1 .. Len(s)
      BY <1>1, <2>2
    <3>2. Places(D, i) = Places(C, i)
      BY <2>2, <2>a
    <3> QED  BY <1>1, <1>3, <3>1, <3>2
  <2> QED  BY <2>1, <2>2
<1> QED  BY <1>4, <1>5 DEF PlacesOk, t, D

----------------------------------------------------------------------------
(* The theorems. *)

(* The inductive invariant: what the viewer holds is ReadSession of what has*)
(* been read, and that keeps everything above.                              *)
ViewInv ==
    /\ read \in Seq(Entry)
    /\ chunks = ReadSession(read)
    /\ BuildInv(read) /\ ChunksOk(read) /\ PlacesOk(read)

(* It holds of an empty transcript.                                         *)
LEMMA InitView == SessionInit => ViewInv
<1> SUFFICES ASSUME SessionInit PROVE ViewInv
  OBVIOUS
<1>1. read = <<>> /\ chunks = <<>> /\ read \in Seq(Entry) /\ Len(read) = 0
  BY DEF SessionInit, Init
<1>2. BuildInv(read)
  BY <1>1, BuildStart
<1>3. ReadSession(read) = <<>>
  BY <1>1, <1>2, BuildStart, ReadTyped DEF Pipeline!Flush
<1>4. ChunksOk(read)
  BY <1>3 DEF ChunksOk
<1>5. \A i : Places(ReadSession(read), i) = {}
  <2>1. DOMAIN <<>> = {}
    OBVIOUS
  <2> QED  BY <1>3, <2>1 DEF Places
<1>6. PlacesOk(read)
  BY <1>1, <1>5 DEF PlacesOk
<1> QED  BY <1>1, <1>2, <1>3, <1>4, <1>6 DEF ViewInv

(* Every step reads one entry and builds the chunks again, or does nothing. *)
LEMMA WriteReads ==
    ASSUME [SessionNext]_<<vars, chunks>>
    PROVE  \/ UNCHANGED <<read, chunks>>
           \/ \E e \in Entry : read' = Append(read, e) /\ chunks' = ReadSession(Append(read, e))
BY DEF SessionNext, Write, Scan, Thinking, TextOutput, ToolUse, ExitPlanMode, ShutdownApproval,
   ToolResult, Interruption, Skip, Reading, vars

(* And one more entry keeps it.                                             *)
LEMMA NextView == ViewInv /\ [SessionNext]_<<vars, chunks>> => ViewInv'
<1> SUFFICES ASSUME ViewInv, [SessionNext]_<<vars, chunks>> PROVE ViewInv'
  OBVIOUS
<1>1. CASE UNCHANGED <<read, chunks>>
  BY <1>1 DEF ViewInv
<1>2. CASE \E e \in Entry : read' = Append(read, e) /\ chunks' = ReadSession(Append(read, e))
  <2>1. PICK e \in Entry : read' = Append(read, e) /\ chunks' = ReadSession(Append(read, e))
    BY <1>2
  <2>2. read \in Seq(Entry) /\ BuildInv(read) /\ ChunksOk(read) /\ PlacesOk(read)
    BY DEF ViewInv
  <2>3. Append(read, e) \in Seq(Entry)
    BY <2>2
  <2> QED  BY <2>1, <2>2, <2>3, BuildStep, StepChunksOk, StepPlacesOk DEF ViewInv
<1> QED  BY <1>1, <1>2, WriteReads

(* However a transcript grows, a chunk that another one follows is never    *)
(* changed: BuildChunks flushes a turn once, and only a slash command that  *)
(* is still the last chunk takes the text it expands to (chunk.go).         *)
THEOREM ChunksSettle == SessionSpec => SettledChunks
<1>1. ViewInv /\ [SessionNext]_<<vars, chunks>>
          => [\A k \in 1 .. Len(chunks) - 1 : Len(chunks') > k /\ chunks'[k] = chunks[k]]_chunks
  <2> SUFFICES ASSUME ViewInv, [SessionNext]_<<vars, chunks>>, chunks' # chunks
               PROVE  \A k \in 1 .. Len(chunks) - 1 : Len(chunks') > k /\ chunks'[k] = chunks[k]
    OBVIOUS
  <2>1. PICK e \in Entry : read' = Append(read, e) /\ chunks' = ReadSession(Append(read, e))
    BY WriteReads
  <2> QED  BY <2>1, StepSettled DEF ViewInv
<1> QED  BY <1>1, InitView, NextView, PTL DEF SessionSpec, SettledChunks

(* However calls and results are ordered, and ids missing or used twice, a  *)
(* result is put on a call of its own id that came before it in the same    *)
(* turn (chunk.go: the pending map of mergeAIBuffer).                       *)
THEOREM ResultsSitOnCalls == SessionSpec => []ResultsAnswerCalls
<1>1. ViewInv => ResultsAnswerCalls
  <2> SUFFICES ASSUME ViewInv, NEW k \in DOMAIN chunks PROVE Answered(read, chunks[k])
    BY DEF ResultsAnswerCalls
  <2>1. k \in 1 .. Len(ReadSession(read)) /\ chunks = ReadSession(read)
    BY ReadTyped DEF ViewInv
  <2> QED  BY <2>1 DEF ViewInv, ChunksOk, ChunkOk, CallsAnswered
<1> QED  BY <1>1, InitView, NextView, PTL DEF SessionSpec

(* Every call of a turn is in one inference cycle, which counts it, and     *)
(* every item of an answer is in the cycle of it (chunk.go: buildCycles).   *)
THEOREM CyclesCutTurns == SessionSpec => []CyclesPartition
<1>1. ViewInv => CyclesPartition
  <2> SUFFICES ASSUME ViewInv, NEW k \in DOMAIN chunks PROVE Partitioned(chunks[k])
    BY DEF CyclesPartition
  <2>1. k \in 1 .. Len(ReadSession(read)) /\ chunks = ReadSession(read)
    BY ReadTyped DEF ViewInv
  <2> QED  BY <2>1 DEF ViewInv, ChunksOk, ChunkOk
<1> QED  BY <1>1, InitView, NextView, PTL DEF SessionSpec

(* Whatever is interleaved, an entry that is to be seen is shown in one     *)
(* place and a dropped one in none: no flush between two chunks, no result  *)
(* without a call and no expanded command loses or doubles one (chunk.go).  *)
THEOREM EveryEntryShownOnce == SessionSpec => []ShownOnce
<1>1. ViewInv => ShownOnce
  <2> SUFFICES ASSUME ViewInv, NEW i \in DOMAIN read
               PROVE  /\ Visible(read[i]) => Cardinality(Places(chunks, i)) = 1
                      /\ Class(read[i]) = "drop" => Places(chunks, i) = {}
                      /\ read[i].kind = "expanded" => Cardinality(Places(chunks, i)) <= 1
    BY DEF ShownOnce
  <2>1. /\ AtMostOne(Places(chunks, i))
        /\ Visible(read[i]) => Places(chunks, i) # {}
        /\ Class(read[i]) = "drop" => Places(chunks, i) = {}
    BY DEF ViewInv, PlacesOk
  <2>2. Places(chunks, i) = {} \/ \E p : Places(chunks, i) = {p}
    BY <2>1 DEF AtMostOne
  <2>3. Cardinality({}) = 0 /\ \A p : Cardinality({p}) = 1
    BY FS_EmptySet, FS_Singleton
  <2>4. CASE Places(chunks, i) = {}
    <3>1. Cardinality(Places(chunks, i)) = 0 /\ 0 <= 1
      BY <2>3, <2>4
    <3> QED  BY <2>1, <2>4, <3>1
  <2>5. CASE \E p : Places(chunks, i) = {p}
    <3>1. PICK p : Places(chunks, i) = {p}
      BY <2>5
    <3>2. Cardinality(Places(chunks, i)) = 1
      BY <2>3, <3>1, Zenon
    <3> QED  BY <2>1, <3>1, <3>2
  <2> QED  BY <2>2, <2>4, <2>5
<1> QED  BY <1>1, InitView, NextView, PTL DEF SessionSpec

----------------------------------------------------------------------------
(* THE TWO VERDICTS *)

(* Some sequences one after the other, as FlattenSeq has them: f[n] are the *)
(* first n of them.                                                         *)
LEMMA FlattenIs ==
    ASSUME NEW S, NEW ss \in Seq(Seq(S))
    PROVE  \E f : /\ f[0] = <<>>
                  /\ \A n \in 1 .. Len(ss) : f[n] = f[n - 1] \o ss[n]
                  /\ \A n \in 0 .. Len(ss) : f[n] \in Seq(S)
                  /\ Pipeline!FlattenSeq(ss) = f[Len(ss)]
<1> DEFINE from(x, n) == x \o ss[n]
           Is(f, m) == f = [i \in 1 .. m |-> IF i = 1 THEN ss[i] ELSE from(f[i - 1], i)]
           T == {m \in Nat : ~ \E f : Is(f, m)}
<1>0. /\ Len(ss) \in Nat /\ \A i \in 1 .. Len(ss) : ss[i] \in Seq(S)
      /\ <<>> \in Seq(S)
      /\ \A q \in Seq(S) : <<>> \o q = q
  BY ConcatEmptySeq
<1>1. T = {}
  <2> HIDE DEF from
  <2>1. 0 \notin T
    <3>1. PICK f : f = [n \in 1 .. 0 |-> <<>>]
      OBVIOUS
    <3>2. Is(f, 0)
      BY <3>1
    <3> QED  BY <3>2
  <2>2. ASSUME NEW m \in Nat, m \notin T PROVE m + 1 \notin T
    <3>1. PICK f : Is(f, m)
      BY <2>2
    <3>2. PICK g : g = [n \in 1 .. m + 1 |->
                           IF n \in 1 .. m THEN f[n]
                           ELSE IF n = 1 THEN ss[n] ELSE from(f[n - 1], n)]
      OBVIOUS
    <3>3. \A n \in 1 .. m : g[n] = f[n]
      BY <3>2
    <3>4. ASSUME NEW n \in 1 .. m + 1
          PROVE  g[n] = IF n = 1 THEN ss[n] ELSE from(g[n - 1], n)
      <4>1. CASE n = m + 1
        <5>1. n \notin 1 .. m /\ (n # 1 => n - 1 \in 1 .. m)
          BY <4>1
        <5> QED  BY <3>2, <3>3, <5>1
      <4>2. CASE n # m + 1
        <5>1. n \in 1 .. m /\ (n # 1 => n - 1 \in 1 .. m)
          BY <4>2
        <5>2. f[n] = IF n = 1 THEN ss[n] ELSE from(f[n - 1], n)
          BY <3>1, <5>1
        <5> QED  BY <3>3, <5>1, <5>2
      <4> QED  BY <4>1, <4>2
    <3>5. Is(g, m + 1)
      BY <3>2, <3>4
    <3> QED  BY <3>5
  <2> HIDE DEF T
  <2>3. T \in SUBSET Nat
    BY DEF T
  <2> QED  BY <2>1, <2>2, <2>3, NoLeast
<1>2. PICK h : h = CHOOSE f : Is(f, Len(ss))
  OBVIOUS
<1>3. Is(h, Len(ss))
  BY <1>0, <1>1, <1>2
<1>4. Pipeline!FlattenSeq(ss) = IF Len(ss) = 0 THEN ss ELSE h[Len(ss)]
  BY <1>2 DEF Pipeline!FlattenSeq
<1> HIDE DEF from
<1>5. \A n \in 1 .. Len(ss) : h[n] = IF n = 1 THEN ss[n] ELSE from(h[n - 1], n)
  BY <1>3
<1>6. PICK f : f = [n \in 0 .. Len(ss) |-> IF n = 0 THEN <<>> ELSE h[n]]
  OBVIOUS
<1>7. f[0] = <<>> /\ \A n \in 1 .. Len(ss) : f[n] = h[n]
  BY <1>0, <1>6
<1>8. ASSUME NEW n \in 1 .. Len(ss) PROVE f[n] = f[n - 1] \o ss[n]
  <2>1. CASE n = 1
    <3>1. f[n] = ss[n] /\ f[n - 1] = <<>> /\ ss[n] \in Seq(S)
      BY <1>0, <1>5, <1>7, <2>1
    <3> QED  BY <1>0, <3>1
  <2>2. CASE n # 1
    <3>1. n - 1 \in 1 .. Len(ss)
      BY <1>0, <2>2
    <3> QED  BY <1>5, <1>7, <2>2, <3>1 DEF from
  <2> QED  BY <2>1, <2>2
<1>9. \A n \in 0 .. Len(ss) : f[n] \in Seq(S)
  <2> DEFINE U == {n \in Nat : n <= Len(ss) /\ f[n] \notin Seq(S)}
  <2>1. 0 \notin U
    BY <1>0, <1>7
  <2>2. ASSUME NEW n \in Nat, n \notin U PROVE n + 1 \notin U
    <3> SUFFICES ASSUME n + 1 <= Len(ss) PROVE f[n + 1] \in Seq(S)
      OBVIOUS
    <3>1. n + 1 \in 1 .. Len(ss) /\ (n + 1) - 1 = n /\ n <= Len(ss)
      BY <1>0
    <3>2. f[n] \in Seq(S) /\ ss[n + 1] \in Seq(S)
      BY <1>0, <2>2, <3>1
    <3>3. f[n + 1] = f[n] \o ss[n + 1]
      BY <1>8, <3>1
    <3> QED  BY <3>2, <3>3, ConcatProperties
  <2> HIDE DEF U
  <2>3. U \in SUBSET Nat
    BY DEF U
  <2>4. U = {}
    BY <2>1, <2>2, <2>3, NoLeast
  <2> QED  BY <1>0, <2>4 DEF U
<1>10. Pipeline!FlattenSeq(ss) = f[Len(ss)]
  <2>1. CASE Len(ss) = 0
    <3>1. ss = <<>>
      BY <2>1, EmptySeq
    <3> QED  BY <1>4, <1>7, <2>1, <3>1
  <2>2. CASE Len(ss) # 0
    <3>1. Len(ss) \in 1 .. Len(ss)
      BY <1>0, <2>2
    <3> QED  BY <1>4, <1>7, <2>2, <3>1
  <2> QED  BY <2>1, <2>2
<1> QED  BY <1>7, <1>8, <1>9, <1>10

(* One more sequence is put behind the others.                              *)
LEMMA FlattenAppend ==
    ASSUME NEW S, NEW ss \in Seq(Seq(S)), NEW x \in Seq(S)
    PROVE  /\ Pipeline!FlattenSeq(ss) \in Seq(S)
           /\ Pipeline!FlattenSeq(Append(ss, x)) = Pipeline!FlattenSeq(ss) \o x
<1> DEFINE tt == Append(ss, x)
<1>1. /\ tt \in Seq(Seq(S)) /\ Len(ss) \in Nat /\ Len(tt) = Len(ss) + 1 /\ tt[Len(tt)] = x
      /\ \A n \in 1 .. Len(ss) : tt[n] = ss[n]
  BY AppendTo
<1> HIDE DEF tt
<1>2. PICK f : /\ f[0] = <<>>
               /\ \A n \in 1 .. Len(ss) : f[n] = f[n - 1] \o ss[n]
               /\ \A n \in 0 .. Len(ss) : f[n] \in Seq(S)
               /\ Pipeline!FlattenSeq(ss) = f[Len(ss)]
  BY FlattenIs
<1>3. PICK g : /\ g[0] = <<>>
               /\ \A n \in 1 .. Len(tt) : g[n] = g[n - 1] \o tt[n]
               /\ \A n \in 0 .. Len(tt) : g[n] \in Seq(S)
               /\ Pipeline!FlattenSeq(tt) = g[Len(tt)]
  BY <1>1, FlattenIs
<1> DEFINE T == {n \in Nat : n <= Len(ss) /\ g[n] # f[n]}
<1>4. T = {}
  <2>1. 0 \notin T
    BY <1>2, <1>3
  <2>2. ASSUME NEW n \in Nat, n \notin T PROVE n + 1 \notin T
    <3> SUFFICES ASSUME n + 1 <= Len(ss) PROVE g[n + 1] = f[n + 1]
      OBVIOUS
    <3>1. /\ n + 1 \in 1 .. Len(ss) /\ n + 1 \in 1 .. Len(tt)
          /\ (n + 1) - 1 = n /\ n <= Len(ss)
      BY <1>1
    <3>2. g[n] = f[n] /\ tt[n + 1] = ss[n + 1]
      BY <1>1, <2>2, <3>1
    <3> QED  BY <1>2, <1>3, <3>1, <3>2
  <2> HIDE DEF T
  <2>3. T \in SUBSET Nat
    BY DEF T
  <2> QED  BY <2>1, <2>2, <2>3, NoLeast
<1>5. g[Len(ss)] = f[Len(ss)]
  BY <1>1, <1>4
<1>6. Len(tt) \in 1 .. Len(tt) /\ Len(tt) - 1 = Len(ss) /\ Len(ss) \in 0 .. Len(ss)
  BY <1>1
<1> QED  BY <1>1, <1>2, <1>3, <1>5, <1>6 DEF tt

(* What IsOngoing makes of the items.                                       *)
Acts == {"work", "ending"}

(* The last activity decides whether there is work after the last ending.   *)
LEMMA LastDecides ==
    ASSUME NEW acts \in Seq(Acts)
    PROVE  Pipeline!IsOngoingFromActivities(acts) <=>
               Len(acts) # 0 /\ acts[Len(acts)] = "work"
<1>1. Len(acts) \in Nat /\ DOMAIN acts = 1 .. Len(acts)
  OBVIOUS
<1>2. ASSUME NEW i \in DOMAIN acts, acts[i] = "work",
             \A j \in i + 1 .. Len(acts) : acts[j] = "work"
      PROVE  Len(acts) # 0 /\ acts[Len(acts)] = "work"
  <2>1. i = Len(acts) \/ Len(acts) \in i + 1 .. Len(acts)
    BY <1>1
  <2> QED  BY <1>1, <1>2, <2>1
<1>3. ASSUME Len(acts) # 0, acts[Len(acts)] = "work"
      PROVE  \E i \in DOMAIN acts :
                acts[i] = "work" /\ \A j \in i + 1 .. Len(acts) : acts[j] = "work"
  <2>1. Len(acts) \in DOMAIN acts /\ Len(acts) + 1 .. Len(acts) = {}
    BY <1>1, <1>3
  <2> QED  BY <1>3, <2>1
<1> QED  BY <1>2, <1>3 DEF Pipeline!IsOngoingFromActivities

(* What one more item's activities make of the verdict.                     *)
LEMMA ActsAppend ==
    ASSUME NEW acts \in Seq(Acts)
    PROVE  /\ acts \o <<>> = acts
           /\ ~ Pipeline!IsOngoingFromActivities(acts \o <<"ending">>)
           /\ Pipeline!IsOngoingFromActivities(acts \o <<"work">>)
           /\ Pipeline!IsOngoingFromActivities(acts \o <<"work", "work">>)
<1>1. Len(acts) \in Nat /\ acts \o <<>> = acts
  BY ConcatEmptySeq
<1>2. /\ <<"ending">> \in Seq(Acts) /\ <<"work">> \in Seq(Acts)
      /\ <<"work", "work">> \in Seq(Acts)
  BY DEF Acts
<1>3. ~ Pipeline!IsOngoingFromActivities(acts \o <<"ending">>)
  <2>1. /\ acts \o <<"ending">> \in Seq(Acts)
        /\ Len(acts \o <<"ending">>) = Len(acts) + 1
        /\ (acts \o <<"ending">>)[Len(acts) + 1] = "ending"
    BY <1>1, <1>2
  <2> QED  BY <2>1, LastDecides
<1>4. Pipeline!IsOngoingFromActivities(acts \o <<"work">>)
  <2> DEFINE new == acts \o <<"work">>
  <2>1. new \in Seq(Acts) /\ Len(new) = Len(acts) + 1 /\ new[Len(acts) + 1] = "work"
    BY <1>1, <1>2
  <2> HIDE DEF new
  <2>2. Len(new) # 0 /\ new[Len(new)] = "work"
    BY <1>1, <2>1
  <2>3. Pipeline!IsOngoingFromActivities(new)
    BY <2>1, <2>2, LastDecides
  <2> QED  BY <2>3 DEF new
<1>5. Pipeline!IsOngoingFromActivities(acts \o <<"work", "work">>)
  <2> DEFINE new == acts \o <<"work", "work">>
  <2>1. new \in Seq(Acts) /\ Len(new) = Len(acts) + 2 /\ new[Len(acts) + 2] = "work"
    BY <1>1, <1>2
  <2> HIDE DEF new
  <2>2. Len(new) # 0 /\ new[Len(new)] = "work"
    BY <1>1, <2>1
  <2>3. Pipeline!IsOngoingFromActivities(new)
    BY <2>1, <2>2, LastDecides
  <2> QED  BY <2>3 DEF new
<1> QED  BY <1>1, <1>3, <1>4, <1>5

(* What an item's activities can be: one that works, one that ends the work,*)
(* or neither.                                                              *)
Working(a) == a = <<"work">> \/ a = <<"work", "work">>
Plainly(a) == Working(a) \/ a = <<"ending">> \/ a = <<>>

(* The items' activities, one item after the other, say that the session is *)
(* ongoing when some item works and none behind it ends the work.           *)
LEMMA FlatVerdict ==
    ASSUME NEW ss \in Seq(Seq(Acts)), \A k \in 1 .. Len(ss) : Plainly(ss[k])
    PROVE  Pipeline!IsOngoingFromActivities(Pipeline!FlattenSeq(ss)) <=>
               \E k \in 1 .. Len(ss) :
                  Working(ss[k]) /\ \A l \in k + 1 .. Len(ss) : ss[l] # <<"ending">>
<1> DEFINE On(n) == \E k \in 1 .. n :
                       Working(ss[k]) /\ \A l \in k + 1 .. n : ss[l] # <<"ending">>
<1>1. Len(ss) \in Nat
  OBVIOUS
<1>2. PICK f : /\ f[0] = <<>>
               /\ \A n \in 1 .. Len(ss) : f[n] = f[n - 1] \o ss[n]
               /\ \A n \in 0 .. Len(ss) : f[n] \in Seq(Acts)
               /\ Pipeline!FlattenSeq(ss) = f[Len(ss)]
  BY FlattenIs
<1> DEFINE T == {n \in Nat : /\ n <= Len(ss)
                             /\ ~ (Pipeline!IsOngoingFromActivities(f[n]) <=> On(n))}
<1>3. T = {}
  <2>1. 0 \notin T
    <3>1. Len(f[0]) = 0 /\ f[0] \in Seq(Acts)
      BY <1>2
    <3>2. ~ Pipeline!IsOngoingFromActivities(f[0])
      BY <3>1, LastDecides
    <3>3. ~ On(0)
      OBVIOUS
    <3> QED  BY <3>2, <3>3
  <2>2. ASSUME NEW n \in Nat, n \notin T PROVE n + 1 \notin T
    <3> SUFFICES ASSUME n + 1 <= Len(ss)
                 PROVE  Pipeline!IsOngoingFromActivities(f[n + 1]) <=> On(n + 1)
      OBVIOUS
    <3>1. /\ n + 1 \in 1 .. Len(ss) /\ n \in 0 .. Len(ss)
          /\ (n + 1) - 1 = n /\ n <= Len(ss)
      BY <1>1
    <3>2. Pipeline!IsOngoingFromActivities(f[n]) <=> On(n)
      BY <2>2, <3>1
    <3>3. f[n + 1] = f[n] \o ss[n + 1] /\ f[n] \in Seq(Acts)
      BY <1>2, <3>1
    <3>4. Plainly(ss[n + 1])
      BY <3>1
    <3>5. /\ \A k \in 1 .. n + 1 : k = n + 1 \/ k \in 1 .. n
          /\ \A k \in 1 .. n : k \in 1 .. n + 1 /\ n + 1 \in k + 1 .. n + 1
          /\ n + 1 \in 1 .. n + 1 /\ (n + 1) + 1 .. n + 1 = {}
          /\ \A k \in 1 .. n : \A l \in k + 1 .. n + 1 : l = n + 1 \/ l \in k + 1 .. n
          /\ \A k \in 1 .. n : \A l \in k + 1 .. n : l \in k + 1 .. n + 1
      OBVIOUS
    <3>6. CASE Working(ss[n + 1])
      <4>1. On(n + 1)
        BY <3>5, <3>6
      <4>2. \/ f[n + 1] = f[n] \o <<"work">>
            \/ f[n + 1] = f[n] \o <<"work", "work">>
        BY <3>3, <3>6 DEF Working
      <4>3. /\ Pipeline!IsOngoingFromActivities(f[n] \o <<"work">>)
            /\ Pipeline!IsOngoingFromActivities(f[n] \o <<"work", "work">>)
        BY <3>3, ActsAppend
      <4>4. Pipeline!IsOngoingFromActivities(f[n + 1])
        BY <4>2, <4>3
      <4> QED  BY <4>1, <4>4
    <3>7. CASE ss[n + 1] = <<"ending">>
      <4>1. ~ Working(ss[n + 1])
        BY <3>7 DEF Working
      <4>2. ~ On(n + 1)
        BY <3>5, <3>7, <4>1
      <4>3. ~ Pipeline!IsOngoingFromActivities(f[n + 1])
        BY <3>3, <3>7, ActsAppend
      <4> QED  BY <4>2, <4>3
    <3>8. CASE ss[n + 1] = <<>>
      <4>1. ~ Working(ss[n + 1]) /\ ss[n + 1] # <<"ending">>
        BY <3>8 DEF Working
      <4>2. On(n + 1) <=> On(n)
        BY <3>5, <4>1
      <4>3. f[n + 1] = f[n]
        BY <3>3, <3>8, ActsAppend
      <4> QED  BY <3>2, <4>2, <4>3
    <3> QED  BY <3>4, <3>6, <3>7, <3>8 DEF Plainly
  <2> HIDE DEF T
  <2>3. T \in SUBSET Nat
    BY DEF T
  <2> QED  BY <2>1, <2>2, <2>3, NoLeast
<1>4. Pipeline!IsOngoingFromActivities(f[Len(ss)]) <=> On(Len(ss))
  <2>1. Len(ss) \notin T
    <3> HIDE DEF T
    <3> QED  BY <1>3
  <2>2. Len(ss) \in Nat /\ Len(ss) <= Len(ss)
    BY <1>1
  <2> HIDE DEF On
  <2> QED  BY <2>1, <2>2
<1> QED  BY <1>2, <1>4

(* How BuildChunks carries on with one entry that is no expansion.          *)
LEMMA AccStep ==
    ASSUME NEW s \in Seq(Entry), NEW e \in Entry, BuildInv(s), e.kind # "expanded"
    PROVE  LET t == Append(s, e)
               m == NewMessage(e, Len(s) + 1)
           IN  /\ Class(e) = "drop" => Acc(t) = Acc(s)
               /\ Class(e) \in Alone =>
                     /\ Acc(t).chunks = Append(ReadSession(s), Pipeline!PlainChunk(m))
                     /\ Acc(t).buf = <<>>
               /\ Class(e) \in Joined =>
                     Acc(t).chunks = Acc(s).chunks /\ Acc(t).buf = Append(Acc(s).buf, m)
<1> DEFINE t == Append(s, e)
           m == NewMessage(e, Len(s) + 1)
           acc == Acc(s)
<1>1. m.class = Class(e) /\ m.kind = e.kind /\ (Class(e) # "drop" => m \in Msg)
  <2>1. Len(s) \in Nat
    BY ReadOneMore
  <2> QED  BY <2>1, ClassOf DEF NewMessage, Msg
<1>2. /\ acc \in Building /\ Pipeline!Classify(s) \in Seq(Msg)
      /\ ReadSession(s) = Pipeline!Flush(acc)
  BY ReadTyped DEF BuildInv
<1>3. CASE Class(e) = "drop"
  <2>1. Pipeline!Classify(t) = Pipeline!Classify(s)
    BY <1>3, ClassifyAppend
  <2>2. Acc(t) = acc
    BY <2>1 DEF Acc
  <2> QED  BY <1>3, <2>2 DEF Alone, Joined
<1>4. CASE Class(e) # "drop"
  <2>1. Pipeline!Classify(t) = Append(Pipeline!Classify(s), m)
    BY <1>4, ClassifyAppend
  <2>2. Len(Append(Pipeline!Classify(s), m)) = Len(Pipeline!Classify(s)) + 1
    BY <1>1, <1>2, <1>4, AppendTo
  <2>3. Acc(t) = Pipeline!AddMessage(acc, m)
    BY <1>1, <1>2, <1>4, <2>1, <2>2, BuiltAppend DEF Acc
  <2> HIDE DEF t, m, acc
  <2>4. CASE Class(e) \in Alone
    <3>1. Pipeline!AddMessage(acc, m) =
              [chunks |-> Append(Pipeline!Flush(acc), Pipeline!PlainChunk(m)), buf |-> <<>>,
               slash |-> m.kind = "slash"]
      BY <1>1, <2>4 DEF Pipeline!AddMessage, Alone
    <3> DEFINE on == m.kind = "slash"
               C  == Append(Pipeline!Flush(acc), Pipeline!PlainChunk(m))
    <3>2. Acc(t) = [chunks |-> C, buf |-> <<>>, slash |-> on]
      BY <2>3, <3>1
    <3> HIDE DEF on, C
    <3>3. Acc(t).chunks = C /\ Acc(t).buf = <<>>
      BY <3>2
    <3> QED  BY <1>2, <2>4, <3>3 DEF Alone, Joined, C, t, m
  <2>5. CASE Class(e) \notin Alone
    <3>1. Acc(t) = [acc EXCEPT !.buf = Append(@, m), !.slash = FALSE]
      BY <1>1, <2>3, <2>5 DEF Pipeline!AddMessage, Alone
    <3>2. Acc(t).chunks = acc.chunks /\ Acc(t).buf = Append(acc.buf, m)
      BY <1>2, <3>1 DEF Building
    <3> QED  BY <1>4, <2>5, <3>2 DEF t, m, acc
  <2> QED  BY <2>4, <2>5 DEF t, m, acc
<1> QED  BY <1>3, <1>4

----------------------------------------------------------------------------
(* The items that a chunk, and that one more chunk, shows to IsOngoing.     *)
LEMMA ShownAppend ==
    ASSUME NEW K \in Seq(AChunk), NEW c \in AChunk
    PROVE  /\ Pipeline!Shown(K) \in Seq(AnItem)
           /\ Pipeline!ShownIn(c) \in Seq(AnItem)
           /\ Pipeline!Shown(Append(K, c)) = Pipeline!Shown(K) \o Pipeline!ShownIn(c)
<1> DEFINE In(q) == [k \in DOMAIN q |-> Pipeline!ShownIn(q[k])]
           L == Append(K, c)
<1>1. ASSUME NEW d \in AChunk PROVE Pipeline!ShownIn(d) \in Seq(AnItem)
  <2>1. Pipeline!ThinkingOnly \in AnItem
    BY DEF Pipeline!ThinkingOnly, AnItem, ItemTypes, Kinds, Assistant, Spoken
  <2>2. d.items \in Seq(AnItem)
    BY DEF AChunk
  <2>3. <<>> \in Seq(AnItem) /\ <<Pipeline!ThinkingOnly>> \in Seq(AnItem)
    BY <2>1
  <2> QED  BY <2>2, <2>3 DEF Pipeline!ShownIn
<1>2. /\ L \in Seq(AChunk) /\ Len(K) \in Nat /\ Len(L) = Len(K) + 1 /\ L[Len(K) + 1] = c
      /\ \A k \in 1 .. Len(K) : L[k] = K[k]
      /\ DOMAIN K = 1 .. Len(K) /\ DOMAIN L = 1 .. Len(L)
  BY AppendTo
<1> HIDE DEF L
<1>3. In(K) \in Seq(Seq(AnItem)) /\ Len(In(K)) = Len(K)
  <2>1. \A k \in 1 .. Len(K) : Pipeline!ShownIn(K[k]) \in Seq(AnItem)
    <3>1. \A k \in 1 .. Len(K) : K[k] \in AChunk
      OBVIOUS
    <3> QED  BY <1>1, <3>1
  <2> DEFINE g(k) == Pipeline!ShownIn(K[k])
  <2>2. In(K) = [k \in 1 .. Len(K) |-> g(k)] /\ \A k \in 1 .. Len(K) : g(k) \in Seq(AnItem)
    BY <1>2, <2>1
  <2> HIDE DEF g
  <2> QED  BY <1>2, <2>2
<1>4. In(L) = Append(In(K), Pipeline!ShownIn(c))
  <2> DEFINE A == Append(In(K), Pipeline!ShownIn(c))
             x == Pipeline!ShownIn(c)
             q == In(K)
  <2>1. x \in Seq(AnItem)
    BY <1>1
  <2>2. /\ A \in Seq(Seq(AnItem)) /\ Len(A) = Len(K) + 1 /\ A[Len(K) + 1] = x
        /\ \A k \in 1 .. Len(K) : A[k] = q[k]
    BY <1>3, <2>1, AppendTo
  <2>3. \A k \in 1 .. Len(K) : q[k] = Pipeline!ShownIn(K[k])
    BY <1>2
  <2> HIDE DEF q, x
  <2>4. \A k \in 1 .. Len(L) : k = Len(K) + 1 \/ k \in 1 .. Len(K)
    BY <1>2
  <2>5. \A k \in 1 .. Len(L) : A[k] = Pipeline!ShownIn(L[k])
    BY <1>2, <2>2, <2>3, <2>4 DEF x
  <2> HIDE DEF A
  <2>6. A = [k \in 1 .. Len(L) |-> A[k]]
    BY <1>2, <2>2
  <2>7. A = [k \in 1 .. Len(L) |-> Pipeline!ShownIn(L[k])]
    BY <2>5, <2>6
  <2> QED  BY <1>2, <2>7 DEF A
<1>5. Pipeline!Shown(K) = Pipeline!FlattenSeq(In(K))
  BY DEF Pipeline!Shown
<1>6. Pipeline!Shown(L) = Pipeline!FlattenSeq(In(L))
  BY DEF Pipeline!Shown
<1> HIDE DEF In
<1> QED  BY <1>1, <1>3, <1>4, <1>5, <1>6, FlattenAppend DEF L

(* Without chunks there is nothing to show.                                 *)
LEMMA ShownNone == Pipeline!Shown(<<>>) = <<>>
<1> DEFINE q == [k \in DOMAIN <<>> |-> Pipeline!ShownIn(<<>>[k])]
<1>1. q = <<>> /\ Len(q) = 0
  OBVIOUS
<1>2. Pipeline!Shown(<<>>) = Pipeline!FlattenSeq(q)
  BY DEF Pipeline!Shown
<1> HIDE DEF q
<1> QED  BY <1>1, <1>2 DEF Pipeline!FlattenSeq

(* And a turn without messages has no items.                                *)
LEMMA NoItems == Items(<<>>) = <<>>
<1>1. Len(<<>>) = 0 /\ Pipeline!Merged(<<>>)[0] = <<>>
  BY MergedIs
<1> QED  BY <1>1 DEF Items

(* The items BuildChunks has flushed, and those of the turn it still holds. *)
Flushed(s) == Pipeline!Shown(Acc(s).chunks)
Held(s)    == Items(Acc(s).buf)

(* What the viewer has built shows the ones and then the others.            *)
LEMMA ReadShown ==
    ASSUME NEW s, BuildInv(s), Acc(s).buf # <<>> => Held(s) # <<>>
    PROVE  /\ Flushed(s) \in Seq(AnItem) /\ Held(s) \in Seq(AnItem)
           /\ Pipeline!Shown(ReadSession(s)) = Flushed(s) \o Held(s)
<1> DEFINE K == Acc(s).chunks
           b == Acc(s).buf
<1>1. /\ K \in Seq(AChunk) /\ TurnOk(s, b) /\ Held(s) \in Seq(AnItem)
      /\ ReadSession(s) = Pipeline!Flush(Acc(s))
  BY ReadTyped DEF BuildInv, Building, TurnOk, ItemsOk, Held
<1>2. Flushed(s) \in Seq(AnItem)
  <2>1. PICK c : c \in AChunk
    <3>1. Pipeline!PlainChunk([class |-> "user", kind |-> "prompt", id |-> NoId, at |-> 0])
              \in AChunk
      <4>1. [class |-> "user", kind |-> "prompt", id |-> NoId, at |-> 0] \in Msg
        BY DEF Msg, Classes, Kinds, User
      <4> QED  BY <4>1, PlainIs
    <3> QED  BY <3>1
  <2> QED  BY <1>1, <2>1, ShownAppend DEF Flushed
<1>3. CASE b = <<>>
  <2>1. ReadSession(s) = K /\ Held(s) = <<>>
    BY <1>1, <1>3, NoItems DEF Pipeline!Flush, Held
  <2> QED  BY <1>1, <1>2, <2>1, ConcatEmptySeq DEF Flushed
<1>4. CASE b # <<>>
  <2> DEFINE c == Pipeline!MergeAIBuffer(b)
  <2>1. ReadSession(s) = Append(K, c)
    BY <1>1, <1>4 DEF Pipeline!Flush
  <2>2. c \in AChunk /\ c.type = "ai" /\ c.items = Held(s)
    BY <1>1, <1>4, MergeIs DEF Held
  <2> HIDE DEF c
  <2>3. Pipeline!ShownIn(c) = Held(s)
    BY <1>4, <2>2 DEF Pipeline!ShownIn
  <2> QED  BY <1>1, <1>2, <2>1, <2>2, <2>3, ShownAppend DEF Flushed
<1> QED  BY <1>3, <1>4

----------------------------------------------------------------------------
(* The part of Ordinary that every beginning of an ordinary transcript has. *)
Excluded == {"interrupted", "empty", "rejected", "redacted", "expanded"}

Undisturbed(s) ==
    \A i \in 1 .. Len(s) :
        /\ s[i].by = "main" /\ s[i].kind \notin Excluded
        /\ s[i].kind \in Calls => s[i].id # NoId /\ \A j \in 1 .. i - 1 : s[j].id # s[i].id
        /\ s[i].kind = "result" => Prompt(s, i)

(* Item it is that of its entry in the transcript s, with the entry that is *)
(* its result; only a blank text and a call without a result are not full.  *)
ItemOf(s, it) ==
    /\ it.at \in 1 .. Len(s) /\ it.kind = s[it.at].kind /\ it.id = s[it.at].id
    /\ Class(s[it.at]) \in {"ai", "teammate", "memory"}
    /\ it.type = Pipeline!ItemType(NewMessage(s[it.at], it.at))
    /\ IsCall(it) => (it.full <=> it.result # 0)
    /\ ~ IsCall(it) => (it.full <=> it.kind # "blank")
    /\ it.result # 0 => /\ IsCall(it) /\ it.result \in it.at + 1 .. Len(s)
                        /\ s[it.result].kind = "result" /\ s[it.result].id = it.id

(* The items of I are those of s, in the order of the transcript: each      *)
(* answer has one, and each result is on one.                               *)
RowOk(s, I) ==
    /\ I \in Seq(AnItem)
    /\ \A k \in 1 .. Len(I) : ItemOf(s, I[k])
    /\ \A l \in 1 .. Len(I) : \A k \in 1 .. l - 1 : I[k].at < I[l].at
    /\ \A i \in 1 .. Len(s) : Class(s[i]) = "ai" => \E k \in 1 .. Len(I) : I[k].at = i
    /\ \A i \in 1 .. Len(s) : s[i].kind = "result" => \E k \in 1 .. Len(I) : I[k].result = i

(* A beginning of an undisturbed transcript is one.                         *)
LEMMA UndisturbedBefore ==
    ASSUME NEW s \in Seq(Entry), NEW e \in Entry, Undisturbed(Append(s, e))
    PROVE  /\ Undisturbed(s)
           /\ e.by = "main" /\ e.kind \notin Excluded
           /\ e.kind = "result" => Prompt(Append(s, e), Len(s) + 1)
<1> DEFINE t == Append(s, e)
<1>1. /\ Len(s) \in Nat /\ Len(t) = Len(s) + 1 /\ t[Len(s) + 1] = e
      /\ \A i \in 1 .. Len(s) : t[i] = s[i]
  BY ReadOneMore
<1>2. \A i \in 1 .. Len(s) : Ends(t, i) <=> Ends(s, i)
  BY ClassesStay
<1>3. Undisturbed(t)
  OBVIOUS
<1> HIDE DEF t
<1>4. ASSUME NEW i \in 1 .. Len(s), Prompt(t, i) PROVE Prompt(s, i)
  <2>1. PICK c \in 1 .. i - 1 :
            /\ t[c].kind \in {"tool", "agent"} /\ t[c].id = t[i].id
            /\ \A j \in c + 1 .. i - 1 :
                  /\ Class(t[j]) \in {"ai", "meta", "teammate", "memory", "drop"}
                  /\ ~ Ends(t, j)
                  /\ ~ (t[j].kind \in Calls \cup Results /\ t[j].id = t[i].id)
    BY <1>4 DEF Prompt
  <2>2. t[c] = s[c] /\ t[i] = s[i] /\ \A j \in c + 1 .. i - 1 : j \in 1 .. Len(s) /\ t[j] = s[j]
    BY <1>1
  <2> QED  BY <1>2, <2>1, <2>2 DEF Prompt
<1>5. ASSUME NEW i \in 1 .. Len(s)
      PROVE  /\ s[i].by = "main" /\ s[i].kind \notin Excluded
             /\ s[i].kind \in Calls =>
                   s[i].id # NoId /\ \A j \in 1 .. i - 1 : s[j].id # s[i].id
             /\ s[i].kind = "result" => Prompt(s, i)
  <2>1. i \in 1 .. Len(t) /\ t[i] = s[i] /\ \A j \in 1 .. i - 1 : t[j] = s[j]
    BY <1>1
  <2> QED  BY <1>3, <1>4, <2>1 DEF Undisturbed
<1>6. Len(s) + 1 \in 1 .. Len(t)
  BY <1>1
<1> QED  BY <1>1, <1>3, <1>5, <1>6 DEF Undisturbed, t

(* The classes of undisturbed entries.                                      *)
LEMMA UndisturbedClass ==
    ASSUME NEW e \in Entry, e.by = "main", e.kind \notin Excluded
    PROVE  /\ Class(e) = "ai" <=> e.kind \in Assistant
           /\ Class(e) = "meta" <=> e.kind = "result"
           /\ Class(e) = "teammate" <=> e.kind = "teammate"
           /\ Class(e) = "memory" <=> e.kind = "memory"
           /\ Class(e) = "user" => e.kind \in {"prompt", "slash"}
<1>1. e.kind \in Assistant \cup User \cup Others
  BY EntryFields
<1> QED
  BY <1>1 DEF Class, Pipeline!Class, Pipeline!UserClass, Pipeline!Assistant, Pipeline!Calls,
     Pipeline!Spoken, Pipeline!Results, Assistant, Calls, Spoken, Results, User, Others, Excluded

(* The types of their items: only the calls are tools and subagents.        *)
LEMMA ItemTypeIs ==
    ASSUME NEW e \in Entry, NEW n, e.by = "main", e.kind \notin Excluded,
           Class(e) \in {"ai", "teammate", "memory"}
    PROVE  LET type == Pipeline!ItemType(NewMessage(e, n))
           IN  /\ type \in ItemTypes
               /\ type \in {"tool", "subagent"} <=> e.kind \in Calls
               /\ type = "subagent" <=> e.kind = "agent"
               /\ type = "thinking" <=> e.kind = "thinking"
               /\ type = "output" <=> e.kind \in {"text", "blank"}
<1>1. NewMessage(e, n).class = Class(e) /\ NewMessage(e, n).kind = e.kind
  BY DEF NewMessage
<1>2. /\ Class(e) = "ai" <=> e.kind \in Assistant
      /\ Class(e) = "teammate" <=> e.kind = "teammate"
      /\ Class(e) = "memory" <=> e.kind = "memory"
  BY UndisturbedClass
<1> QED
  BY <1>1, <1>2 DEF Pipeline!ItemType, Pipeline!Calls, Calls, Spoken, Assistant, ItemTypes,
     Excluded

(* An item stays that of its entry when the transcript grows.               *)
LEMMA ItemOfStays ==
    ASSUME NEW s \in Seq(Entry), NEW e \in Entry, NEW it \in AnItem, ItemOf(s, it)
    PROVE  ItemOf(Append(s, e), it)
<1> DEFINE t == Append(s, e)
<1>1. /\ Len(s) \in Nat /\ Len(t) = Len(s) + 1
      /\ \A i \in 1 .. Len(s) : t[i] = s[i]
  BY ReadOneMore
<1>2. it.at \in 1 .. Len(s) /\ (it.result # 0 => it.result \in it.at + 1 .. Len(s))
  BY DEF ItemOf
<1>3. /\ t[it.at] = s[it.at] /\ it.at \in 1 .. Len(t)
      /\ it.result # 0 => it.result \in it.at + 1 .. Len(t) /\ t[it.result] = s[it.result]
  BY <1>1, <1>2
<1> HIDE DEF t
<1>4. ItemOf(t, it)
  BY <1>3 DEF ItemOf
<1> QED  BY <1>4 DEF t

(* An entry that is neither an answer nor a result leaves the row as it is. *)
LEMMA RowSame ==
    ASSUME NEW s \in Seq(Entry), NEW e \in Entry, NEW I, RowOk(s, I),
           Class(e) # "ai", e.kind # "result"
    PROVE  RowOk(Append(s, e), I)
<1> DEFINE t == Append(s, e)
<1>1. /\ Len(s) \in Nat /\ Len(t) = Len(s) + 1 /\ t[Len(s) + 1] = e
      /\ \A i \in 1 .. Len(s) : t[i] = s[i]
      /\ \A i \in 1 .. Len(t) : i = Len(s) + 1 \/ i \in 1 .. Len(s)
  BY ReadOneMore
<1>2. I \in Seq(AnItem) /\ \A k \in 1 .. Len(I) : I[k] \in AnItem
  BY DEF RowOk
<1>3. \A k \in 1 .. Len(I) : ItemOf(t, I[k])
  BY <1>2, ItemOfStays DEF RowOk
<1> HIDE DEF t
<1>4. \A i \in 1 .. Len(t) : Class(t[i]) = "ai" => \E k \in 1 .. Len(I) : I[k].at = i
  BY <1>1 DEF RowOk
<1>5. \A i \in 1 .. Len(t) : t[i].kind = "result" => \E k \in 1 .. Len(I) : I[k].result = i
  BY <1>1 DEF RowOk
<1>6. RowOk(t, I)
  BY <1>2, <1>3, <1>4, <1>5 DEF RowOk
<1> QED  BY <1>6 DEF t

(* The item of a new entry is the last of the row.                          *)
LEMMA RowLonger ==
    ASSUME NEW s \in Seq(Entry), NEW e \in Entry, NEW I, RowOk(s, I), e.kind # "result",
           NEW it \in AnItem, ItemOf(Append(s, e), it), it.at = Len(s) + 1
    PROVE  RowOk(Append(s, e), Append(I, it))
<1> DEFINE t == Append(s, e)
           J == Append(I, it)
<1>1. /\ Len(s) \in Nat /\ Len(t) = Len(s) + 1 /\ t[Len(s) + 1] = e
      /\ \A i \in 1 .. Len(s) : t[i] = s[i]
      /\ \A i \in 1 .. Len(t) : i = Len(s) + 1 \/ i \in 1 .. Len(s)
  BY ReadOneMore
<1>2. I \in Seq(AnItem) /\ \A k \in 1 .. Len(I) : I[k] \in AnItem /\ I[k].at \in 1 .. Len(s)
  BY DEF RowOk, ItemOf
<1>3. /\ J \in Seq(AnItem) /\ Len(I) \in Nat /\ Len(J) = Len(I) + 1 /\ J[Len(I) + 1] = it
      /\ \A k \in 1 .. Len(I) : J[k] = I[k] /\ k \in 1 .. Len(J)
      /\ \A k \in 1 .. Len(J) : k = Len(I) + 1 \/ k \in 1 .. Len(I)
      /\ Len(I) + 1 \in 1 .. Len(J)
  BY <1>2, AppendTo
<1>4. \A k \in 1 .. Len(I) : ItemOf(t, I[k])
  BY <1>2, ItemOfStays DEF RowOk
<1>a. ItemOf(t, it)
  OBVIOUS
<1> HIDE DEF t, J
<1>5. \A k \in 1 .. Len(J) : ItemOf(t, J[k])
  BY <1>a, <1>3, <1>4
<1>6. \A l \in 1 .. Len(J) : \A k \in 1 .. l - 1 : J[k].at < J[l].at
  <2> SUFFICES ASSUME NEW l \in 1 .. Len(J), NEW k \in 1 .. l - 1 PROVE J[k].at < J[l].at
    OBVIOUS
  <2>1. k \in 1 .. Len(I) /\ J[k] = I[k]
    BY <1>3
  <2>2. CASE l = Len(I) + 1
    BY <1>1, <1>2, <1>3, <2>1, <2>2
  <2>3. CASE l \in 1 .. Len(I)
    BY <1>3, <2>1, <2>3 DEF RowOk
  <2> QED  BY <1>3, <2>2, <2>3
<1>7. \A i \in 1 .. Len(t) : Class(t[i]) = "ai" => \E k \in 1 .. Len(J) : J[k].at = i
  <2> SUFFICES ASSUME NEW i \in 1 .. Len(t), Class(t[i]) = "ai"
               PROVE  \E k \in 1 .. Len(J) : J[k].at = i
    OBVIOUS
  <2>1. CASE i = Len(s) + 1
    BY <1>3, <2>1
  <2>2. CASE i \in 1 .. Len(s)
    <3>1. PICK k \in 1 .. Len(I) : I[k].at = i
      BY <1>1, <2>2 DEF RowOk
    <3> QED  BY <1>3, <3>1
  <2> QED  BY <1>1, <2>1, <2>2
<1>8. \A i \in 1 .. Len(t) : t[i].kind = "result" => \E k \in 1 .. Len(J) : J[k].result = i
  <2> SUFFICES ASSUME NEW i \in 1 .. Len(t), t[i].kind = "result"
               PROVE  \E k \in 1 .. Len(J) : J[k].result = i
    OBVIOUS
  <2>1. i \in 1 .. Len(s) /\ s[i].kind = "result"
    BY <1>1
  <2>2. PICK k \in 1 .. Len(I) : I[k].result = i
    BY <2>1 DEF RowOk
  <2> QED  BY <1>3, <2>2
<1>9. RowOk(t, J)
  BY <1>3, <1>5, <1>6, <1>7, <1>8 DEF RowOk
<1> QED  BY <1>9 DEF t, J

(* A new result is put on the item p of its call.                           *)
LEMMA RowMatched ==
    ASSUME NEW s \in Seq(Entry), NEW e \in Entry, NEW I, RowOk(s, I), Class(e) # "ai",
           NEW J \in Seq(AnItem), Len(J) = Len(I),
           NEW p \in 1 .. Len(I), ItemOf(Append(s, e), J[p]),
           I[p].result = 0, J[p].at = I[p].at, J[p].result = Len(s) + 1,
           \A k \in 1 .. Len(I) : k # p => J[k] = I[k]
    PROVE  RowOk(Append(s, e), J)
<1> DEFINE t == Append(s, e)
<1>1. /\ Len(s) \in Nat /\ Len(t) = Len(s) + 1 /\ t[Len(s) + 1] = e
      /\ \A i \in 1 .. Len(s) : t[i] = s[i]
      /\ \A i \in 1 .. Len(t) : i = Len(s) + 1 \/ i \in 1 .. Len(s)
  BY ReadOneMore
<1>2. I \in Seq(AnItem) /\ Len(I) \in Nat /\ \A k \in 1 .. Len(I) : I[k] \in AnItem
  BY DEF RowOk
<1>4. \A k \in 1 .. Len(I) : ItemOf(t, I[k])
  BY <1>2, ItemOfStays DEF RowOk
<1>a. ItemOf(t, J[p])
  OBVIOUS
<1> HIDE DEF t
<1>3. \A k \in 1 .. Len(I) : J[k].at = I[k].at
  OBVIOUS
<1>5. \A k \in 1 .. Len(J) : ItemOf(t, J[k])
  BY <1>a, <1>4
<1>6. \A l \in 1 .. Len(J) : \A k \in 1 .. l - 1 : J[k].at < J[l].at
  <2> SUFFICES ASSUME NEW l \in 1 .. Len(J), NEW k \in 1 .. l - 1 PROVE J[k].at < J[l].at
    OBVIOUS
  <2>1. k \in 1 .. Len(I) /\ l \in 1 .. Len(I)
    BY <1>2
  <2>2. I[k].at < I[l].at
    BY <2>1 DEF RowOk
  <2> QED  BY <1>3, <2>1, <2>2
<1>7. \A i \in 1 .. Len(t) : Class(t[i]) = "ai" => \E k \in 1 .. Len(J) : J[k].at = i
  <2> SUFFICES ASSUME NEW i \in 1 .. Len(t), Class(t[i]) = "ai"
               PROVE  \E k \in 1 .. Len(J) : J[k].at = i
    OBVIOUS
  <2>1. i \in 1 .. Len(s) /\ Class(s[i]) = "ai"
    BY <1>1
  <2>2. PICK k \in 1 .. Len(I) : I[k].at = i
    BY <2>1 DEF RowOk
  <2> QED  BY <1>3, <2>2
<1>8. \A i \in 1 .. Len(t) : t[i].kind = "result" => \E k \in 1 .. Len(J) : J[k].result = i
  <2> SUFFICES ASSUME NEW i \in 1 .. Len(t), t[i].kind = "result"
               PROVE  \E k \in 1 .. Len(J) : J[k].result = i
    OBVIOUS
  <2>1. CASE i = Len(s) + 1
    BY <2>1
  <2>2. CASE i \in 1 .. Len(s)
    <3>1. PICK k \in 1 .. Len(I) : I[k].result = i
      BY <1>1, <2>2 DEF RowOk
    <3>2. k # p /\ J[k] = I[k]
      BY <2>2, <3>1
    <3> QED  BY <3>1, <3>2
  <2> QED  BY <1>1, <2>1, <2>2
<1>9. RowOk(t, J)
  BY <1>5, <1>6, <1>7, <1>8 DEF RowOk
<1> QED  BY <1>9 DEF t

(* An undisturbed message of the turn that is no result is an item of its   *)
(* own.                                                                     *)
LEMMA UndisturbedBlock ==
    ASSUME NEW items \in Seq(AnItem), NEW e \in Entry, NEW n \in Nat,
           e.by = "main", e.kind \notin Excluded, e.kind # "result", Class(e) \in Joined
    PROVE  \E it \in AnItem :
              /\ Pipeline!AddBlock(items, NewMessage(e, n)) = Append(items, it)
              /\ it.at = n /\ it.kind = e.kind /\ it.id = e.id /\ it.result = 0
              /\ it.type = Pipeline!ItemType(NewMessage(e, n))
              /\ it.full <=> e.kind \notin Calls \cup {"blank"}
<1> DEFINE m == NewMessage(e, n)
           full == m.kind \notin Pipeline!Calls \cup {"blank"}
           type == Pipeline!ItemType(m)
<1>1. /\ m.kind = e.kind /\ m.id = e.id /\ m.at = n
      /\ e.kind \in Kinds /\ e.id \in ToolId \cup {NoId}
  BY ClassOf DEF NewMessage
<1>2. Class(e) \in {"ai", "teammate", "memory"}
  BY UndisturbedClass DEF Joined
<1>3. type \in ItemTypes
  BY <1>2, ItemTypeIs
<1>4. m.kind \notin Pipeline!Results /\ type # "none"
  <2>1. m.kind \notin {"result", "empty", "rejected"}
    BY <1>1 DEF Excluded
  <2> QED  BY <1>3, <2>1 DEF Pipeline!Results, ItemTypes
<1>5. Pipeline!AddBlock(items, m) = Append(items, Pipeline!Item(type, m, full))
  BY <1>4 DEF Pipeline!AddBlock
<1>6. full \in BOOLEAN /\ (full <=> e.kind \notin Calls \cup {"blank"})
  BY <1>1 DEF Pipeline!Calls, Calls
<1> HIDE DEF full, type, m
<1> DEFINE it == Pipeline!Item(type, m, full)
<1>7. /\ it \in AnItem /\ it.at = n /\ it.kind = e.kind /\ it.id = e.id /\ it.result = 0
      /\ it.type = type /\ it.full = full
  BY <1>1, <1>3, <1>6 DEF Pipeline!Item, AnItem
<1> HIDE DEF it
<1> QED  BY <1>5, <1>6, <1>7 DEF it, type, m

(* A result goes to the call p that waits for it.                           *)
LEMMA ResultBlock ==
    ASSUME NEW items \in Seq(AnItem), NEW e \in Entry, NEW n \in Nat, e.kind = "result",
           NEW p \in 1 .. Len(items), IsCall(items[p]), items[p].id = e.id,
           items[p].result = 0,
           \A j \in p + 1 .. Len(items) : ~ (IsCall(items[j]) /\ items[j].id = e.id)
    PROVE  LET new == Pipeline!AddBlock(items, NewMessage(e, n)) IN
           /\ new \in Seq(AnItem) /\ Len(new) = Len(items)
           /\ \A k \in 1 .. Len(items) : k # p => new[k] = items[k]
           /\ new[p].type = items[p].type /\ new[p].kind = items[p].kind
           /\ new[p].id = items[p].id /\ new[p].at = items[p].at
           /\ new[p].result = n /\ new[p].full = TRUE
<1> DEFINE m == NewMessage(e, n)
           P == Pipeline!Pending(items, m.id)
           G(k) == IF k \in P THEN Pipeline!WithResult(items[k], m) ELSE items[k]
           new == Pipeline!AddBlock(items, m)
<1>1. /\ m.kind = "result" /\ m.id = e.id /\ m.at = n
      /\ Len(items) \in Nat /\ DOMAIN items = 1 .. Len(items)
  BY DEF NewMessage
<1>2. p \in P
  BY <1>1 DEF Pipeline!Pending, IsCall
<1>3. ASSUME NEW k \in 1 .. Len(items), k # p PROVE k \notin P
  <2>1. CASE k < p
    <3>1. p \in k + 1 .. Len(items)
      BY <1>1, <2>1
    <3> QED  BY <1>1, <3>1 DEF Pipeline!Pending, IsCall
  <2>2. CASE k > p
    <3>1. k \in p + 1 .. Len(items)
      BY <1>1, <2>2
    <3> QED  BY <1>1, <3>1 DEF Pipeline!Pending, IsCall
  <2> QED  BY <1>3, <2>1, <2>2
<1>4. new = [k \in 1 .. Len(items) |-> G(k)]
  <2>1. m.kind \in Pipeline!Results
    BY <1>1 DEF Pipeline!Results
  <2>2. new = Pipeline!MatchResult(items, m)
    BY <2>1 DEF Pipeline!AddBlock
  <2> QED  BY <1>1, <1>2, <2>2 DEF Pipeline!MatchResult
<1> DEFINE x == items[p]
           y == Pipeline!WithResult(x, m)
<1>5. x \in AnItem
  OBVIOUS
<1>6. G(p) = y /\ \A k \in 1 .. Len(items) : k # p => G(k) = items[k]
  BY <1>2, <1>3
<1> HIDE DEF x, m
<1>7. /\ y \in AnItem /\ y.type = x.type /\ y.kind = x.kind /\ y.id = x.id /\ y.at = x.at
      /\ y.result = n /\ y.full = TRUE
  BY <1>1, <1>5 DEF Pipeline!WithResult, AnItem
<1> HIDE DEF y, G, new
<1>8. /\ \A k \in 1 .. Len(items) : G(k) \in AnItem
      /\ new[p] = y /\ \A k \in 1 .. Len(items) : k # p => new[k] = items[k]
  BY <1>4, <1>6, <1>7
<1>9. new \in Seq(AnItem) /\ Len(new) = Len(items)
  BY <1>1, <1>4, <1>8
<1> QED  BY <1>7, <1>8, <1>9 DEF new, m, x

----------------------------------------------------------------------------
(* Nothing but dropped entries comes after a prompt.                        *)
UserLast(s) ==
    \E i \in 1 .. Len(s) :
        Class(s[i]) = "user" /\ \A j \in i + 1 .. Len(s) : Class(s[j]) = "drop"

(* A call that nothing which starts a chunk has followed is in the open     *)
(* turn, where its result will find it.                                     *)
CallsHeld(s) ==
    \A i \in 1 .. Len(s) :
        s[i].kind \in {"tool", "agent"} /\ (\A j \in i .. Len(s) : Class(s[j]) \notin Alone)
            => \E k \in 1 .. Len(Held(s)) : Held(s)[k].at = i

(* What IsOngoing is to read of an undisturbed transcript.                  *)
ShownOk(s) ==
    LET K == Acc(s).chunks
        b == Acc(s).buf
    IN  /\ RowOk(s, Flushed(s) \o Held(s))
        /\ CallsHeld(s)
        /\ b # <<>> => Held(s) # <<>>
        /\ (\E k \in 1 .. Len(K) : K[k].type = "ai") => Flushed(s) # <<>>
        /\ b = <<>> /\ K # <<>> /\ K[Len(K)].type = "user" => UserLast(s)

(* A dropped entry leaves it so.                                            *)
LEMMA ShownDropped ==
    ASSUME NEW s \in Seq(Entry), NEW e \in Entry, BuildInv(s), ShownOk(s),
           e.by = "main", e.kind \notin Excluded, Class(e) = "drop"
    PROVE  ShownOk(Append(s, e))
<1> DEFINE t == Append(s, e)
<1>1. /\ Len(s) \in Nat /\ Len(t) = Len(s) + 1 /\ t[Len(s) + 1] = e
      /\ \A i \in 1 .. Len(s) : t[i] = s[i]
      /\ \A i \in 1 .. Len(t) : i = Len(s) + 1 \/ i \in 1 .. Len(s)
  BY ReadOneMore
<1>2. e.kind # "expanded" /\ e.kind # "result" /\ e.kind \notin Assistant
  BY UndisturbedClass DEF Excluded
<1>3. Acc(t) = Acc(s)
  BY <1>2, AccStep
<1>4. Flushed(t) = Flushed(s) /\ Held(t) = Held(s)
  BY <1>3 DEF Flushed, Held
<1>5. RowOk(t, Flushed(t) \o Held(t))
  <2> DEFINE I == Flushed(s) \o Held(s)
  <2>1. RowOk(s, I)
    BY DEF ShownOk
  <2> HIDE DEF I
  <2>2. RowOk(t, I)
    BY <1>2, <2>1, RowSame
  <2> QED  BY <1>4, <2>2 DEF I
<1> HIDE DEF t
<1>6. CallsHeld(t)
  <2> SUFFICES ASSUME NEW i \in 1 .. Len(t), t[i].kind \in {"tool", "agent"},
                      \A j \in i .. Len(t) : Class(t[j]) \notin Alone
               PROVE  \E k \in 1 .. Len(Held(t)) : Held(t)[k].at = i
    BY DEF CallsHeld
  <2>1. i \in 1 .. Len(s) /\ s[i].kind \in {"tool", "agent"}
    BY <1>1, <1>2 DEF Assistant, Calls
  <2>2. \A j \in i .. Len(s) : Class(s[j]) \notin Alone
    <3>1. \A j \in i .. Len(s) : j \in i .. Len(t) /\ t[j] = s[j]
      BY <1>1, <2>1
    <3> QED  BY <3>1
  <2>3. CallsHeld(s)
    BY DEF ShownOk
  <2> QED  BY <1>4, <2>1, <2>2, <2>3 DEF CallsHeld
<1>7. UserLast(s) => UserLast(t)
  <2> SUFFICES ASSUME UserLast(s) PROVE UserLast(t)
    OBVIOUS
  <2>1. PICK i \in 1 .. Len(s) :
            Class(s[i]) = "user" /\ \A j \in i + 1 .. Len(s) : Class(s[j]) = "drop"
    BY DEF UserLast
  <2>2. i \in 1 .. Len(t) /\ t[i] = s[i]
    BY <1>1
  <2>3. \A j \in i + 1 .. Len(t) : Class(t[j]) = "drop"
    <3>1. \A j \in i + 1 .. Len(t) : j = Len(s) + 1 \/ (j \in i + 1 .. Len(s) /\ t[j] = s[j])
      BY <1>1
    <3> QED  BY <1>1, <2>1, <3>1
  <2> QED  BY <2>1, <2>2, <2>3 DEF UserLast
<1> QED  BY <1>3, <1>4, <1>5, <1>6, <1>7 DEF ShownOk, t

(* An entry that stands alone closes the turn: its items are flushed.       *)
LEMMA ShownAlone ==
    ASSUME NEW s \in Seq(Entry), NEW e \in Entry, BuildInv(s), ShownOk(s),
           e.by = "main", e.kind \notin Excluded, Class(e) \in Alone
    PROVE  ShownOk(Append(s, e))
<1> DEFINE t == Append(s, e)
           C == ReadSession(s)
           plain == Pipeline!PlainChunk(NewMessage(e, Len(s) + 1))
<1>1. /\ Len(s) \in Nat /\ Len(t) = Len(s) + 1 /\ t[Len(s) + 1] = e
      /\ \A i \in 1 .. Len(s) : t[i] = s[i]
  BY ReadOneMore
<1>2. e.kind # "expanded" /\ e.kind # "result" /\ Class(e) # "ai"
  BY UndisturbedClass DEF Excluded, Alone
<1>3. Acc(t).chunks = Append(C, plain) /\ Acc(t).buf = <<>>
  BY <1>2, AccStep
<1>4. /\ NewMessage(e, Len(s) + 1) \in Msg /\ NewMessage(e, Len(s) + 1).class = Class(e)
  BY <1>1, ClassOf DEF NewMessage, Msg, Alone, Classes
<1>5. plain \in AChunk /\ plain.type = Class(e) /\ plain.type # "ai"
  BY <1>2, <1>4, PlainIs
<1> HIDE DEF plain
<1>6. C \in Seq(AChunk) /\ C = Pipeline!Flush(Acc(s))
  BY ReadTyped
<1>7. /\ Flushed(s) \in Seq(AnItem) /\ Held(s) \in Seq(AnItem)
      /\ Pipeline!Shown(C) = Flushed(s) \o Held(s)
  BY ReadShown DEF ShownOk
<1>8. Pipeline!ShownIn(plain) = <<>>
  BY <1>5 DEF Pipeline!ShownIn
<1>9. Flushed(t) = Flushed(s) \o Held(s) /\ Held(t) = <<>>
  <2>1. Pipeline!Shown(Append(C, plain)) = Pipeline!Shown(C) \o Pipeline!ShownIn(plain)
    BY <1>5, <1>6, ShownAppend
  <2>2. Pipeline!Shown(C) \in Seq(AnItem)
    BY <1>7, ConcatProperties
  <2> HIDE DEF C
  <2>3. Pipeline!Shown(Append(C, plain)) = Pipeline!Shown(C)
    BY <1>8, <2>1, <2>2, ConcatEmptySeq
  <2> QED  BY <1>3, <1>7, <2>3, NoItems DEF Flushed, Held
<1>10. Flushed(t) \o Held(t) = Flushed(s) \o Held(s)
  <2>1. Flushed(s) \o Held(s) \in Seq(AnItem)
    BY <1>7, ConcatProperties
  <2> QED  BY <1>9, <2>1, ConcatEmptySeq
<1>11. RowOk(t, Flushed(t) \o Held(t))
  <2> DEFINE I == Flushed(s) \o Held(s)
  <2>1. RowOk(s, I)
    BY DEF ShownOk
  <2> HIDE DEF I
  <2>2. RowOk(t, I)
    BY <1>2, <2>1, RowSame
  <2> QED  BY <1>10, <2>2 DEF I
<1>12. CallsHeld(t)
  <2>1. Class(t[Len(t)]) \in Alone /\ \A i \in 1 .. Len(t) : Len(t) \in i .. Len(t)
    BY <1>1
  <2> QED  BY <2>1 DEF CallsHeld
<1>13. (\E k \in 1 .. Len(Append(C, plain)) : Append(C, plain)[k].type = "ai")
           => Flushed(t) # <<>>
  <2> DEFINE L == Append(C, plain)
  <2> SUFFICES ASSUME NEW k \in 1 .. Len(L), L[k].type = "ai" PROVE Flushed(t) # <<>>
    OBVIOUS
  <2>1. k \in 1 .. Len(C) /\ C[k].type = "ai"
    BY <1>5, <1>6, AppendTo
  <2> HIDE DEF L
  <2>2. Acc(s).chunks \in Seq(AChunk)
    BY DEF BuildInv, Building
  <2>3. CASE Acc(s).buf = <<>>
    <3>1. C = Acc(s).chunks
      BY <1>6, <2>3 DEF Pipeline!Flush
    <3>2. Flushed(s) # <<>>
      BY <2>1, <3>1 DEF ShownOk
    <3> HIDE DEF C
    <3> QED  BY <1>7, <1>9, <3>2, ConcatProperties, EmptySeq
  <2>4. CASE Acc(s).buf # <<>>
    <3>1. Held(s) # <<>>
      BY <2>4 DEF ShownOk
    <3> QED  BY <1>7, <1>9, <3>1, ConcatProperties, EmptySeq
  <2> QED  BY <2>3, <2>4
<1>14. Class(e) = "user" => UserLast(t)
  <2>1. /\ Len(t) \in 1 .. Len(t) /\ t[Len(t)] = e /\ Len(t) + 1 .. Len(t) = {}
    BY <1>1
  <2> HIDE DEF t
  <2> QED  BY <2>1 DEF UserLast
<1>15. Append(C, plain)[Len(Append(C, plain))] = plain
  BY <1>5, <1>6, AppendTo
<1> HIDE DEF t, C
<1> QED  BY <1>3, <1>5, <1>11, <1>12, <1>13, <1>14, <1>15 DEF ShownOk, t

(* The held items come behind the flushed ones.                             *)
LEMMA RowParts ==
    ASSUME NEW X \in Seq(AnItem), NEW B \in Seq(AnItem)
    PROVE  /\ X \o B \in Seq(AnItem) /\ Len(X) \in Nat /\ Len(B) \in Nat
           /\ Len(X \o B) = Len(X) + Len(B)
           /\ \A k \in 1 .. Len(X) : (X \o B)[k] = X[k] /\ k \in 1 .. Len(X \o B)
           /\ \A k \in 1 .. Len(B) :
                 (X \o B)[Len(X) + k] = B[k] /\ Len(X) + k \in 1 .. Len(X \o B)
           /\ \A k \in 1 .. Len(X \o B) :
                 k \in 1 .. Len(X) \/ (k - Len(X) \in 1 .. Len(B) /\ Len(X) + (k - Len(X)) = k)
<1> DEFINE I == X \o B
<1>1. /\ I \in Seq(AnItem) /\ Len(X) \in Nat /\ Len(B) \in Nat /\ Len(I) = Len(X) + Len(B)
      /\ \A k \in 1 .. Len(X) + Len(B) : I[k] = IF k <= Len(X) THEN X[k] ELSE B[k - Len(X)]
  BY ConcatProperties, LenProperties
<1> HIDE DEF I
<1>2. \A k \in 1 .. Len(X) : I[k] = X[k] /\ k \in 1 .. Len(I)
  BY <1>1
<1>3. \A k \in 1 .. Len(B) : I[Len(X) + k] = B[k] /\ Len(X) + k \in 1 .. Len(I)
  BY <1>1
<1>4. \A k \in 1 .. Len(I) :
          k \in 1 .. Len(X) \/ (k - Len(X) \in 1 .. Len(B) /\ Len(X) + (k - Len(X)) = k)
  BY <1>1
<1> QED  BY <1>1, <1>2, <1>3, <1>4 DEF I

(* What an entry that joins the turn does, whatever its items become.       *)
LEMMA JoinedStep ==
    ASSUME NEW s \in Seq(Entry), NEW e \in Entry, BuildInv(s), ShownOk(s),
           e.kind \notin Excluded, Class(e) \in Joined
    PROVE  LET t == Append(s, e) IN
           /\ Flushed(t) = Flushed(s)
           /\ Held(t) = Pipeline!AddBlock(Held(s), NewMessage(e, Len(s) + 1))
           /\ Acc(t).chunks = Acc(s).chunks /\ Acc(t).buf # <<>>
           /\ Flushed(s) \in Seq(AnItem) /\ Held(s) \in Seq(AnItem)
<1> DEFINE t == Append(s, e)
           m == NewMessage(e, Len(s) + 1)
           b == Acc(s).buf
<1>1. e.kind # "expanded"
  BY DEF Excluded
<1>2. Acc(t).chunks = Acc(s).chunks /\ Acc(t).buf = Append(b, m)
  BY <1>1, AccStep
<1>3. TurnOk(s, b) /\ b \in Seq(Msg)
  BY DEF BuildInv, Building
<1>4. Items(Append(b, m)) = Pipeline!AddBlock(Items(b), m)
  BY <1>3, TurnAppend
<1>5. Flushed(s) \in Seq(AnItem) /\ Held(s) \in Seq(AnItem)
  BY ReadShown DEF ShownOk
<1>6. m \in Msg
  <2>1. Len(s) \in Nat
    BY ReadOneMore
  <2> QED  BY <2>1, ClassOf DEF NewMessage, Msg, Joined, Classes
<1>7. Append(b, m) # <<>>
  <2> HIDE DEF m, b
  <2> QED  BY <1>3, <1>6, AppendProperties DEF b
<1> QED  BY <1>2, <1>4, <1>5, <1>7 DEF Flushed, Held

(* An entry of the turn that is no result is its last item.                 *)
LEMMA ShownItem ==
    ASSUME NEW s \in Seq(Entry), NEW e \in Entry, BuildInv(s), ShownOk(s),
           e.by = "main", e.kind \notin Excluded, Class(e) \in Joined, e.kind # "result"
    PROVE  ShownOk(Append(s, e))
<1> DEFINE t == Append(s, e)
           n == Len(s) + 1
           X == Flushed(s)
           B == Held(s)
<1>1. /\ Len(s) \in Nat /\ Len(t) = n /\ t[n] = e /\ n \in Nat /\ n \in 1 .. Len(t) /\ n # 0
      /\ \A i \in 1 .. Len(s) : t[i] = s[i]
      /\ \A i \in 1 .. Len(t) : i = n \/ i \in 1 .. Len(s)
  BY ReadOneMore
<1>2. /\ Flushed(t) = X /\ Held(t) = Pipeline!AddBlock(B, NewMessage(e, n))
      /\ Acc(t).chunks = Acc(s).chunks /\ Acc(t).buf # <<>>
      /\ X \in Seq(AnItem) /\ B \in Seq(AnItem)
  BY JoinedStep
<1>3. PICK it \in AnItem :
          /\ Pipeline!AddBlock(B, NewMessage(e, n)) = Append(B, it)
          /\ it.at = n /\ it.kind = e.kind /\ it.id = e.id /\ it.result = 0
          /\ it.type = Pipeline!ItemType(NewMessage(e, n))
          /\ it.full <=> e.kind \notin Calls \cup {"blank"}
  BY <1>1, <1>2, UndisturbedBlock
<1>4. Class(e) \in {"ai", "teammate", "memory"}
  BY UndisturbedClass DEF Joined
<1>5. RowOk(s, X \o B) /\ CallsHeld(s) /\ Held(t) = Append(B, it)
  BY <1>2, <1>3 DEF ShownOk
<1>6. ((\E k \in 1 .. Len(Acc(s).chunks) : Acc(s).chunks[k].type = "ai") => X # <<>>)
  BY DEF ShownOk
<1> HIDE DEF t, n, X, B
<1>7. ItemOf(t, it)
  <2>1. IsCall(it) <=> e.kind \in Calls
    <3>1. it.type \in {"tool", "subagent"} <=> e.kind \in Calls
      BY <1>3, <1>4, ItemTypeIs
    <3> QED  BY <3>1 DEF IsCall, Pipeline!IsCall
  <2>2. /\ it.at \in 1 .. Len(t) /\ it.kind = t[it.at].kind /\ it.id = t[it.at].id
        /\ Class(t[it.at]) \in {"ai", "teammate", "memory"}
        /\ it.type = Pipeline!ItemType(NewMessage(t[it.at], it.at))
    BY <1>1, <1>3, <1>4
  <2>3. IsCall(it) => (it.full <=> it.result # 0)
    BY <1>3, <2>1
  <2>4. ~ IsCall(it) => (it.full <=> it.kind # "blank")
    BY <1>3, <2>1
  <2>5. it.result = 0
    BY <1>3
  <2> QED  BY <2>2, <2>3, <2>4, <2>5 DEF ItemOf
<1>8. RowOk(t, X \o Append(B, it))
  <2>1. RowOk(t, Append(X \o B, it))
    BY <1>3, <1>5, <1>7, RowLonger DEF t, n
  <2>2. Append(X \o B, it) = X \o Append(B, it)
    <3>1. /\ Append(X \o B, it) = (X \o B) \o <<it>> /\ Append(B, it) = B \o <<it>>
          /\ <<it>> \in Seq(AnItem) /\ X \o B \in Seq(AnItem)
      BY <1>2, AppendIsConcat, RowParts
    <3>2. (X \o B) \o <<it>> = X \o (B \o <<it>>)
      BY <1>2, <3>1, ConcatAssociative
    <3> QED  BY <3>1, <3>2
  <2> QED  BY <2>1, <2>2
<1>9. CallsHeld(t)
  <2> SUFFICES ASSUME NEW i \in 1 .. Len(t), t[i].kind \in {"tool", "agent"},
                      \A j \in i .. Len(t) : Class(t[j]) \notin Alone
               PROVE  \E k \in 1 .. Len(Held(t)) : Held(t)[k].at = i
    BY DEF CallsHeld
  <2>1. /\ Len(B) \in Nat /\ Len(Held(t)) = Len(B) + 1 /\ Held(t)[Len(B) + 1] = it
        /\ \A k \in 1 .. Len(B) : Held(t)[k] = B[k] /\ k \in 1 .. Len(Held(t))
        /\ Len(B) + 1 \in 1 .. Len(Held(t))
    BY <1>2, <1>5, AppendTo
  <2>2. CASE i = n
    BY <1>3, <2>1, <2>2
  <2>3. CASE i \in 1 .. Len(s)
    <3>1. \A j \in i .. Len(s) : Class(s[j]) \notin Alone
      <4>1. \A j \in i .. Len(s) : j \in i .. Len(t) /\ t[j] = s[j]
        BY <1>1, <2>3 DEF n
      <4> QED  BY <4>1
    <3>2. PICK k \in 1 .. Len(B) : B[k].at = i
      BY <1>1, <1>5, <2>3, <3>1 DEF CallsHeld, B
    <3> QED  BY <2>1, <3>2
  <2> QED  BY <1>1, <2>2, <2>3
<1>10. Held(t) # <<>>
  BY <1>2, <1>5, AppendProperties
<1> QED  BY <1>2, <1>5, <1>6, <1>8, <1>9, <1>10 DEF ShownOk, t

(* A prompt result finds its call among the items that are held: no entry   *)
(* since the call has closed the turn or has used the id.                   *)
LEMMA CallWaits ==
    ASSUME NEW s \in Seq(Entry), NEW e \in Entry, BuildInv(s), ShownOk(s), Undisturbed(s),
           e.kind = "result", Prompt(Append(s, e), Len(s) + 1)
    PROVE  \E p \in 1 .. Len(Held(s)) :
              /\ IsCall(Held(s)[p]) /\ Held(s)[p].id = e.id /\ Held(s)[p].result = 0
              /\ \A j \in p + 1 .. Len(Held(s)) :
                    ~ (IsCall(Held(s)[j]) /\ Held(s)[j].id = e.id)
<1> DEFINE t == Append(s, e)
           X == Flushed(s)
           B == Held(s)
           I == X \o B
<1>1. /\ Len(s) \in Nat /\ Len(t) = Len(s) + 1 /\ t[Len(s) + 1] = e
      /\ \A i \in 1 .. Len(s) : t[i] = s[i]
      /\ (Len(s) + 1) - 1 = Len(s)
  BY ReadOneMore
<1>2. X \in Seq(AnItem) /\ B \in Seq(AnItem)
  BY ReadShown DEF ShownOk
<1>3. RowOk(s, I) /\ CallsHeld(s)
  BY DEF ShownOk
<1>4. PICK c \in 1 .. (Len(s) + 1) - 1 :
          /\ t[c].kind \in {"tool", "agent"} /\ t[c].id = t[Len(s) + 1].id
          /\ \A j \in c + 1 .. (Len(s) + 1) - 1 :
                /\ Class(t[j]) \in {"ai", "meta", "teammate", "memory", "drop"}
                /\ ~ Ends(t, j)
                /\ ~ (t[j].kind \in Calls \cup Results /\ t[j].id = t[Len(s) + 1].id)
  BY DEF Prompt
<1> HIDE DEF t
<1>5. /\ c \in 1 .. Len(s) /\ s[c].kind \in {"tool", "agent"} /\ s[c].id = e.id
      /\ \A j \in c + 1 .. Len(s) :
            /\ Class(s[j]) \in {"ai", "meta", "teammate", "memory", "drop"}
            /\ ~ (s[j].kind \in Calls \cup Results /\ s[j].id = e.id)
  <2>1. c \in 1 .. Len(s)
    BY <1>1
  <2>2. \A j \in c + 1 .. Len(s) : j \in c + 1 .. (Len(s) + 1) - 1 /\ t[j] = s[j]
    BY <1>1, <2>1
  <2> QED  BY <1>1, <1>4, <2>1, <2>2
<1>6. s[c] \in Entry /\ Class(s[c]) = "ai"
  <2>1. s[c] \in Entry
    BY <1>5
  <2>2. s[c].by = "main" /\ s[c].kind \notin Excluded
    BY <1>5 DEF Undisturbed
  <2> QED  BY <1>5, <2>1, <2>2, UndisturbedClass DEF Assistant, Calls
<1>7. \A j \in c .. Len(s) : Class(s[j]) \notin Alone
  <2>1. \A j \in c .. Len(s) : j = c \/ j \in c + 1 .. Len(s)
    BY <1>1
  <2> QED  BY <1>5, <1>6, <2>1 DEF Alone
<1> HIDE DEF X, B, I
<1>8. PICK p \in 1 .. Len(B) : B[p].at = c
  BY <1>3, <1>5, <1>7 DEF CallsHeld, B
<1>9. ASSUME NEW k \in 1 .. Len(B)
      PROVE  /\ Len(X) + k \in 1 .. Len(I) /\ I[Len(X) + k] = B[k]
             /\ ItemOf(s, B[k]) /\ B[k] \in AnItem
             /\ IsCall(B[k]) <=> s[B[k].at].kind \in Calls
  <2>1. Len(X) + k \in 1 .. Len(I) /\ I[Len(X) + k] = B[k] /\ B[k] \in AnItem
    BY <1>2, RowParts DEF I
  <2>2. ItemOf(s, B[k])
    BY <1>3, <2>1 DEF RowOk
  <2> DEFINE a == B[k].at
  <2>3. /\ a \in 1 .. Len(s) /\ Class(s[a]) \in {"ai", "teammate", "memory"}
        /\ B[k].type = Pipeline!ItemType(NewMessage(s[a], a))
    BY <2>2 DEF ItemOf
  <2> HIDE DEF a
  <2>4. s[a] \in Entry /\ s[a].by = "main" /\ s[a].kind \notin Excluded
    BY <2>3 DEF Undisturbed
  <2>5. B[k].type \in {"tool", "subagent"} <=> s[a].kind \in Calls
    BY <2>3, <2>4, ItemTypeIs
  <2>6. IsCall(B[k]) <=> s[a].kind \in Calls
    BY <2>5 DEF IsCall, Pipeline!IsCall
  <2> QED  BY <2>1, <2>2, <2>6 DEF a
<1>10. IsCall(B[p]) /\ B[p].id = e.id
  <2>1. s[B[p].at].kind \in Calls /\ B[p].id = s[B[p].at].id
    BY <1>5, <1>8, <1>9 DEF ItemOf, Calls
  <2> QED  BY <1>5, <1>8, <1>9, <2>1
<1>11. B[p].result = 0
  <2> SUFFICES ASSUME B[p].result # 0 PROVE FALSE
    OBVIOUS
  <2> DEFINE r == B[p].result
  <2>1. /\ r \in c + 1 .. Len(s) /\ s[r].kind = "result" /\ s[r].id = e.id
    BY <1>8, <1>9, <1>10 DEF ItemOf
  <2> HIDE DEF r
  <2> QED  BY <1>5, <2>1 DEF Results
<1>12. ASSUME NEW j \in p + 1 .. Len(B), IsCall(B[j]), B[j].id = e.id PROVE FALSE
  <2>1. Len(B) \in Nat /\ j \in 1 .. Len(B) /\ Len(X) \in Nat
    BY <1>2, RowParts
  <2>2. Len(X) + p \in 1 .. (Len(X) + j) - 1
    BY <2>1
  <2>3. B[p].at < B[j].at
    <3>1. I[Len(X) + p].at < I[Len(X) + j].at
      BY <1>3, <1>9, <2>1, <2>2 DEF RowOk
    <3> QED  BY <1>9, <2>1, <3>1
  <2> DEFINE a == B[j].at
  <2>4. a \in 1 .. Len(s) /\ s[a].kind \in Calls /\ s[a].id = e.id
    <3>1. ItemOf(s, B[j]) /\ (IsCall(B[j]) <=> s[a].kind \in Calls)
      BY <1>9, <2>1
    <3> QED  BY <1>12, <3>1 DEF ItemOf
  <2>5. c < a
    BY <1>8, <2>3
  <2> HIDE DEF a
  <2>6. a \in c + 1 .. Len(s)
    BY <1>5, <2>4, <2>5
  <2> QED  BY <1>5, <2>4, <2>6
<1> QED  BY <1>8, <1>10, <1>11, <1>12 DEF B

(* A result is put on its call.                                             *)
LEMMA ShownResult ==
    ASSUME NEW s \in Seq(Entry), NEW e \in Entry, BuildInv(s), ShownOk(s), Undisturbed(s),
           e.by = "main", e.kind \notin Excluded, e.kind = "result",
           Prompt(Append(s, e), Len(s) + 1)
    PROVE  ShownOk(Append(s, e))
<1> DEFINE t == Append(s, e)
           n == Len(s) + 1
           X == Flushed(s)
           B == Held(s)
           D == Held(t)
           I == X \o B
           J == X \o D
<1>1. /\ Len(s) \in Nat /\ Len(t) = n /\ t[n] = e /\ n \in Nat /\ n \in 1 .. Len(t) /\ n # 0
      /\ \A i \in 1 .. Len(s) : t[i] = s[i]
      /\ \A i \in 1 .. Len(t) : i = n \/ i \in 1 .. Len(s)
  BY ReadOneMore
<1>2. Class(e) = "meta"
  BY UndisturbedClass
<1>3. /\ Flushed(t) = X /\ D = Pipeline!AddBlock(B, NewMessage(e, n))
      /\ Acc(t).chunks = Acc(s).chunks /\ Acc(t).buf # <<>>
      /\ X \in Seq(AnItem) /\ B \in Seq(AnItem)
  BY <1>2, JoinedStep DEF Joined
<1>4. PICK p \in 1 .. Len(B) :
          /\ IsCall(B[p]) /\ B[p].id = e.id /\ B[p].result = 0
          /\ \A j \in p + 1 .. Len(B) : ~ (IsCall(B[j]) /\ B[j].id = e.id)
  BY CallWaits
<1>5. RowOk(s, I) /\ CallsHeld(s)
  BY DEF ShownOk
<1>6. ((\E k \in 1 .. Len(Acc(s).chunks) : Acc(s).chunks[k].type = "ai") => X # <<>>)
  BY DEF ShownOk
<1> HIDE DEF t, n, X, B, D, I, J
<1>7. /\ D \in Seq(AnItem) /\ Len(D) = Len(B)
      /\ \A k \in 1 .. Len(B) : k # p => D[k] = B[k]
      /\ D[p].type = B[p].type /\ D[p].kind = B[p].kind
      /\ D[p].id = B[p].id /\ D[p].at = B[p].at
      /\ D[p].result = n /\ D[p].full = TRUE
  <2> DEFINE new == Pipeline!AddBlock(B, NewMessage(e, n))
  <2>1. n \in Nat /\ B \in Seq(AnItem)
    BY <1>1, <1>3
  <2>2. /\ new \in Seq(AnItem) /\ Len(new) = Len(B)
        /\ \A k \in 1 .. Len(B) : k # p => new[k] = B[k]
        /\ new[p].type = B[p].type /\ new[p].kind = B[p].kind
        /\ new[p].id = B[p].id /\ new[p].at = B[p].at
        /\ new[p].result = n /\ new[p].full = TRUE
    BY <1>4, <2>1, ResultBlock
  <2>3. D = new
    BY <1>3
  <2> HIDE DEF new
  <2> QED  BY <2>2, <2>3
<1>8. /\ I \in Seq(AnItem) /\ Len(X) \in Nat /\ Len(B) \in Nat
      /\ Len(I) = Len(X) + Len(B)
      /\ \A k \in 1 .. Len(X) : I[k] = X[k] /\ k \in 1 .. Len(I)
      /\ \A k \in 1 .. Len(B) : I[Len(X) + k] = B[k] /\ Len(X) + k \in 1 .. Len(I)
      /\ \A k \in 1 .. Len(I) :
            k \in 1 .. Len(X) \/ (k - Len(X) \in 1 .. Len(B) /\ Len(X) + (k - Len(X)) = k)
  BY <1>3, RowParts DEF I
<1>9. /\ J \in Seq(AnItem) /\ Len(J) = Len(X) + Len(D)
      /\ \A k \in 1 .. Len(X) : J[k] = X[k]
      /\ \A k \in 1 .. Len(D) : J[Len(X) + k] = D[k]
  <2>1. X \in Seq(AnItem) /\ D \in Seq(AnItem)
    BY <1>3, <1>7
  <2> QED  BY <2>1, RowParts DEF J
<1> DEFINE q == Len(X) + p
<1>10. q \in 1 .. Len(I) /\ I[q] = B[p] /\ J[q] = D[p]
  BY <1>7, <1>8, <1>9
<1>11. \A k \in 1 .. Len(I) : k # q => J[k] = I[k]
  <2> SUFFICES ASSUME NEW k \in 1 .. Len(I), k # q PROVE J[k] = I[k]
    OBVIOUS
  <2>1. CASE k \in 1 .. Len(X)
    BY <1>8, <1>9, <2>1
  <2>2. CASE k - Len(X) \in 1 .. Len(B) /\ Len(X) + (k - Len(X)) = k
    <3>1. PICK j : j = k - Len(X)
      OBVIOUS
    <3>2. j \in 1 .. Len(B) /\ Len(X) + j = k /\ j # p
      BY <2>2, <3>1
    <3>3. I[k] = B[j] /\ J[k] = D[j] /\ D[j] = B[j]
      BY <1>7, <1>8, <1>9, <3>2
    <3> QED  BY <3>3
  <2> QED  BY <1>8, <2>1, <2>2
<1> HIDE DEF q
<1>12. ItemOf(t, J[q])
  <2>1. ItemOf(s, B[p]) /\ B[p] \in AnItem /\ J[q] = D[p]
    BY <1>5, <1>8, <1>10 DEF RowOk
  <2>2. B[p].at \in 1 .. Len(s) /\ B[p].at \in 1 .. Len(t) /\ t[B[p].at] = s[B[p].at]
    <3>1. B[p].at \in 1 .. Len(s)
      BY <2>1 DEF ItemOf
    <3> QED  BY <1>1, <3>1 DEF n
  <2>3. IsCall(D[p])
    BY <1>4, <1>7 DEF IsCall, Pipeline!IsCall
  <2>4. n \in B[p].at + 1 .. Len(t) /\ t[n].kind = "result" /\ t[n].id = D[p].id
    <3>1. n \in B[p].at + 1 .. Len(t)
      BY <1>1, <2>2 DEF n
    <3> QED  BY <1>1, <1>4, <1>7, <3>1
  <2>5. /\ D[p].at \in 1 .. Len(t) /\ D[p].kind = t[D[p].at].kind /\ D[p].id = t[D[p].at].id
        /\ Class(t[D[p].at]) \in {"ai", "teammate", "memory"}
        /\ D[p].type = Pipeline!ItemType(NewMessage(t[D[p].at], D[p].at))
    BY <1>7, <2>1, <2>2 DEF ItemOf
  <2>6. D[p].full <=> D[p].result # 0
    BY <1>1, <1>7
  <2>7. D[p].result \in D[p].at + 1 .. Len(t) /\ t[D[p].result].kind = "result"
        /\ t[D[p].result].id = D[p].id
    BY <1>7, <2>4
  <2>8. ItemOf(t, D[p])
    BY <2>3, <2>5, <2>6, <2>7 DEF ItemOf
  <2> QED  BY <2>1, <2>8
<1>13. RowOk(t, J)
  <2>1. Len(J) = Len(I) /\ I[q].result = 0 /\ J[q].at = I[q].at /\ J[q].result = Len(s) + 1
    BY <1>4, <1>7, <1>8, <1>9, <1>10 DEF n
  <2>2. Class(e) # "ai"
    BY <1>2
  <2> QED  BY <1>5, <1>9, <1>10, <1>11, <1>12, <2>1, <2>2, RowMatched DEF t
<1>14. CallsHeld(t)
  <2> SUFFICES ASSUME NEW i \in 1 .. Len(t), t[i].kind \in {"tool", "agent"},
                      \A j \in i .. Len(t) : Class(t[j]) \notin Alone
               PROVE  \E k \in 1 .. Len(D) : D[k].at = i
    BY DEF CallsHeld, D
  <2>1. i \in 1 .. Len(s)
    BY <1>1
  <2>2. \A j \in i .. Len(s) : Class(s[j]) \notin Alone
    <3>1. \A j \in i .. Len(s) : j \in i .. Len(t) /\ t[j] = s[j]
      BY <1>1, <2>1 DEF n
    <3> QED  BY <3>1
  <2>3. PICK k \in 1 .. Len(B) : B[k].at = i
    BY <1>1, <1>5, <2>1, <2>2 DEF CallsHeld, B
  <2>4. D[k].at = B[k].at
    BY <1>7
  <2> QED  BY <1>7, <2>3, <2>4
<1>15. D # <<>>
  BY <1>4, <1>7, <1>8
<1> QED  BY <1>3, <1>6, <1>13, <1>14, <1>15 DEF ShownOk, t, D, J

(* An empty transcript shows nothing.                                       *)
LEMMA ShownStart == ShownOk(<<>>)
<1>1. Acc(<<>>).chunks = <<>> /\ Acc(<<>>).buf = <<>>
  BY BuildStart
<1>2. Flushed(<<>>) = <<>> /\ Held(<<>>) = <<>>
  BY <1>1, ShownNone, NoItems DEF Flushed, Held
<1>3. <<>> \o <<>> = <<>> /\ <<>> \in Seq(AnItem) /\ Len(<<>>) = 0 /\ 1 .. 0 = {}
  OBVIOUS
<1>4. RowOk(<<>>, <<>>)
  BY <1>3 DEF RowOk
<1>5. CallsHeld(<<>>)
  BY <1>3 DEF CallsHeld
<1> QED  BY <1>1, <1>2, <1>3, <1>4, <1>5 DEF ShownOk

(* And every undisturbed entry keeps what holds of the items.               *)
LEMMA ShownStep ==
    ASSUME NEW s \in Seq(Entry), NEW e \in Entry, BuildInv(s), Undisturbed(Append(s, e)),
           ShownOk(s)
    PROVE  ShownOk(Append(s, e))
<1>1. /\ Undisturbed(s) /\ e.by = "main" /\ e.kind \notin Excluded
      /\ e.kind = "result" => Prompt(Append(s, e), Len(s) + 1)
  BY UndisturbedBefore
<1>2. CASE e.kind = "result"
  BY <1>1, <1>2, ShownResult
<1>3. CASE e.kind # "result" /\ Class(e) \in Joined
  BY <1>1, <1>3, ShownItem
<1>4. CASE Class(e) \in Alone
  BY <1>1, <1>4, ShownAlone
<1>5. CASE Class(e) = "drop"
  BY <1>1, <1>5, ShownDropped
<1>6. Class(e) \in Classes \cup {"drop"}
  BY ClassOf
<1> QED  BY <1>2, <1>3, <1>4, <1>5, <1>6 DEF Classes, Alone, Joined

----------------------------------------------------------------------------
(* No two calls of an undisturbed transcript have the same id.              *)
LEMMA OneCall ==
    ASSUME NEW s \in Seq(Entry), Undisturbed(s), NEW a \in 1 .. Len(s), NEW c \in 1 .. Len(s),
           s[a].kind \in Calls, s[c].kind \in Calls, s[a].id = s[c].id
    PROVE  a = c
<1>1. \A i \in 1 .. Len(s) : s[i].kind \in Calls => \A j \in 1 .. i - 1 : s[j].id # s[i].id
  BY DEF Undisturbed
<1>2. Len(s) \in Nat
  OBVIOUS
<1>3. CASE a < c
  <2>1. a \in 1 .. c - 1
    BY <1>2, <1>3
  <2> QED  BY <1>1, <2>1
<1>4. CASE c < a
  <2>1. c \in 1 .. a - 1
    BY <1>2, <1>4
  <2> QED  BY <1>1, <2>1
<1> QED  BY <1>3, <1>4

(* The kinds that end the work and those that are work, for the scan.       *)
EndingKinds  == {"text", "plan", "approval"}
WorkingKinds == {"thinking", "tool", "agent"}

(* An undisturbed entry ends the work, or is work, by its kind alone.       *)
LEMMA EndsByKind ==
    ASSUME NEW s \in Seq(Entry), Undisturbed(s), NEW i \in 1 .. Len(s)
    PROVE  /\ Ends(s, i) <=> s[i].kind \in EndingKinds
           /\ Works(s, i) <=> s[i].kind \in WorkingKinds \cup {"result"}
           /\ s[i].kind = "result" =>
                 \E c \in 1 .. i - 1 :
                    /\ s[c].kind \in {"tool", "agent"} /\ s[c].id = s[i].id
                    /\ \A j \in c + 1 .. i - 1 : ~ Ends(s, j)
<1>1. /\ s[i].by = "main" /\ s[i].kind \notin Excluded
      /\ s[i].kind \in Calls => s[i].id # NoId
  BY DEF Undisturbed
<1>2. Scanned(s[i]) <=> s[i].kind \in Assistant
  BY <1>1 DEF Scanned
<1>3. CASE s[i].kind = "result"
  <2>1. PICK c \in 1 .. i - 1 :
            /\ s[c].kind \in {"tool", "agent"} /\ s[c].id = s[i].id
            /\ \A j \in c + 1 .. i - 1 :
                  /\ Class(s[j]) \in {"ai", "meta", "teammate", "memory", "drop"}
                  /\ ~ Ends(s, j)
                  /\ ~ (s[j].kind \in Calls \cup Results /\ s[j].id = s[i].id)
    BY <1>3 DEF Undisturbed, Prompt
  <2>2. c \in 1 .. Len(s) /\ s[c].kind \in Calls /\ s[i].id # NoId
    <3>1. c \in 1 .. Len(s) /\ s[c].kind \in Calls
      BY <2>1 DEF Calls
    <3> QED  BY <2>1, <3>1 DEF Undisturbed
  <2>3. ~ Approved(s, i)
    <3> SUFFICES ASSUME NEW j \in 1 .. i - 1, s[j].kind = "approval", s[j].id = s[i].id
                 PROVE  FALSE
      BY DEF Approved
    <3>1. j \in 1 .. Len(s) /\ s[j].kind \in Calls
      BY DEF Calls
    <3>2. j = c
      BY <2>1, <2>2, <3>1, OneCall
    <3> QED  BY <2>1, <3>2
  <2>4. ~ Ends(s, i)
    BY <1>3, <2>3 DEF Ends, Scanned, Assistant, Calls, Spoken
  <2>5. Works(s, i)
    BY <1>3, <2>2, <2>4 DEF Works, ResultOf, Results
  <2> QED  BY <1>3, <2>1, <2>4, <2>5 DEF EndingKinds, WorkingKinds
<1>4. CASE s[i].kind # "result"
  <2>1. ~ ResultOf(s[i])
    BY <1>1, <1>4 DEF ResultOf, Results, Excluded
  <2>2. Ends(s, i) <=> s[i].kind \in EndingKinds
    BY <1>1, <1>2, <2>1 DEF Ends, EndingKinds, Assistant, Calls, Spoken, Excluded
  <2>3. Works(s, i) <=> s[i].kind \in WorkingKinds
    BY <1>1, <1>2, <2>1 DEF Works, WorkingKinds, Assistant, Calls, Spoken, Excluded
  <2> QED  BY <1>4, <2>2, <2>3
<1> QED  BY <1>3, <1>4

(* The same for the items: what item k says is what its entry is.           *)
LEMMA ActivityOf ==
    ASSUME NEW s \in Seq(Entry), Undisturbed(s), NEW I, RowOk(s, I), NEW k \in 1 .. Len(I)
    PROVE  LET acts == Pipeline!Activities(I, k)
           IN  /\ acts \in Seq(Acts) /\ Plainly(acts)
               /\ Working(acts) <=> s[I[k].at].kind \in WorkingKinds
               /\ acts = <<"ending">> <=> s[I[k].at].kind \in EndingKinds
<1> DEFINE it == I[k]
           a == I[k].at
           acts == Pipeline!Activities(I, k)
<1>1. ItemOf(s, it)
  BY DEF RowOk
<1>2. /\ a \in 1 .. Len(s) /\ it.kind = s[a].kind /\ it.id = s[a].id
      /\ Class(s[a]) \in {"ai", "teammate", "memory"}
      /\ it.type = Pipeline!ItemType(NewMessage(s[a], a))
  BY <1>1 DEF ItemOf
<1>3. s[a] \in Entry /\ s[a].by = "main" /\ s[a].kind \notin Excluded
  BY <1>2 DEF Undisturbed
<1>4. /\ it.type \in ItemTypes
      /\ it.type \in {"tool", "subagent"} <=> s[a].kind \in Calls
      /\ it.type = "subagent" <=> s[a].kind = "agent"
      /\ it.type = "thinking" <=> s[a].kind = "thinking"
      /\ it.type = "output" <=> s[a].kind \in {"text", "blank"}
  BY <1>2, <1>3, ItemTypeIs
<1>5. Pipeline!IsCall(it) <=> it.type \in {"tool", "subagent"}
  BY DEF Pipeline!IsCall
<1>6. /\ Pipeline!IsCall(it) => (it.full <=> it.result # 0)
      /\ ~ Pipeline!IsCall(it) => (it.full <=> it.kind # "blank")
      /\ it.result # 0 => /\ it.result \in a + 1 .. Len(s)
                          /\ s[it.result].kind = "result" /\ s[it.result].id = it.id
  BY <1>1 DEF ItemOf, IsCall
<1>7. /\ <<"work">> \in Seq(Acts) /\ <<"work", "work">> \in Seq(Acts)
      /\ <<"ending">> \in Seq(Acts) /\ <<>> \in Seq(Acts)
      /\ Working(<<"work">>) /\ Working(<<"work", "work">>)
      /\ ~ Working(<<"ending">>) /\ ~ Working(<<>>)
      /\ <<"work">> # <<"ending">> /\ <<"work", "work">> # <<"ending">> /\ <<>> # <<"ending">>
  BY DEF Acts, Working
<1>8. CASE it.type = "thinking"
  <2>1. acts = <<"work">>
    BY <1>5, <1>8, Zenon DEF Pipeline!Activities
  <2> QED  BY <1>4, <1>7, <1>8, <2>1 DEF Plainly, WorkingKinds, EndingKinds
<1>9. CASE it.type = "output"
  <2>1. ~ Pipeline!IsCall(it)
    BY <1>5, <1>9
  <2>2. it.full <=> s[a].kind = "text"
    BY <1>2, <1>4, <1>6, <1>9, <2>1
  <2>3. CASE s[a].kind = "text"
    <3>1. acts = <<"ending">>
      BY <1>9, <2>1, <2>2, <2>3, Zenon DEF Pipeline!Activities
    <3> QED  BY <1>7, <2>3, <3>1 DEF Plainly, WorkingKinds, EndingKinds
  <2>4. CASE s[a].kind = "blank"
    <3>1. ~ it.full
      BY <2>2, <2>4
    <3>2. acts = <<>>
      BY <1>9, <2>1, <3>1, Zenon DEF Pipeline!Activities
    <3> QED  BY <1>7, <2>4, <3>2 DEF Plainly, WorkingKinds, EndingKinds
  <2> QED  BY <1>4, <1>9, <2>3, <2>4
<1>10. CASE Pipeline!IsCall(it)
  <2>1. s[a].kind \in Calls /\ it.type \in {"tool", "subagent"}
    BY <1>4, <1>5, <1>10
  <2>2. acts = IF it.full
               THEN <<Pipeline!CallActivity(it), Pipeline!ResultActivity(I, k)>>
               ELSE <<Pipeline!CallActivity(it)>>
    BY <1>10, <2>1 DEF Pipeline!Activities
  <2>3. /\ s[a].kind \in {"tool", "agent"} => Pipeline!CallActivity(it) = "work"
        /\ s[a].kind \in {"plan", "approval"} => Pipeline!CallActivity(it) = "ending"
    BY <1>2, <1>4, <2>1 DEF Pipeline!CallActivity
  <2>4. CASE ~ it.full
    <3>1. acts = <<Pipeline!CallActivity(it)>>
      BY <2>2, <2>4
    <3>2. CASE s[a].kind \in {"tool", "agent"}
      <4>1. acts = <<"work">>
        BY <2>3, <3>1, <3>2
      <4> QED  BY <1>7, <3>2, <4>1 DEF Plainly, WorkingKinds, EndingKinds
    <3>3. CASE s[a].kind \in {"plan", "approval"}
      <4>1. acts = <<"ending">>
        BY <2>3, <3>1, <3>3
      <4> QED  BY <1>7, <3>3, <4>1 DEF Plainly, WorkingKinds, EndingKinds
    <3> QED  BY <2>1, <3>2, <3>3 DEF Calls
  <2>5. CASE it.full
    <3> DEFINE r == it.result
    <3>1. r # 0 /\ r \in 1 .. Len(s) /\ s[r].kind = "result" /\ s[r].id = s[a].id
      <4>1. r # 0
        BY <1>6, <1>10, <2>5
      <4> QED  BY <1>2, <1>6, <4>1
    <3> HIDE DEF r
    <3>2. PICK c \in 1 .. r - 1 : s[c].kind \in {"tool", "agent"} /\ s[c].id = s[r].id
      BY <3>1, EndsByKind
    <3>3. c = a
      <4>1. c \in 1 .. Len(s) /\ s[c].kind \in Calls /\ s[c].id = s[a].id
        BY <3>1, <3>2 DEF Calls
      <4> QED  BY <1>2, <2>1, <4>1, OneCall
    <3>4. ~ Pipeline!Shutdown(I, k)
      <4> SUFFICES ASSUME NEW j \in 1 .. k, I[j].kind = "approval", I[j].id = it.id
                   PROVE  FALSE
        BY DEF Pipeline!Shutdown
      <4>1. ItemOf(s, I[j])
        <5>1. j \in 1 .. Len(I)
          <6>1. Len(I) \in Nat
            BY DEF RowOk
          <6> QED  BY <6>1
        <5> QED  BY <5>1 DEF RowOk
      <4>2. I[j].at \in 1 .. Len(s) /\ s[I[j].at].kind = "approval" /\ s[I[j].at].id = s[a].id
        BY <1>2, <4>1 DEF ItemOf
      <4>3. I[j].at = a
        <5>1. s[I[j].at].kind \in Calls
          BY <4>2 DEF Calls
        <5> QED  BY <1>2, <2>1, <4>2, <5>1, OneCall
      <4> QED  BY <3>2, <3>3, <4>2, <4>3
    <3>5. acts = <<"work", "work">>
      <4>1. Pipeline!ResultActivity(I, k) = "work"
        BY <3>4 DEF Pipeline!ResultActivity
      <4>2. Pipeline!CallActivity(it) = "work"
        BY <2>3, <3>2, <3>3
      <4> QED  BY <2>2, <2>5, <4>1, <4>2
    <3> QED  BY <1>7, <3>2, <3>3, <3>5 DEF Plainly, WorkingKinds, EndingKinds
  <2> QED  BY <2>4, <2>5
<1>11. CASE it.type \in {"teammate", "memory"}
  <2>1. acts = <<>>
    BY <1>5, <1>11 DEF Pipeline!Activities
  <2>2. s[a].kind \notin WorkingKinds \cup EndingKinds
    BY <1>4, <1>11 DEF WorkingKinds, EndingKinds, Calls
  <2> QED  BY <1>7, <2>1, <2>2 DEF Plainly
<1> QED  BY <1>4, <1>5, <1>8, <1>9, <1>10, <1>11 DEF ItemTypes

(* The activities of all items of a row.                                    *)
ActsOf(I) == Pipeline!FlattenSeq([k \in DOMAIN I |-> Pipeline!Activities(I, k)])

(* Work behind the last ending: a result is work only where its call is.    *)
LEMMA WorkIs ==
    ASSUME NEW s \in Seq(Entry), Undisturbed(s)
    PROVE  WorkAfterLastEnding(s) <=>
               \E i \in 1 .. Len(s) :
                  /\ s[i].kind \in WorkingKinds
                  /\ \A j \in i + 1 .. Len(s) : s[j].kind \notin EndingKinds
<1>1. ASSUME NEW i \in 1 .. Len(s)
      PROVE  (\A j \in i + 1 .. Len(s) : ~ Ends(s, j)) <=>
             (\A j \in i + 1 .. Len(s) : s[j].kind \notin EndingKinds)
  <2>1. \A j \in i + 1 .. Len(s) : j \in 1 .. Len(s)
    OBVIOUS
  <2> QED  BY <2>1, EndsByKind
<1>2. ASSUME NEW i \in 1 .. Len(s), Works(s, i), \A j \in i + 1 .. Len(s) : ~ Ends(s, j)
      PROVE  \E c \in 1 .. Len(s) :
                s[c].kind \in WorkingKinds /\ \A j \in c + 1 .. Len(s) : ~ Ends(s, j)
  <2>1. CASE s[i].kind \in WorkingKinds
    BY <1>2, <2>1
  <2>2. CASE s[i].kind = "result"
    <3>1. PICK c \in 1 .. i - 1 :
              s[c].kind \in {"tool", "agent"} /\ \A j \in c + 1 .. i - 1 : ~ Ends(s, j)
      BY <2>2, EndsByKind
    <3>2. ~ Ends(s, i)
      BY <2>2, EndsByKind DEF EndingKinds
    <3>3. c \in 1 .. Len(s) /\ s[c].kind \in WorkingKinds
      BY <3>1 DEF WorkingKinds
    <3>4. \A j \in c + 1 .. Len(s) :
              j \in c + 1 .. i - 1 \/ j = i \/ j \in i + 1 .. Len(s)
      BY <3>1
    <3> QED  BY <1>2, <3>1, <3>2, <3>3, <3>4
  <2> QED  BY <1>2, <2>1, <2>2, EndsByKind
<1>3. ASSUME NEW i \in 1 .. Len(s), s[i].kind \in WorkingKinds
      PROVE  Works(s, i)
  BY <1>3, EndsByKind
<1>4. WorkAfterLastEnding(s) <=>
          \E i \in 1 .. Len(s) :
             s[i].kind \in WorkingKinds /\ \A j \in i + 1 .. Len(s) : ~ Ends(s, j)
  BY <1>2, <1>3 DEF WorkAfterLastEnding
<1> QED  BY <1>1, <1>4

(* The activities say the same.                                             *)
LEMMA WorkShown ==
    ASSUME NEW s \in Seq(Entry), Undisturbed(s), NEW I, RowOk(s, I)
    PROVE  Pipeline!IsOngoingFromActivities(ActsOf(I)) <=> WorkAfterLastEnding(s)
<1> DEFINE ss == [k \in DOMAIN I |-> Pipeline!Activities(I, k)]
<1>1. I \in Seq(AnItem) /\ DOMAIN I = 1 .. Len(I) /\ Len(I) \in Nat
  BY DEF RowOk
<1>2. /\ DOMAIN ss = 1 .. Len(I)
      /\ \A k \in 1 .. Len(I) : ss[k] = Pipeline!Activities(I, k)
  BY <1>1
<1>3. ASSUME NEW k \in 1 .. Len(I)
      PROVE  /\ ss[k] \in Seq(Acts) /\ Plainly(ss[k])
             /\ Working(ss[k]) <=> s[I[k].at].kind \in WorkingKinds
             /\ ss[k] = <<"ending">> <=> s[I[k].at].kind \in EndingKinds
  <2>1. ss[k] = Pipeline!Activities(I, k)
    BY <1>2
  <2> HIDE DEF ss
  <2> QED  BY <2>1, ActivityOf
<1>4. ss \in Seq(Seq(Acts)) /\ Len(ss) = Len(I)
  <2> DEFINE g(k) == Pipeline!Activities(I, k)
  <2>1. ss = [k \in 1 .. Len(I) |-> g(k)] /\ \A k \in 1 .. Len(I) : g(k) \in Seq(Acts)
    BY <1>1, <1>2, <1>3
  <2> HIDE DEF g, ss
  <2> QED  BY <1>1, <2>1
<1>5. ActsOf(I) = Pipeline!FlattenSeq(ss)
  BY DEF ActsOf
<1> HIDE DEF ss
<1>6. Pipeline!IsOngoingFromActivities(ActsOf(I)) <=>
          \E k \in 1 .. Len(I) :
             Working(ss[k]) /\ \A l \in k + 1 .. Len(I) : ss[l] # <<"ending">>
  <2>1. \A k \in 1 .. Len(ss) : Plainly(ss[k])
    BY <1>3, <1>4
  <2> QED  BY <1>4, <1>5, <2>1, FlatVerdict
<1>7. \A k \in 1 .. Len(I) : I[k].at \in 1 .. Len(s)
  BY DEF RowOk, ItemOf
<1>8. \A l \in 1 .. Len(I) : \A k \in 1 .. l - 1 : I[k].at < I[l].at
  BY DEF RowOk
<1>9. \A i \in 1 .. Len(s) : s[i].kind \in WorkingKinds \cup EndingKinds
          => \E k \in 1 .. Len(I) : I[k].at = i
  <2> SUFFICES ASSUME NEW i \in 1 .. Len(s), s[i].kind \in WorkingKinds \cup EndingKinds
               PROVE  \E k \in 1 .. Len(I) : I[k].at = i
    OBVIOUS
  <2>1. s[i] \in Entry /\ s[i].by = "main" /\ s[i].kind \notin Excluded
    BY DEF Undisturbed
  <2>2. Class(s[i]) = "ai"
    BY <2>1, UndisturbedClass DEF WorkingKinds, EndingKinds, Assistant, Calls, Spoken
  <2> QED  BY <2>2 DEF RowOk
<1>10. ASSUME NEW k \in 1 .. Len(I), Working(ss[k]),
              \A l \in k + 1 .. Len(I) : ss[l] # <<"ending">>
       PROVE  /\ s[I[k].at].kind \in WorkingKinds
              /\ \A j \in I[k].at + 1 .. Len(s) : s[j].kind \notin EndingKinds
  <2>1. s[I[k].at].kind \in WorkingKinds
    BY <1>3, <1>10
  <2>2. ASSUME NEW j \in I[k].at + 1 .. Len(s), s[j].kind \in EndingKinds PROVE FALSE
    <3>1. j \in 1 .. Len(s) /\ I[k].at < j
      BY <1>7
    <3>2. PICK l \in 1 .. Len(I) : I[l].at = j
      BY <1>9, <2>2, <3>1
    <3>3. ss[l] = <<"ending">>
      BY <1>3, <2>2, <3>2
    <3>4. ~ (k < l)
      <4>1. k < l => l \in k + 1 .. Len(I)
        BY <1>1
      <4> QED  BY <1>10, <3>3, <4>1
    <3>5. l = k \/ l \in 1 .. k - 1
      BY <1>1, <3>4
    <3>6. l \in 1 .. k - 1 => I[l].at < I[k].at
      BY <1>8
    <3>7. I[k].at \in Nat /\ I[l].at \in Nat
      BY <1>7
    <3> QED  BY <3>1, <3>2, <3>5, <3>6, <3>7
  <2> QED  BY <2>1, <2>2
<1>11. ASSUME NEW i \in 1 .. Len(s), s[i].kind \in WorkingKinds,
              \A j \in i + 1 .. Len(s) : s[j].kind \notin EndingKinds
       PROVE  \E k \in 1 .. Len(I) :
                 Working(ss[k]) /\ \A l \in k + 1 .. Len(I) : ss[l] # <<"ending">>
  <2>1. PICK k \in 1 .. Len(I) : I[k].at = i
    BY <1>9, <1>11
  <2>2. Working(ss[k])
    BY <1>3, <1>11, <2>1
  <2>3. ASSUME NEW l \in k + 1 .. Len(I) PROVE ss[l] # <<"ending">>
    <3>1. l \in 1 .. Len(I) /\ k \in 1 .. l - 1
      BY <1>1
    <3>2. I[k].at < I[l].at /\ I[l].at \in 1 .. Len(s)
      BY <1>7, <1>8, <3>1
    <3>3. I[l].at \in i + 1 .. Len(s)
      BY <2>1, <3>2
    <3> QED  BY <1>3, <1>11, <3>1, <3>3
  <2> QED  BY <2>2, <2>3
<1>12. (\E k \in 1 .. Len(I) :
             Working(ss[k]) /\ \A l \in k + 1 .. Len(I) : ss[l] # <<"ending">>)
       <=> \E i \in 1 .. Len(s) :
              /\ s[i].kind \in WorkingKinds
              /\ \A j \in i + 1 .. Len(s) : s[j].kind \notin EndingKinds
  <2>1. ASSUME NEW k \in 1 .. Len(I), Working(ss[k]),
               \A l \in k + 1 .. Len(I) : ss[l] # <<"ending">>
        PROVE  \E i \in 1 .. Len(s) :
                  /\ s[i].kind \in WorkingKinds
                  /\ \A j \in i + 1 .. Len(s) : s[j].kind \notin EndingKinds
    <3>1. /\ s[I[k].at].kind \in WorkingKinds
          /\ \A j \in I[k].at + 1 .. Len(s) : s[j].kind \notin EndingKinds
      BY <1>10, <2>1
    <3> QED  BY <1>7, <3>1
  <2> QED  BY <1>11, <2>1
<1> QED  BY <1>6, <1>12, WorkIs

(* A call that waits for its result: an agent's is seen as pending, and a   *)
(* tool's only while nothing has ended the work since.                      *)
LEMMA PendingShown ==
    ASSUME NEW s \in Seq(Entry), Undisturbed(s), NEW I, RowOk(s, I)
    PROVE  /\ Pipeline!HasPendingAgents(I) => AwaitsResult(s)
           /\ \A i \in 1 .. Len(s) :
                 Unanswered(s, i) /\ s[i].kind = "agent" => Pipeline!HasPendingAgents(I)
<1>1. I \in Seq(AnItem) /\ DOMAIN I = 1 .. Len(I) /\ Len(I) \in Nat
  BY DEF RowOk
<1>2. ASSUME NEW k \in 1 .. Len(I)
      PROVE  /\ I[k].at \in 1 .. Len(s) /\ I[k].id = s[I[k].at].id
             /\ I[k].type = "subagent" <=> s[I[k].at].kind = "agent"
             /\ IsCall(I[k]) <=> s[I[k].at].kind \in Calls
             /\ IsCall(I[k]) => (I[k].full <=> I[k].result # 0)
             /\ I[k].result # 0 =>
                   /\ IsCall(I[k]) /\ I[k].result \in I[k].at + 1 .. Len(s)
                   /\ s[I[k].result].kind = "result" /\ s[I[k].result].id = I[k].id
  <2> DEFINE it == I[k]
             a == I[k].at
  <2>1. ItemOf(s, it)
    BY DEF RowOk
  <2>2. /\ a \in 1 .. Len(s) /\ Class(s[a]) \in {"ai", "teammate", "memory"}
        /\ it.type = Pipeline!ItemType(NewMessage(s[a], a))
    BY <2>1 DEF ItemOf
  <2>3. s[a] \in Entry /\ s[a].by = "main" /\ s[a].kind \notin Excluded
    BY <2>2 DEF Undisturbed
  <2>4. /\ it.type \in {"tool", "subagent"} <=> s[a].kind \in Calls
        /\ it.type = "subagent" <=> s[a].kind = "agent"
    BY <2>2, <2>3, ItemTypeIs
  <2>5. IsCall(it) <=> it.type \in {"tool", "subagent"}
    BY DEF IsCall, Pipeline!IsCall
  <2> HIDE DEF it, a
  <2>6. it.id = s[a].id
    BY <2>1 DEF ItemOf, it, a
  <2> QED  BY <2>1, <2>2, <2>4, <2>5, <2>6 DEF ItemOf, it, a
<1>3. ASSUME Pipeline!HasPendingAgents(I) PROVE AwaitsResult(s)
  <2>1. PICK k \in 1 .. Len(I) : I[k].type = "subagent" /\ ~ I[k].full
    BY <1>1, <1>3 DEF Pipeline!HasPendingAgents
  <2> DEFINE a == I[k].at
  <2>2. /\ a \in 1 .. Len(s) /\ s[a].kind = "agent" /\ s[a].kind \in Calls
        /\ IsCall(I[k]) /\ I[k].result = 0
    <3>1. a \in 1 .. Len(s) /\ s[a].kind = "agent"
      BY <1>2, <2>1
    <3>2. s[a].kind \in Calls
      BY <3>1 DEF Calls
    <3> QED  BY <1>2, <2>1, <3>1, <3>2
  <2> HIDE DEF a
  <2>3. s[a].id # NoId /\ Scanned(s[a])
    BY <2>2 DEF Undisturbed, Scanned, Assistant
  <2>4. ASSUME NEW j \in a + 1 .. Len(s)
        PROVE  s[j].kind # "interrupted" /\ ~ (ResultOf(s[j]) /\ s[j].id = s[a].id)
    <3>1. j \in 1 .. Len(s)
      BY <2>2
    <3>2. s[j].kind \notin Excluded
      BY <3>1 DEF Undisturbed
    <3>3. ASSUME ResultOf(s[j]), s[j].id = s[a].id PROVE FALSE
      <4>1. s[j].kind = "result"
        BY <3>2, <3>3 DEF ResultOf, Results, Excluded
      <4>2. PICK l \in 1 .. Len(I) : I[l].result = j
        BY <3>1, <4>1 DEF RowOk
      <4>3. j # 0
        BY <3>1
      <4> DEFINE c == I[l].at
      <4>4. c \in 1 .. Len(s) /\ s[c].kind \in Calls /\ s[c].id = s[a].id
        BY <1>2, <3>3, <4>2, <4>3
      <4>5. c = a
        BY <2>2, <4>4, OneCall
      <4>6. l = k
        <5>1. \A y \in 1 .. Len(I) : \A x \in 1 .. y - 1 : I[x].at < I[y].at
          BY DEF RowOk
        <5>2. I[l].at = I[k].at /\ I[k].at \in Nat
          BY <2>2, <4>5 DEF a
        <5>3. l < k => l \in 1 .. k - 1
          BY <1>1
        <5>4. k < l => k \in 1 .. l - 1
          BY <1>1
        <5>5. ~ (l < k) /\ ~ (k < l)
          BY <5>1, <5>2, <5>3, <5>4
        <5> QED  BY <1>1, <5>5
      <4> QED  BY <2>2, <4>2, <4>3, <4>6
    <3> QED  BY <3>2, <3>3 DEF Excluded
  <2> QED  BY <2>2, <2>3, <2>4 DEF AwaitsResult, Unanswered
<1>4. ASSUME NEW i \in 1 .. Len(s), Unanswered(s, i), s[i].kind = "agent"
      PROVE  Pipeline!HasPendingAgents(I)
  <2>1. Class(s[i]) = "ai"
    <3>1. s[i] \in Entry /\ s[i].by = "main" /\ s[i].kind \notin Excluded
      BY DEF Undisturbed
    <3> QED  BY <1>4, <3>1, UndisturbedClass DEF Assistant, Calls
  <2>2. PICK k \in 1 .. Len(I) : I[k].at = i
    BY <2>1 DEF RowOk
  <2>3. I[k].type = "subagent" /\ I[k].id = s[i].id /\ IsCall(I[k])
    BY <1>2, <1>4, <2>2 DEF Calls
  <2>4. I[k].result = 0
    <3> SUFFICES ASSUME I[k].result # 0 PROVE FALSE
      OBVIOUS
    <3> DEFINE r == I[k].result
    <3>1. r \in i + 1 .. Len(s) /\ s[r].kind = "result" /\ s[r].id = s[i].id
      BY <1>2, <2>2, <2>3
    <3> HIDE DEF r
    <3>2. ResultOf(s[r])
      BY <1>4, <3>1 DEF ResultOf, Results, Unanswered
    <3> QED  BY <1>4, <3>1, <3>2 DEF Unanswered
  <2>5. ~ I[k].full
    BY <1>2, <2>3, <2>4
  <2> QED  BY <1>1, <2>3, <2>5 DEF Pipeline!HasPendingAgents
<1> QED  BY <1>3, <1>4

(* What IsOngoing says of the chunks of an ordinary transcript.             *)
LEMMA OrdinaryVerdict ==
    ASSUME NEW s \in Seq(Entry), BuildInv(s), Ordinary(s), Undisturbed(s), ShownOk(s)
    PROVE  Pipeline!IsOngoing(ReadSession(s)) <=> WorkAfterLastEnding(s) \/ AwaitsResult(s)
<1> DEFINE C == ReadSession(s)
           I == Pipeline!Shown(C)
           K == Acc(s).chunks
           b == Acc(s).buf
<1>1. /\ Flushed(s) \in Seq(AnItem) /\ Held(s) \in Seq(AnItem)
      /\ I = Flushed(s) \o Held(s)
  BY ReadShown DEF ShownOk
<1>2. RowOk(s, I)
  BY <1>1 DEF ShownOk
<1>3. /\ C = Pipeline!Flush(Acc(s)) /\ C \in Seq(AChunk)
      /\ K \in Seq(AChunk) /\ TurnOk(s, b)
  BY ReadTyped DEF BuildInv, Building
<1>4. b # <<>> => Pipeline!MergeAIBuffer(b) \in AChunk /\ Pipeline!MergeAIBuffer(b).type = "ai"
  BY <1>3, MergeIs
<1>5. C # <<>> => Pipeline!Last(C).type # "user"
  <2>1. CASE b # <<>>
    <3> DEFINE c == Pipeline!MergeAIBuffer(b)
    <3>1. C = Append(K, c) /\ c \in AChunk /\ c.type = "ai"
      BY <1>3, <1>4, <2>1 DEF Pipeline!Flush
    <3> HIDE DEF C, c
    <3>2. C[Len(C)] = c
      BY <1>3, <3>1, AppendTo
    <3> QED  BY <3>1, <3>2 DEF Pipeline!Last
  <2>2. CASE b = <<>>
    <3>1. C = K
      BY <1>3, <2>2 DEF Pipeline!Flush
    <3> SUFFICES ASSUME C # <<>>, C[Len(C)].type = "user" PROVE FALSE
      BY DEF Pipeline!Last
    <3>2. UserLast(s)
      BY <2>2, <3>1 DEF ShownOk
    <3>3. PICK i \in 1 .. Len(s) :
              Class(s[i]) = "user" /\ \A j \in i + 1 .. Len(s) : Class(s[j]) = "drop"
      BY <3>2 DEF UserLast
    <3> DEFINE shown == {j \in 1 .. Len(s) : Class(s[j]) # "drop"}
    <3>4. i \in shown /\ s # <<>>
      BY <3>3
    <3>5. \A j \in shown : Class(s[j]) = "user" => \E l \in shown : l > j
      BY <3>4 DEF Ordinary
    <3>6. PICK j \in shown : j > i
      BY <3>3, <3>4, <3>5
    <3>7. j \in i + 1 .. Len(s)
      BY <3>3, <3>6
    <3> QED  BY <3>3, <3>6, <3>7
  <2> QED  BY <2>1, <2>2
<1>6. I = <<>> => ~ \E k \in DOMAIN C : C[k].type = "ai"
  <2> SUFFICES ASSUME I = <<>>, NEW k \in DOMAIN C, C[k].type = "ai" PROVE FALSE
    OBVIOUS
  <2>1. Flushed(s) = <<>> /\ Held(s) = <<>>
    <3>1. Len(I) = Len(Flushed(s)) + Len(Held(s)) /\ Len(I) = 0
      BY <1>1, ConcatProperties
    <3>2. Len(Flushed(s)) = 0 /\ Len(Held(s)) = 0
      BY <1>1, <3>1
    <3> QED  BY <1>1, <3>2
  <2>2. b = <<>>
    BY <2>1 DEF ShownOk
  <2>3. C = K
    BY <1>3, <2>2 DEF Pipeline!Flush
  <2>4. k \in 1 .. Len(K) /\ K[k].type = "ai"
    BY <1>3, <2>3
  <2> QED  BY <2>1, <2>4 DEF ShownOk
<1>7. I # <<>> => C # <<>>
  BY ShownNone
<1> HIDE DEF I, C, K, b
<1>8. Pipeline!IsOngoingFromActivities(ActsOf(I)) <=> WorkAfterLastEnding(s)
  BY <1>2, WorkShown
<1>9. /\ Pipeline!HasPendingAgents(I) => AwaitsResult(s)
      /\ \A i \in 1 .. Len(s) :
            Unanswered(s, i) /\ s[i].kind = "agent" => Pipeline!HasPendingAgents(I)
  BY <1>2, PendingShown
<1>10. I = <<>> => ~ WorkAfterLastEnding(s) /\ ~ Pipeline!HasPendingAgents(I)
  <2> SUFFICES ASSUME I = <<>>
               PROVE  ~ WorkAfterLastEnding(s) /\ ~ Pipeline!HasPendingAgents(I)
    OBVIOUS
  <2>1. Len(I) = 0 /\ DOMAIN I = {}
    OBVIOUS
  <2>2. ~ Pipeline!HasPendingAgents(I)
    BY <2>1 DEF Pipeline!HasPendingAgents
  <2>3. ASSUME NEW i \in 1 .. Len(s), s[i].kind \in WorkingKinds PROVE FALSE
    <3>1. s[i] \in Entry /\ s[i].by = "main" /\ s[i].kind \notin Excluded
      BY DEF Undisturbed
    <3>2. Class(s[i]) = "ai"
      BY <2>3, <3>1, UndisturbedClass DEF WorkingKinds, Assistant, Calls, Spoken
    <3>3. \E k \in 1 .. Len(I) : I[k].at = i
      BY <1>2, <3>2 DEF RowOk
    <3> QED  BY <2>1, <3>3
  <2> QED  BY <2>2, <2>3, WorkIs
<1>11. AwaitsResult(s) => Pipeline!HasPendingAgents(I) \/ WorkAfterLastEnding(s)
  <2> SUFFICES ASSUME AwaitsResult(s)
               PROVE  Pipeline!HasPendingAgents(I) \/ WorkAfterLastEnding(s)
    OBVIOUS
  <2>1. PICK i \in 1 .. Len(s) : Unanswered(s, i)
    BY DEF AwaitsResult
  <2>2. s[i].kind \in {"tool", "agent"}
    BY <2>1 DEF Unanswered
  <2>3. CASE s[i].kind = "agent"
    BY <1>9, <2>1, <2>3
  <2>4. CASE s[i].kind = "tool"
    <3>1. \A j \in i + 1 .. Len(s) : ~ Ends(s, j)
      BY <2>1, <2>4 DEF Ordinary
    <3>2. Works(s, i)
      BY <2>4, EndsByKind DEF WorkingKinds
    <3> QED  BY <3>1, <3>2 DEF WorkAfterLastEnding
  <2> QED  BY <2>2, <2>3, <2>4
<1>12. Pipeline!IsOngoing(C) <=>
           /\ C # <<>>
           /\ \/ Pipeline!Last(C).type = "user"
              \/ I # <<>> /\ Pipeline!IsOngoingFromActivities(ActsOf(I))
              \/ I # <<>> /\ Pipeline!HasPendingAgents(I)
              \/ I = <<>> /\ \E k \in DOMAIN C : C[k].type = "ai"
  BY Zenon DEF Pipeline!IsOngoing, I, ActsOf
<1> QED  BY <1>5, <1>6, <1>7, <1>8, <1>9, <1>10, <1>11, <1>12 DEF C

(* The inductive invariant of the two verdicts: beside what holds of the    *)
(* chunks, the items of an undisturbed transcript are its answers in order. *)
AgreeInv == ViewInv /\ (Undisturbed(read) => ShownOk(read))

(* It holds of an empty transcript.                                         *)
LEMMA InitAgree == SessionInit => AgreeInv
<1>1. SessionInit => read = <<>>
  BY DEF SessionInit, Init
<1> QED  BY <1>1, InitView, ShownStart DEF AgreeInv

(* And one more entry keeps it.                                             *)
LEMMA NextAgree == AgreeInv /\ [SessionNext]_<<vars, chunks>> => AgreeInv'
<1> SUFFICES ASSUME AgreeInv, [SessionNext]_<<vars, chunks>> PROVE AgreeInv'
  OBVIOUS
<1>1. ViewInv'
  BY NextView DEF AgreeInv
<1>2. CASE UNCHANGED <<read, chunks>>
  BY <1>1, <1>2 DEF AgreeInv
<1>3. CASE \E e \in Entry : read' = Append(read, e) /\ chunks' = ReadSession(Append(read, e))
  <2>1. PICK e \in Entry : read' = Append(read, e)
    BY <1>3
  <2>2. read \in Seq(Entry) /\ BuildInv(read)
    BY DEF AgreeInv, ViewInv
  <2>3. Undisturbed(Append(read, e)) => ShownOk(Append(read, e))
    <3> SUFFICES ASSUME Undisturbed(Append(read, e)) PROVE ShownOk(Append(read, e))
      OBVIOUS
    <3>1. Undisturbed(read)
      BY <2>2, UndisturbedBefore
    <3> QED  BY <2>2, <3>1, ShownStep DEF AgreeInv
  <2> QED  BY <1>1, <2>1, <2>3 DEF AgreeInv
<1> QED  BY <1>2, <1>3, WriteReads

(* On an ordinary transcript of whatever length, the scan that lists        *)
(* sessions (discover.go) and IsOngoing, which a team member's chunks are   *)
(* asked (ongoing.go), say the same, though one counts events and drops     *)
(* pending calls and the other looks at chunks with results put on calls.   *)
THEOREM BothVerdictsAgree == SessionSpec => []VerdictsAgree
<1>1. AgreeInv /\ VerdictExact => VerdictsAgree
  <2> SUFFICES ASSUME AgreeInv, VerdictExact, Ordinary(read)
               PROVE  IsOngoing <=> ChunksSay
    BY DEF VerdictsAgree
  <2>1. read \in Seq(Entry) /\ BuildInv(read) /\ chunks = ReadSession(read)
    BY DEF AgreeInv, ViewInv
  <2>2. Undisturbed(read)
    BY DEF Ordinary, Undisturbed, Excluded
  <2>3. ShownOk(read)
    BY <2>2 DEF AgreeInv
  <2>4. ChunksSay <=> WorkAfterLastEnding(read) \/ AwaitsResult(read)
    BY <2>1, <2>2, <2>3, OrdinaryVerdict DEF ChunksSay
  <2> QED  BY <2>4 DEF VerdictExact
<1>2. SessionSpec => []VerdictExact
  BY SessionScans, VerdictIsExact, PTL
<1>3. SessionSpec => []AgreeInv
  BY InitAgree, NextAgree, PTL DEF SessionSpec
<1> QED  BY <1>1, <1>2, <1>3, PTL
==============================================================================
