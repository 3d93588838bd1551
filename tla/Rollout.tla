-------------------------------- MODULE Rollout --------------------------------
(***************************************************************************)
(* A Codex rollout is read while Codex appends to it.  A consumer that     *)
(* gets a lifecycle hook folds the rollout into its trailing state and     *)
(* reconciles the two; SessionSnapshot reads the rollout twice, once for   *)
(* the state and once for the final message.                               *)
(*                                                                         *)
(* Entry k is written in two parts, cells 2k-1 and 2k; neither part is an  *)
(* entry by itself.                                                        *)
(***************************************************************************)
EXTENDS Integers, Sequences, FiniteSetsExt

CONSTANTS Entry,      \* [kind, reviewer]: the entries Codex writes
          None,       \* no reviewer, no result
          Window,     \* cells that the final message is looked for in
          MaxEntries  \* length of the rollout (a bound)

(* "work" is a tool call, its output, reasoning or commentary; "answer" any *)
(* other assistant message, "mute" one without text; "loose" a context that *)
(* does not decode strictly.                                                *)
Kind  == {"prompt", "work", "answer", "mute", "complete", "aborted", "error",
          "context", "loose", "other"}
AutoReview == "auto_review"

ASSUME RolloutAssumption ==
    /\ Entry \subseteq [kind : Kind, reviewer : {None, AutoReview}]
    /\ Window \in Nat

Claim == {"started", "prompted", "working", "approval", "stopped", "unknown"}

VARIABLES log,      \* the entries that are complete
          half,     \* the first part of one more is there
          reader,   \* the read under way
          truths,   \* the states the rollout had since that read began
          verdict,  \* [claim, answer, failed]: what it came to, or None
          snapshot  \* [status, final, upto, size], or None

vars == <<log, half, reader, truths, verdict, snapshot>>

Rest == [pc |-> "rest"]
Zero == [status |-> "idle", reviewer |-> None]

----------------------------------------------------------------------------
(* entryStatus, NoSignal for an entry that leaves the status unchanged.     *)
NoSignal == "none"
EntryStatus(e) ==
    CASE e.kind \in {"prompt", "work"}             -> "running"
      [] e.kind \in {"answer", "mute", "complete"} -> "done"
      [] e.kind = "aborted"                        -> "interrupted"
      [] e.kind = "error"                          -> "error"
      [] OTHER                                     -> NoSignal

IsContext(e) == e.kind \in {"context", "loose"}

(* Variant: the first reviewer stays, as the first directory does.          *)
TakeFirst(s, e) ==
    [status   |-> IF EntryStatus(e) = NoSignal THEN s.status ELSE EntryStatus(e),
     reviewer |-> IF IsContext(e) /\ s.reviewer = None THEN e.reviewer ELSE s.reviewer]

(* One line of TrailingState.                                               *)
Take(s, e) ==
    [status   |-> IF EntryStatus(e) = NoSignal THEN s.status ELSE EntryStatus(e),
     reviewer |-> IF IsContext(e) THEN e.reviewer ELSE s.reviewer]

NeedsEvidence(c) == c \in {"approval", "stopped"}

Reconcile(c, s) ==
    CASE c = "stopped" /\ s.status \in {"done", "interrupted", "error"} -> s.status
      [] c = "approval" /\ s.reviewer # AutoReview                      -> "waiting"
      [] c = "approval" /\ s.reviewer = AutoReview                      -> "running"
      [] c \in {"prompted", "working"}                                  -> "running"
      [] OTHER                                                          -> "idle"

Size == 2 * Len(log) + (IF half THEN 1 ELSE 0)

(* The entries that TailLines returns whole, of a file of that size.        *)
InTail(k, size) == 2 * k - 1 > size - Window

(* Variant: an answer without text ends the search.                         *)
FinalAssistantMute(size) ==
    LET said == {k \in DOMAIN log : log[k].kind \in {"answer", "mute"} /\ InTail(k, size)}
    IN  IF said = {} \/ log[Max(said)].kind = "mute" THEN 0 ELSE Max(said)

(* FinalAssistantMessage: the newest answer with text, 0 for none.          *)
FinalAssistantMessage(size) ==
    LET said == {k \in DOMAIN log : log[k].kind = "answer" /\ InTail(k, size)}
    IN  IF said = {} THEN 0 ELSE Max(said)

----------------------------------------------------------------------------
(* What the first n entries of the rollout say, and what it says now.       *)
Newest(S) == IF S = {} THEN 0 ELSE Max(S)

TruthAt(n) ==
    LET signal  == Newest({k \in 1 .. n : EntryStatus(log[k]) # NoSignal})
        context == Newest({k \in 1 .. n : IsContext(log[k])})
    IN  [status   |-> IF signal = 0 THEN "idle" ELSE EntryStatus(log[signal]),
         reviewer |-> IF context = 0 THEN None ELSE log[context].reviewer]

Truth == TruthAt(Len(log))

Init ==
    /\ log = <<>> /\ half = FALSE
    /\ reader = Rest /\ truths = {Zero}
    /\ verdict = None /\ snapshot = None

WriteHalf ==
    /\ ~ half /\ Len(log) < MaxEntries
    /\ half' = TRUE
    /\ UNCHANGED <<log, reader, truths, verdict, snapshot>>

WriteEntry(e) ==
    /\ Len(log) < MaxEntries
    /\ log' = Append(log, e)
    /\ half' = FALSE
    /\ truths' = IF reader = Rest THEN truths ELSE truths \cup {Truth'}
    /\ UNCHANGED <<reader, verdict, snapshot>>

Open(purpose) ==
    /\ reader' = [pc |-> "lines", for |-> purpose, at |-> 0, torn |-> FALSE, state |-> Zero]
    /\ verdict' = None

(* A hook arrives; its claim is reconciled at once unless it needs evidence.*)
Hook(c) ==
    /\ reader = Rest
    /\ IF NeedsEvidence(c)
       THEN Open(c)
       ELSE /\ verdict' = [claim |-> c, answer |-> Reconcile(c, Zero), failed |-> FALSE]
            /\ UNCHANGED reader
    /\ snapshot' = None /\ truths' = {Truth}
    /\ UNCHANGED <<log, half>>

SessionSnapshot ==
    /\ reader = Rest
    /\ Open("snapshot")
    /\ snapshot' = None /\ truths' = {Truth}
    /\ UNCHANGED <<log, half>>

(* A whole line.                                                            *)
ReadLine ==
    /\ reader.pc = "lines" /\ ~ reader.torn /\ reader.at < Len(log)
    /\ reader' = [reader EXCEPT !.at = @ + 1, !.state = Take(@, log[reader.at + 1])]
    /\ UNCHANGED <<log, half, truths, verdict, snapshot>>

(* The file ends inside a line, which does not parse; if it has grown when  *)
(* the next line is asked for, that is the rest, which does not parse.      *)
ReadFirstPart ==
    /\ reader.pc = "lines" /\ ~ reader.torn /\ reader.at = Len(log) /\ half
    /\ reader' = [reader EXCEPT !.torn = TRUE]
    /\ UNCHANGED <<log, half, truths, verdict, snapshot>>

ReadRest ==
    /\ reader.pc = "lines" /\ reader.torn /\ reader.at < Len(log)
    /\ reader' = [reader EXCEPT !.at = @ + 1, !.torn = FALSE]
    /\ UNCHANGED <<log, half, truths, verdict, snapshot>>

Judge(s, failed) ==
    verdict' = [claim |-> reader.for, answer |-> Reconcile(reader.for, s), failed |-> failed]

EndOfFile ==
    /\ reader.pc = "lines" /\ reader.at = Len(log) /\ (half => reader.torn)
    /\ IF reader.for = "snapshot"
       THEN reader' = [reader EXCEPT !.pc = "final"] /\ UNCHANGED verdict
       ELSE reader' = Rest /\ Judge(reader.state, FALSE)
    /\ UNCHANGED <<log, half, truths, snapshot>>

(* A failed read leaves a hook without evidence, and a snapshot not taken.  *)
ReadError ==
    /\ reader.pc = "lines"
    /\ reader' = Rest
    /\ IF reader.for = "snapshot" THEN UNCHANGED verdict ELSE Judge(Zero, TRUE)
    /\ UNCHANGED <<log, half, truths, snapshot>>

ReadFinal ==
    /\ reader.pc = "final"
    /\ snapshot' = [status |-> reader.state.status, final |-> FinalAssistantMessage(Size),
                    upto |-> reader.at, size |-> Size]
    /\ reader' = Rest
    /\ UNCHANGED <<log, half, truths, verdict>>

Next ==
    \/ WriteHalf
    \/ \E e \in Entry : WriteEntry(e)
    \/ \E c \in Claim : Hook(c)
    \/ SessionSnapshot
    \/ ReadLine
    \/ ReadFirstPart
    \/ ReadRest
    \/ EndOfFile
    \/ ReadError
    \/ ReadFinal

Spec == Init /\ [][Next]_vars

----------------------------------------------------------------------------
(* A verdict is one that the rollout gave at some moment of the read, even  *)
(* though the read loses a line that Codex was writing when it got there,   *)
(* and a claim that needs no evidence is not given any.                     *)
VerdictWasTrue ==
    verdict # None /\ ~ verdict.failed =>
        \E t \in truths : verdict.answer = Reconcile(verdict.claim, t)

(* A snapshot's final message is no older than the state beside it: every   *)
(* answer that the state was read from, and that still is in the window, is *)
(* the final message or is followed by it.                                  *)
FinalNotOlder ==
    snapshot # None => \A k \in 1 .. snapshot.upto :
        log[k].kind = "answer" /\ InTail(k, snapshot.size) => snapshot.final >= k
================================================================================
