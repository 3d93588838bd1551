---------------------------- MODULE SessionTail ----------------------------
(***************************************************************************)
(* transcript.ReadSessionIncremental as a resident watcher calls it while  *)
(* Claude Code is still appending to the session file.                     *)
(*                                                                         *)
(* The watcher reads when a file event is pending, line by line through    *)
(* jsonl.Reader, and the file may grow between two lines.  Unlike          *)
(* offsetstore it keeps an unterminated last line that parses, because no  *)
(* further event may come for it.  JSON is what ParseEntry accepts; a line *)
(* longer than MaxLine (DefaultMaxLineSize) is skipped.                    *)
(*                                                                         *)
(* A message is named by the place <<start, end>> of its line, where `end` *)
(* is the offset after the newline, written already or not.                *)
(***************************************************************************)
EXTENDS JsonLines

CONSTANTS LineTexts,  \* the texts of the lines the writer may write
          MaxLine,    \* jsonl.DefaultMaxLineSize, in cells
          MaxLen,     \* bound on the session file's length, in cells
          MaxErrors   \* bound on failing reads

(* A line is one JSON object: no proper prefix of a line parses, nor does  *)
(* any piece of an oversized line from behind the limit on.                *)
ASSUME LineAssumption ==
    /\ LineTexts \subseteq Seq(Text)
    /\ MaxLine \in Nat /\ MaxLen \in Nat /\ MaxErrors \in Nat
    /\ \A w \in LineTexts : \A k \in 0 .. Len(w) - 1 : SubSeq(w, 1, k) \notin JSON
    /\ \A w \in LineTexts : Len(w) > MaxLine =>
          \A k \in MaxLine + 2 .. Len(w), m \in MaxLine + 2 .. Len(w) :
              SubSeq(w, k, m) \notin JSON

VARIABLES data,    \* the session file
          rest,    \* what the writer has still to write of its line
          event,   \* a file event is pending
          mode,    \* "idle", or "reading" inside ReadSessionIncremental
          offset,  \* the offset the watcher holds
          read,    \* offset + BytesRead of the jsonl.Reader
          term,    \* offset + TerminatedBytesRead
          msgs,    \* the messages classified by this call so far
          shown,   \* the messages the watcher has accumulated
          errors   \* failed reads so far

reader == <<mode, offset, read, term, msgs, shown>>
vars   == <<data, rest, event, reader, errors>>

Init ==
    /\ data = <<>> /\ rest = <<>> /\ event = FALSE
    /\ mode = "idle" /\ offset = 0 /\ read = 0 /\ term = 0
    /\ msgs = {} /\ shown = {} /\ errors = 0

----------------------------------------------------------------------------
(* Claude Code appends the next cell of its line, or the first of another. *)
AppendCell ==
    /\ Len(data) < MaxLen
    /\ \E w \in IF rest # <<>> THEN {rest}
                ELSE {Append(t, Newline) : t \in LineTexts} :
          /\ data' = Append(data, Head(w))
          /\ rest' = Tail(w)
    /\ event' = TRUE
    /\ UNCHANGED <<reader, errors>>

(* The watcher takes the event and calls ReadSessionIncremental: open,     *)
(* seek to the offset.                                                     *)
StartRead ==
    /\ mode = "idle" /\ event
    /\ event' = FALSE
    /\ mode' = "reading" /\ read' = offset /\ term' = offset /\ msgs' = {}
    /\ UNCHANGED <<data, rest, offset, shown, errors>>

----------------------------------------------------------------------------
(* jsonl.Reader.readLine: the next line's text is data[read + 1 .. e].     *)

NewlinesAhead == {k \in read + 1 .. Len(data) : data[k] = Newline}
TextTo(e)     == SubSeq(data, read + 1, e)

(* Variant: no limit.                                                      *)
OversizedNever(e) == FALSE

Oversized(e)  == e - read > MaxLine
Parses(e)     == TextTo(e) \in JSON

(* ReadSessionIncremental returns the messages ms and the new offset o;    *)
(* the watcher accumulates the ones and keeps the other.                   *)
Return(ms, o) ==
    /\ mode' = "idle" /\ offset' = o /\ shown' = shown \cup ms
    /\ msgs' = {} /\ read' = o /\ term' = o

(* A terminated line: empty, oversized and unparseable ones are skipped.   *)
TerminatedLine ==
    /\ mode = "reading" /\ NewlinesAhead # {}
    /\ LET n == CHOOSE k \in NewlinesAhead : \A m \in NewlinesAhead : k <= m
       IN  /\ msgs' = IF ~ Oversized(n - 1) /\ Parses(n - 1)
                      THEN msgs \cup {<<read, n>>} ELSE msgs
           /\ read' = n /\ term' = n
    /\ UNCHANGED <<data, rest, event, mode, offset, shown, errors>>

(* An unterminated tail beyond the size limit counts as read, and the      *)
(* reader looks for another line.                                          *)
OversizedTail ==
    /\ mode = "reading" /\ NewlinesAhead = {} /\ Oversized(Len(data))
    /\ read' = Len(data)
    /\ UNCHANGED <<data, rest, event, mode, offset, term, msgs, shown, errors>>
(* Variants: a tail is kept when it parses and left where it is; no tail is *)
(* kept.                                                                    *)
UnterminatedTailRepeated ==
    /\ mode = "reading" /\ NewlinesAhead = {} /\ read < Len(data)
    /\ ~ Oversized(Len(data))
    /\ Return(IF Parses(Len(data)) THEN msgs \cup {<<read, Len(data) + 1>>} ELSE msgs, term)
    /\ UNCHANGED <<data, rest, event, errors>>

UnterminatedTailDeferred ==
    /\ mode = "reading" /\ NewlinesAhead = {} /\ read < Len(data)
    /\ ~ Oversized(Len(data))
    /\ Return(msgs, term)
    /\ UNCHANGED <<data, rest, event, errors>>

(* An unterminated tail is kept when it parses; otherwise the offset stays *)
(* behind it.                                                              *)
UnterminatedTail ==
    /\ mode = "reading" /\ NewlinesAhead = {} /\ read < Len(data)
    /\ ~ Oversized(Len(data))
    /\ IF Parses(Len(data))
       THEN Return(msgs \cup {<<read, Len(data) + 1>>}, Len(data))
       ELSE Return(msgs, term)
    /\ UNCHANGED <<data, rest, event, errors>>

EndOfFile ==
    /\ mode = "reading" /\ read >= Len(data)
    /\ Return(msgs, term)
    /\ UNCHANGED <<data, rest, event, errors>>

(* A read error ends the loop; the lines before it and the offset behind   *)
(* the last terminated one are returned with the error.                    *)
ReadError ==
    /\ mode = "reading" /\ errors < MaxErrors
    /\ errors' = errors + 1
    /\ Return(msgs, term)
    /\ UNCHANGED <<data, rest, event>>

ReadLine == TerminatedLine \/ OversizedTail \/ UnterminatedTail \/ EndOfFile

Next == AppendCell \/ StartRead \/ ReadLine \/ ReadError

Spec == Init /\ [][Next]_vars

(* The watcher handles its events and finishes its reads; the writer may   *)
(* stop anywhere, even before a newline.                                   *)
FairSpec == Spec /\ WF_vars(StartRead) /\ WF_vars(ReadLine)

----------------------------------------------------------------------------
(* Properties. *)

Place == Nat \X Nat

TypeOK ==
    /\ data \in Seq(Cell) /\ rest \in Seq(Cell)
    /\ event \in BOOLEAN /\ mode \in {"idle", "reading"}
    /\ offset \in Nat /\ read \in Nat /\ term \in Nat
    /\ msgs \subseteq Place /\ shown \subseteq Place /\ errors \in Nat

(* The lines of d that ought to be shown.                                  *)
Entries(d) == {l \in ValidLines(d, 0) : l[2] - 1 - l[1] <= MaxLine}

(* Whatever was shown is a whole line of the file as the writer finishes   *)
(* it: keeping an unterminated tail that parses never shows half a line    *)
(* ("a half-written append can never parse as a complete entry").          *)
WholeLinesShown == shown \cup msgs \subseteq Entries(data \o rest)

(* No line behind the offset was skipped: the offset only passes lines     *)
(* that were shown, also when a read failed or a tail was deferred; and no  *)
(* call returns a message again that an earlier one returned: a kept tail  *)
(* is behind the offset, although its newline is not.                      *)
EachLineOnce ==
    /\ \A l \in Entries(data) : l[2] <= offset => l \in shown
    /\ msgs \cap shown = {}

(* An entry whose text is complete is eventually shown, newline or not: "a *)
(* resident watcher may get no further file event for that line".  A read  *)
(* that fails is not repeated by itself.                                   *)
CompleteEntryShown ==
    \A b \in 0 .. MaxLen, n \in 1 .. MaxLen + 1 :
        (<<b, n>> \in Entries(data \o rest) /\ n - 1 <= Len(data))
            ~> (<<b, n>> \in shown \/ errors > 0)
============================================================================
