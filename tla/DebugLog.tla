------------------------------ MODULE DebugLog ------------------------------
(***************************************************************************)
(* Claude Code's debug log and a viewer that follows it with               *)
(* ReadDebugLogIncremental.  A log line that begins with a timestamp and a *)
(* level starts an entry, the lines after it continue that entry.  A read  *)
(* first counts the lines before its offset, through a second open of the  *)
(* file, and then scans from the offset to the end; the log grows between  *)
(* the two.                                                                *)
(*                                                                         *)
(* The log is a sequence of cells; a stamp stands for a whole timestamp    *)
(* and level.  Categories and the text of messages are left out.           *)
(***************************************************************************)
EXTENDS Integers, FiniteSets, SequencesExt

CONSTANTS Newline, CR,  \* '\n' and '\r'
          Stamp,        \* the timestamps with their levels
          Text,         \* the other cells
          MaxLine,      \* the scanner's limit on a line and its newline
          MaxLen        \* bound on the log

ASSUME LogAssumption ==
    /\ Newline # CR /\ {Newline, CR} \cap (Stamp \cup Text) = {}
    /\ Stamp \cap Text = {}
    /\ MaxLine \in Nat /\ MaxLen \in Nat

Cell == {Newline, CR} \cup Stamp \cup Text

VARIABLES log,
          offset,   \* where the viewer reads next
          shown,    \* the entries of all reads so far
          reading,  \* a read has counted its lines and not scanned yet
          lineNum,  \* what it counted
          seen,     \* the length of the log when it did
          reads     \* the offsets at which reads began, with what they had seen

vars == <<log, offset, shown, reading, lineNum, seen, reads>>

Init ==
    /\ log = <<>> /\ offset = 0 /\ shown = <<>>
    /\ reading = FALSE /\ lineNum = 0 /\ seen = 0 /\ reads = {}

(* Claude Code writes on.                                                  *)
AppendCell ==
    /\ Len(log) < MaxLen
    /\ \E c \in Cell : log' = Append(log, c)
    /\ UNCHANGED <<offset, shown, reading, lineNum, seen, reads>>

----------------------------------------------------------------------------
(* ReadDebugLogIncremental: one line after another of a bufio.Scanner. *)

(* Where the newline of the line that starts after s is, or will be.       *)
LineEnd(d, s) == Min({n \in s + 1 .. Len(d) : d[n] = Newline} \cup {Len(d) + 1})

DropCR(l) == IF l # <<>> /\ Last(l) = CR THEN Front(l) ELSE l

IsTimestampLine(l) == l # <<>> /\ l[1] \in Stamp

ParseDebugLine(l, n) ==
    [level |-> l[1], message |-> Tail(l), extra |-> <<>>, line |-> n, count |-> 1]

(* Variant: a line without a timestamp goes to the first entry.            *)
AddLineFirst(es, l, n) ==
    CASE IsTimestampLine(l) -> Append(es, ParseDebugLine(l, n))
      [] ~ IsTimestampLine(l) /\ es # <<>> /\ l # <<>> ->
            [es EXCEPT ![1].extra = Append(@, l)]
      [] OTHER -> es

(* One line: a new entry, or a continuation of the last one of this read.  *)
(* Without one the line is dropped.                                        *)
AddLine(es, l, n) ==
    CASE IsTimestampLine(l) -> Append(es, ParseDebugLine(l, n))
      [] ~ IsTimestampLine(l) /\ es # <<>> /\ l # <<>> ->
            [es EXCEPT ![Len(es)].extra = Append(@, l)]
      [] OTHER -> es

(* The scanner is at cell `at`.  An unterminated tail is a line like any   *)
(* other; at a line over its limit the scanner stops for good.             *)
AtEnd(d, s) == s.at >= Len(d) \/ LineEnd(d, s.at) - s.at > MaxLine

(* The offset counts a newline for every line, whether or not it has one.  *)
ReadLine(d, s) ==
    LET end == LineEnd(d, s.at)
        l   == DropCR(SubSeq(d, s.at + 1, end - 1))
    IN  [at |-> end, bytes |-> s.bytes + Len(l) + 1, line |-> s.line + 1,
         entries |-> AddLine(s.entries, l, s.line + 1)]

NextLine(d, s) == IF AtEnd(d, s) THEN s ELSE ReadLine(d, s)

(* After at most n lines of a read that starts at offset o, behind l lines. *)
Scanned(d, o, l) ==
    LET scan[n \in 0 .. Len(d)] ==
            IF n = 0 THEN [at |-> o, bytes |-> o, line |-> l, entries |-> <<>>]
            ELSE NextLine(d, scan[n - 1])
    IN  scan

CountLinesBeforeOffset ==
    /\ ~ reading
    /\ reading' = TRUE
    /\ lineNum' = Cardinality({n \in 1 .. Len(log) : n <= offset /\ log[n] = Newline})
    /\ seen' = Len(log)
    /\ UNCHANGED <<log, offset, shown, reads>>
(* Variant: the offset returned counts from where the read began.          *)
ScanRelative ==
    /\ reading
    /\ LET s == Scanned(log, offset, lineNum)[Len(log)]
       IN  /\ shown' = shown \o s.entries
           /\ offset' = offset + s.bytes
           /\ reads' = IF s.line = lineNum THEN reads
                       ELSE reads \cup {[from |-> offset, seen |-> seen]}
    /\ reading' = FALSE /\ lineNum' = 0 /\ seen' = 0
    /\ UNCHANGED log

(* The scan; the caller adds the entries to those it has and keeps the     *)
(* offset for its next read.                                               *)
Scan ==
    /\ reading
    /\ LET s == Scanned(log, offset, lineNum)[Len(log)]
       IN  /\ shown' = shown \o s.entries
           /\ offset' = s.bytes
           /\ reads' = IF s.line = lineNum THEN reads
                       ELSE reads \cup {[from |-> offset, seen |-> seen]}
    /\ reading' = FALSE /\ lineNum' = 0 /\ seen' = 0
    /\ UNCHANGED log

Next == AppendCell \/ CountLinesBeforeOffset \/ Scan

Spec == Init /\ [][Next]_vars

----------------------------------------------------------------------------
(* CollapseDuplicates. *)
(* Variant: continuation lines do not keep entries apart.                  *)
SameEntryExtra(e, f) == e.message = f.message

SameEntry(e, f) == e.message = f.message /\ e.extra = <<>> /\ f.extra = <<>>

AddEntry(done, e) ==
    IF done # <<>> /\ SameEntry(Last(done), e)
    THEN [done EXCEPT ![Len(done)].count = @ + 1]
    ELSE Append(done, e)

(* The first n entries, collapsed.                                         *)
Collapsed(es) ==
    LET done[n \in 0 .. Len(es)] ==
            IF n = 0 THEN <<>> ELSE AddEntry(done[n - 1], es[n])
    IN  done

CollapseDuplicates(es) == Collapsed(es)[Len(es)]

----------------------------------------------------------------------------
(* Properties. *)

(* A line's text has no newline, an entry at least one line of the log.    *)
Words == Seq(Cell \ {Newline})
Entry == [level : Stamp, message : Words, extra : Seq(Words), line : 1 .. MaxLen, count : {1}]

(* Types; the offset is at most one past the end of the log, where the     *)
(* newline of an unterminated tail will be.                                *)
TypeOK ==
    /\ log \in Seq(Cell) /\ Len(log) <= MaxLen
    /\ offset \in 0 .. Len(log) + 1
    /\ shown \in Seq(Entry)
    /\ reading \in BOOLEAN /\ lineNum \in Nat /\ seen \in 0 .. Len(log)
    /\ reads \subseteq [from : Nat, seen : 0 .. Len(log)]

LineStart(d, s) == s = 0 \/ (s <= Len(d) /\ d[s] = Newline)

(* Where the nonempty lines of d before t start, and which begin entries.  *)
Starts(d, t) == {n \in 0 .. t - 1 : n < Len(d) /\ LineStart(d, n) /\ d[n + 1] # Newline}
Heads(d, t)  == {n \in Starts(d, t) : d[n + 1] \in Stamp}

(* The continuation lines of the entry that starts at s: no other entry    *)
(* and no read begins in between.                                          *)
More(d, from, s, t) ==
    LET cuts == {c \in Heads(d, t) \cup from : s < c}
    IN  {n \in Starts(d, t) : s < n /\ \A c \in cuts : n < c}

LineAt(d, s) == SubSeq(d, s + 1, LineEnd(d, s) - 1)
Number(d, s) == 1 + Cardinality({n \in 1 .. s : d[n] = Newline})
Place(S, s)  == Cardinality({n \in S : n <= s})

(* e is the entry that starts at s.                                        *)
EntryAt(e, d, from, s, t) ==
    /\ [e EXCEPT !.extra = <<>>] = ParseDebugLine(LineAt(d, s), Number(d, s))
    /\ LET more == More(d, from, s, t) IN
          /\ Len(e.extra) = Cardinality(more)
          /\ \A n \in more : e.extra[Place(more, n)] = LineAt(d, n)

(* es are the entries of d before t, read from the offsets `from` on.      *)
AreEntries(es, d, from, t) ==
    LET heads == Heads(d, t) IN
    /\ Len(es) = Cardinality(heads)
    /\ \A s \in heads : EntryAt(es[Place(heads, s)], d, from, s, t)

(* The viewer never stopped inside a line, and no read counted its lines   *)
(* before the newline at its offset was written.                           *)
WholeLines ==
    /\ LineStart(log, offset) \/ offset = Len(log) + 1
    /\ \A r \in reads : LineStart(log, r.from) /\ r.from <= r.seen

(* No line ends in "\r", which the scanner drops and the offset then lacks. *)
UnixLines == \A n \in DOMAIN log : log[n] = CR => n < Len(log) /\ log[n + 1] # Newline

(* Reading a log in increments shows every entry of it once and in order,  *)
(* with its line number and its continuation lines, as long as reads end   *)
(* between lines; also when a line over the limit follows, where reading   *)
(* stops.                                                                  *)
IncrementsAddUp ==
    WholeLines /\ UnixLines => AreEntries(shown, log, {r.from : r \in reads}, offset)

(* Entry i does not repeat the one before it: it begins a run.             *)
BeginsRun(i) ==
    \/ i = 1 \/ shown[i].message # shown[i - 1].message
    \/ shown[i].extra # <<>> \/ shown[i - 1].extra # <<>>

Runs == {i \in DOMAIN shown : BeginsRun(i)}

(* Collapsing keeps the first entry of every longest run of equal messages *)
(* without continuation lines, and counts the run.                         *)
CollapseExact ==
    LET done == CollapseDuplicates(shown)
        runs == Runs
        size(i) == Cardinality({j \in DOMAIN shown : Place(runs, j) = Place(runs, i)})
    IN  /\ Len(done) = Cardinality(runs)
        /\ \A i \in runs : done[Place(runs, i)] = [shown[i] EXCEPT !.count = size(i)]
============================================================================
