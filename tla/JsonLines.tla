----------------------------- MODULE JsonLines -----------------------------
(***************************************************************************)
(* JSONL files and the line splitting every incremental reader of this     *)
(* code base relies on (offsetstore.splitLines, jsonl.Reader).             *)
(*                                                                         *)
(* A file is a sequence of cells.  A cell is the newline byte or a chunk   *)
(* of text without a newline; offsets count cells.  What json.Valid says   *)
(* of a line's text is the parameter JSON, the set of the valid texts.  A  *)
(* line is identified by its place <<start, end>>: `start` is the offset   *)
(* of its first cell, `end` the offset just after its newline.             *)
(***************************************************************************)
EXTENDS Integers, Sequences

CONSTANTS Newline,   \* the byte '\n'
          Text,      \* the other cells
          JSON       \* the cell sequences json.Valid accepts

ASSUME CellAssumption ==
    /\ Newline \notin Text
    /\ JSON \subseteq Seq(Text)
    /\ <<>> \notin JSON

Cell == Text \cup {Newline}

(* `s` is the offset of the first cell of a line of d.                     *)
LineStart(d, s) == s = 0 \/ d[s] = Newline

(* The places of the newline-terminated segments of d read from offset s,  *)
(* the first one starting at s itself wherever s falls.                    *)
Segments(d, s) ==
    {l \in (s .. Len(d)) \X (s .. Len(d)) :
        /\ l[1] < l[2]
        /\ l[1] = s \/ d[l[1]] = Newline
        /\ d[l[2]] = Newline
        /\ \A k \in l[1] + 1 .. l[2] - 1 : d[k] # Newline}

(* The segments that are handed out: empty and malformed ones are skipped. *)
ValidLines(d, s) ==
    {l \in Segments(d, s) : SubSeq(d, l[1] + 1, l[2] - 1) \in JSON}

(* The offset just after the last newline at or after s, s if there is     *)
(* none: an unterminated tail is never confirmed.                          *)
IsConfirmedEnd(d, s, e) ==
    /\ e = s \/ d[e] = Newline
    /\ \A k \in e + 1 .. Len(d) : d[k] # Newline

ConfirmedEnd(d, s) == CHOOSE e \in s .. Len(d) : IsConfirmedEnd(d, s, e)

(* What a reader that stopped at offset e has handed out so far.           *)
LinesUpTo(d, e) == {l \in ValidLines(d, 0) : l[2] <= e}
============================================================================
