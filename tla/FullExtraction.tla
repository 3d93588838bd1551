--------------------------- MODULE FullExtraction ---------------------------
(***************************************************************************)
(* What offsetstore promises its callers: a tick that reads on from a      *)
(* persisted offset and adds to a persisted snapshot ends up with what a   *)
(* tick that reads the whole transcript in one go would have.              *)
(*                                                                         *)
(* Here every tick is one step and remembers nothing of those before it.   *)
(* An extraction is eventually in the state file or given up, one that was *)
(* made earlier may replace a later one, and the state file can get lost.  *)
(***************************************************************************)
EXTENDS JsonLines

CONSTANTS Path,    \* the transcripts that share the state file
          Schema,  \* schema versions of the binaries in use
          MaxLen   \* bound on a transcript's length, in cells

VARIABLES data,       \* the transcripts
          extracted,  \* the extractions that may still be saved
          saved       \* what the state file holds, {} if nothing usable

vars == <<data, extracted, saved>>

Init ==
    /\ data = [p \in Path |-> <<>>]
    /\ extracted = {} /\ saved = {}

AppendCell(p) ==
    /\ Len(data[p]) < MaxLen
    /\ \E c \in Cell : data' = [data EXCEPT ![p] = Append(@, c)]
    /\ UNCHANGED <<extracted, saved>>

(* All complete valid lines of p, and the offset behind the last of them.  *)
FullExtract(p, v) ==
    LET end == ConfirmedEnd(data[p], 0)
    IN  [schema |-> v, path |-> p, off |-> end,
         snap |-> {<<p, v, l>> : l \in LinesUpTo(data[p], end)}]

Extract(p, v) ==
    /\ extracted' = extracted \cup {FullExtract(p, v)}
    /\ UNCHANGED <<data, saved>>

(* The state file is replaced as a whole or lost as a whole.               *)
Save   == \E r \in extracted : saved' = {r}
Lose   == saved' = {}
GiveUp == UNCHANGED saved

Settle ==
    /\ UNCHANGED data
    /\ GiveUp \/ Lose \/ Save
    /\ extracted' \subseteq extracted

Next ==
    \/ Settle
    \/ \E p \in Path : AppendCell(p)
    \/ \E p \in Path, v \in Schema : Extract(p, v)

Spec == Init /\ [][Next]_vars
=============================================================================
