------------------------------ MODULE MCSession ------------------------------
(* Transcripts for TLC: those of the entries that the two verdicts tell     *)
(* apart, and those of the entries that are shown in different ways.        *)
EXTENDS Session

CONSTANTS t1, t2

Main(k, i) == [kind |-> k, id |-> i, by |-> "main"]

Common ==
    {Main("tool", t1), Main("agent", t2), Main("result", t1), Main("result", t2)}
    \cup {Main(k, NoId) : k \in {"text", "prompt", "output", "interrupted"}}

(* Thinking, an empty id, sidechain and synthetic entries, of which a       *)
(* transcript has one at most.                                              *)
Odd == {Main("tool", NoId), Main("thinking", NoId),
        [kind |-> "result", id |-> t1, by |-> "side"],
        [kind |-> "text", id |-> NoId, by |-> "synthetic"]}

(* These and the endings.                                                   *)
Judged ==
    Common \cup {Main("plan", t1), Main("approval", t2), Main("rejected", t1)} \cup Odd

(* Every class of message and every kind of item.                           *)
Viewed == Common \cup {Main(k, NoId) : k \in {"redacted", "slash", "expanded", "teammate"}}

MCEntry == Judged \cup Viewed

MCNext ==
    \E e \in Entry :
        /\ Len(read) < MaxEntries
        /\ \E kinds \in {Judged, Viewed} : ToSet(read) \cup {e} \subseteq kinds
        /\ e \in Odd => ToSet(read) \cap Odd = {}
        /\ Write(e)

MCSpec == SessionInit /\ [][MCNext]_<<vars, chunks>>
==============================================================================
