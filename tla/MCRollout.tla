------------------------------- MODULE MCRollout -------------------------------
(* Rollout for TLC: an entry of each kind that the fold or the search for   *)
(* the final message tells apart; an error is told from an abort by name    *)
(* only, and so are a prompt from work and a completed turn from a mute one.*)
EXTENDS Rollout

Of(kind) == [kind |-> kind, reviewer |-> None]

MCEntry == {Of(k) : k \in {"work", "answer", "mute", "aborted", "other"}}
           \cup {[kind |-> "context", reviewer |-> r] : r \in {None, AutoReview}}
           \cup {[kind |-> "loose", reviewer |-> AutoReview]}
================================================================================
