----------------------------- MODULE Providers -----------------------------
(***************************************************************************)
(* Discovery across agent products: sessions.Registry.Discover asks the    *)
(* Claude and the Codex provider one after the other, each limits its own  *)
(* results, and the merged results are limited again.  One that fails is   *)
(* skipped.  Sessions with equal modification times come in any order.     *)
(***************************************************************************)
EXTENDS Integers, FiniteSets

CONSTANTS Limit,        \* Query.Limit; 0 is no limit
          Wanted        \* the titles that match Query.Title

VARIABLES phase,   \* the provider to ask next: claude, codex or none
          walked,  \* the rollouts Codex's provider found, with their times
          refs,    \* what has been merged so far
          failed,  \* the first error, if any
          found    \* all that the providers that did not fail found

QueryInit ==
    /\ phase = "claude" /\ walked = {} /\ refs = {} /\ failed = FALSE /\ found = {}

(* The first Limit of the sessions S, newest first.                        *)
Newest(S) ==
    {R \in SUBSET S :
        /\ IF Limit = 0 \/ Cardinality(S) <= Limit THEN R = S ELSE Cardinality(R) = Limit
        /\ \A r \in R, s \in S \ R : r.modTime >= s.modTime}
(* Variant: the limit is applied before the title.                         *)
AnswerUnmatched(S) == {{r \in R : r.title \in Wanted} : R \in Newest(S)}

(* What a provider answers that has the sessions S.                        *)
Answer(S) == Newest({r \in S : r.title \in Wanted})

Gather(S) ==
    /\ \E R \in Answer(S) : refs' = refs \cup R
    /\ found' = found \cup {r \in S : r.title \in Wanted}
    /\ UNCHANGED failed

Skip ==
    /\ failed' = TRUE
    /\ UNCHANGED <<refs, found>>

(* claude.Provider.Discover; its project directory may be unreadable.      *)
AskClaude(S) ==
    /\ phase = "claude"
    /\ Gather(S) \/ Skip
    /\ phase' = "codex" /\ UNCHANGED walked

(* codex.Provider.Discover: the rollouts and their times first ...         *)
WalkRollouts(W) ==
    /\ phase = "codex"
    /\ phase' = "rollouts" /\ walked' = W
    /\ UNCHANGED <<refs, failed, found>>

(* ... and then the trailing state of each.                                *)
AskCodex(S) ==
    /\ phase = "rollouts"
    /\ Gather(S) \/ Skip
    /\ phase' = "merge" /\ UNCHANGED walked

(* The merged results are limited and returned.                            *)
Merge ==
    /\ phase = "merge"
    /\ \E R \in Newest(refs) : refs' = R
    /\ phase' = "done"
    /\ UNCHANGED <<walked, failed, found>>
============================================================================
