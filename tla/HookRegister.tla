----------------------------- MODULE HookRegister -----------------------------
(***************************************************************************)
(* What RegisterHooks promises: the file changes in single steps from one  *)
(* complete document to another.  A registration installs a document that  *)
(* it has read, with its commands added; it reports success only then, or  *)
(* when the file had them already.  It does not promise that the document  *)
(* it read is still the latest.                                            *)
(***************************************************************************)
EXTENDS HookFile

CONSTANT Proc

VARIABLES doc,    \* the document
          seen,   \* what each registration under way has read, Blank otherwise
          acked   \* commands whose registration was reported as done

vars == <<doc, seen, acked>>

Init ==
    /\ doc \in Doc
    /\ seen = [p \in Proc |-> Blank]
    /\ acked = {}

Read(p) ==
    /\ seen' = [seen EXCEPT ![p] = doc]
    /\ UNCHANGED <<doc, acked>>

AlreadyPresent(W) ==
    /\ Present(doc, W)
    /\ acked' = acked \cup W
    /\ UNCHANGED <<doc, seen>>

Install(p, W) ==
    /\ doc' = Register(seen[p], W)
    /\ acked' = acked \cup W
    /\ seen' = [seen EXCEPT ![p] = Blank]

GiveUp(p) ==
    /\ seen' = [seen EXCEPT ![p] = Blank]
    /\ UNCHANGED <<doc, acked>>

Edit(g) ==
    /\ doc' = [doc EXCEPT !.gear = g]
    /\ UNCHANGED <<seen, acked>>

Next ==
    \/ \E p \in Proc : Read(p) \/ GiveUp(p)
    \/ \E W \in SUBSET Cmd : AlreadyPresent(W) \/ \E p \in Proc : Install(p, W)
    \/ \E g \in Gear : Edit(g)

Spec == Init /\ [][Next]_vars
===============================================================================
