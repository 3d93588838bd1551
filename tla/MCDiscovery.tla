---------------------------- MODULE MCDiscovery ----------------------------
(* Discovery for TLC, as scenarios that each have a part of the system at  *)
(* rest.                                                                   *)
EXTENDS Discovery

CONSTANTS s1, s2, p1, p2, stamp, a, b

VARIABLE scenario

MCContains == {<<stamp, a>>, <<b, a>>}

MCInit == Init /\ scenario \in {"one list", "two lists", "renamed", "looked up", "asked"}

Quiet(i) == listed[i] = <<>>

(* One process, in s1, that is not named and whose file stays as it was.   *)
OneRun == \A p \in Pid : files[p] # NoFile => p = 1 /\ files[p].session = s1 /\ files[p].name = NoTitle
                                              /\ p \in running /\ files[p].updatedAt = 1

Plain == \A n \in DOMAIN lines[s1] : lines[s1][n].title = NoTitle

(* Each transcript has a prompt and titles; Claude Code's own title, which *)
(* is not the directory's name, comes second.                              *)
Titled ==
    \A s \in Session : wfWrite[s] = 0 /\ \A n \in DOMAIN lines[s] :
        \/ n = 1 /\ lines[s][n].kind = "prompt"
        \/ n = 2 /\ lines[s][n].kind = "ai" /\ lines[s][n].title # stamp
        \/ n > 1 /\ lines[s][n].kind = "custom"

(* One list, of a session that works, rests and runs workflows.            *)
OneList ==
    faults = 0 /\ now <= 3 /\ Quiet(p2) /\ Len(lines[s1]) <= 3 /\ OneRun /\ Plain

(* Two lists that share the cache, and a file that cannot be opened once.  *)
TwoLists ==
    now <= 3 /\ wfWrite[s1] = 0 /\ Len(lines[s1]) <= 2 /\ OneRun /\ Plain

(* A session is renamed, flushed, ended and resumed, under pid 1 and then  *)
(* pid 2, after its only prompt.                                           *)
Renamed ==
    /\ faults = 0 /\ now <= 2 /\ Quiet(p2) /\ wfWrite[s1] = 0
    /\ \A p \in Pid : files[p] # NoFile => files[p].session = s1 /\ files[1] # NoFile
    /\ \A n \in DOMAIN lines[s1] : lines[s1][n].kind = (IF n = 1 THEN "prompt" ELSE "custom")

(* Two sessions with names that are looked up.                             *)
LookedUp ==
    now <= 2 /\ Quiet(p1) /\ Quiet(p2) /\ Len(lines[s1]) <= 3 /\ Len(lines[s2]) <= 2 /\ Titled

(* Discovery across providers.                                             *)
Asked ==
    /\ now <= 2 /\ Quiet(p1) /\ Quiet(p2)
    /\ \A p \in Pid : files[p] # NoFile => p \in running /\ files[p].name = NoTitle
                                           /\ files[p].updatedAt = 1
    /\ \A s \in Session : \A n \in DOMAIN lines[s] : n <= 2 /\ lines[s][n].kind # "custom"
    /\ Titled

InScenario ==
    CASE scenario = "one list"  -> OneList
      [] scenario = "two lists" -> TwoLists
      [] scenario = "renamed"   -> Renamed
      [] scenario = "looked up" -> LookedUp
      [] scenario = "asked"     -> Asked

MCNext ==
    /\ UNCHANGED scenario
    /\ Claude \/ Picking \/ (scenario = "asked" /\ (Codex \/ Asking))
    /\ InScenario'
    /\ Witness /\ Hear

MCSpec == MCInit /\ [][MCNext]_<<vars, scenario>>
============================================================================
