----------------------------- MODULE MCAgentView -----------------------------
(* Agents for TLC: a plain one and two teammates whose calls have the same  *)
(* description; the viewer starts on a session with one call or on one that *)
(* has created its team and a task.                                         *)
EXTENDS AgentView

CONSTANTS T, n1, n2, d

Agent(team, name, desc) == [team |-> team, name |-> name, desc |-> desc]

MCSpawn == {Agent(None, None, None), Agent(T, n1, d), Agent(T, n2, d)}

Create == [op |-> "create", team |-> T]
Task   == [op |-> "task"]
Plain  == [op |-> "spawn", at |-> 1, name |-> None, team |-> None, desc |-> None]
SpawnAt(i, name) == [op |-> "spawn", at |-> i, name |-> name, team |-> T, desc |-> d]

OldSession ==
    [of |-> 0, dir |-> "project", sidecar |-> FALSE, summary |-> None,
     member |-> Member(n1, T), near |-> FALSE, updates |-> <<>>]

Left(spawns, ops, starts, sidecars, res, updates) ==
    [spawns |-> spawns, ops |-> ops, files |-> starts, sidecars |-> sidecars,
     results |-> res, updates |-> updates]

(* A session that spawns more, after a plain call or a teammate's; a team   *)
(* at work, twice; a teammate with a session of an earlier run, spawned     *)
(* once more; teams that come and go.                                       *)
MCStart ==
    {[lead |-> <<Plain>>, files |-> <<>>, left |-> Left(2, 0, 3, 1, 1, 0)],
     [lead |-> <<SpawnAt(1, n1)>>, files |-> <<>>, left |-> Left(2, 0, 2, 1, 1, 0)],
     [lead |-> <<Create, Task, SpawnAt(3, n1), SpawnAt(4, n2)>>, files |-> <<>>,
      left |-> Left(0, 0, 2, 0, 0, 2)],
     [lead |-> <<Create, Task, SpawnAt(3, n1), SpawnAt(4, n2)>>, files |-> <<>>,
      left |-> Left(0, 0, 1, 1, 1, 2)],
     [lead |-> <<Create, Task, SpawnAt(3, n1)>>, files |-> <<OldSession>>,
      left |-> Left(1, 0, 2, 0, 1, 1)],
     [lead |-> <<Create, Task, SpawnAt(3, n1)>>, files |-> <<>>,
      left |-> Left(0, 2, 1, 0, 0, 1)]}
==============================================================================
