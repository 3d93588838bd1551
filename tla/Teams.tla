-------------------------------- MODULE Teams --------------------------------
(***************************************************************************)
(* ReconstructTeams: the task boards of the teams a session led, replayed  *)
(* from the lead's tool calls and the TaskUpdates of its teammates.        *)
(*                                                                         *)
(* A TaskUpdate is a record: the `task` it names, the time `at` it was     *)
(* written, whether it sets a `status`, and the `owner` it sets (None).    *)
(* A status is the update that set it, written <<time, writer>>; writer 0  *)
(* is the lead.                                                            *)
(***************************************************************************)
EXTENDS Subagents

Pending == <<0, 0>>

(* findTeamIndex: the first team of that name, 0 for none.                  *)
FindTeamIndex(teams, name) ==
    LET named == {t \in DOMAIN teams : teams[t].name = name}
    IN  IF named = {} THEN 0 ELSE CHOOSE t \in named : \A u \in named : t <= u

(* addTeamSpawnMember: once, in the first team of that name.                *)
AddTeamSpawnMember(teams, e) ==
    LET t == FindTeamIndex(teams, e.team)
    IN  IF t = 0 \/ e.name \in Range(teams[t].members) THEN teams
        ELSE [teams EXCEPT ![t].members = Append(@, e.name)]

(* Phase 1, one entry of the lead: `active` is the team in use, 0 for none. *)
LeadEvent(acc, e) ==
    CASE e.op = "create" ->
            [acc EXCEPT !.teams = Append(@, [name |-> e.team, tasks |-> <<>>,
                                             members |-> <<>>, deleted |-> FALSE]),
                        !.active = Len(acc.teams) + 1]
      [] e.op = "task" /\ acc.active # 0 ->
            [acc EXCEPT !.teams[acc.active].tasks =
                            Append(@, [status |-> Pending, owner |-> None])]
      [] e.op = "update" /\ acc.active # 0 ->
            [acc EXCEPT !.updates =
                Append(@, [team |-> acc.active, by |-> 0, fallback |-> None, up |-> e.up])]
      [] e.op = "delete" /\ acc.active # 0 ->
            [acc EXCEPT !.teams[acc.active].deleted = TRUE, !.active = 0]
      [] e.op = "spawn" /\ IsTeamTask(e) ->
            [acc EXCEPT !.teams = AddTeamSpawnMember(@, e)]
      [] OTHER -> acc

(* Phase 2: a teammate's updates, for the team its id names.                *)
WorkerUpdates(teams, w) ==
    LET t == IF IsMember(w.id) THEN FindTeamIndex(teams, w.id.team) ELSE 0
    IN  IF t = 0 THEN <<>>
        ELSE [n \in DOMAIN w.updates |->
                 [team |-> t, by |-> w.file, fallback |-> w.id.name, up |-> w.updates[n]]]

(* Variant: a teammate without an owner field takes the task over.          *)
ApplyTaskUpdateSteal(teams, u) ==
    IF u.up.task \notin DOMAIN teams[u.team].tasks THEN teams
    ELSE [teams EXCEPT ![u.team].tasks[u.up.task] =
             [status |-> IF u.up.status THEN <<u.up.at, u.by>> ELSE @.status,
              owner  |-> CASE u.up.owner # None -> u.up.owner
                           [] u.up.owner = None /\ u.fallback # None -> u.fallback
                           [] OTHER -> @.owner]]

(* applyTaskUpdate.                                                         *)
ApplyTaskUpdate(teams, u) ==
    IF u.up.task \notin DOMAIN teams[u.team].tasks THEN teams
    ELSE [teams EXCEPT ![u.team].tasks[u.up.task] =
             [status |-> IF u.up.status THEN <<u.up.at, u.by>> ELSE @.status,
              owner  |-> CASE u.up.owner # None -> u.up.owner
                           [] u.up.owner = None /\ @.owner = None -> u.fallback
                           [] OTHER -> @.owner]]

(* Variant: the lead's updates first, then the teammates'.                  *)
ReplayOrderUnsorted(updates) == updates

(* sort.SliceStable by time.                                                *)
ReplayOrder(updates) ==
    LET before(n, m) == \/ updates[n].up.at < updates[m].up.at
                        \/ updates[n].up.at = updates[m].up.at /\ n < m
        place(n) == 1 + Cardinality({m \in DOMAIN updates : before(m, n)})
    IN  [k \in DOMAIN updates |-> updates[CHOOSE n \in DOMAIN updates : place(n) = k]]

(* Phase 1: the lead's first n calls.                                       *)
Walked(lead) ==
    LET walk[n \in 0 .. Len(lead)] ==
            IF n = 0 THEN [teams |-> <<>>, updates |-> <<>>, active |-> 0]
            ELSE LeadEvent(walk[n - 1], lead[n])
    IN  walk

(* The lead's updates and, behind them, those of the first n workers.       *)
Gathered(walked, workers) ==
    LET gather[n \in 0 .. Len(workers)] ==
            IF n = 0 THEN walked.updates
            ELSE gather[n - 1] \o WorkerUpdates(walked.teams, workers[n])
    IN  gather

(* Phase 3: the teams after the first n updates.                            *)
Replayed(teams, updates) ==
    LET replay[n \in 0 .. Len(updates)] ==
            IF n = 0 THEN teams ELSE ApplyTaskUpdate(replay[n - 1], updates[n])
    IN  replay

ReconstructTeams(lead, workers) ==
    LET walked == Walked(lead)[Len(lead)]
        all    == ReplayOrder(Gathered(walked, workers)[Len(workers)])
    IN  Replayed(walked.teams, all)[Len(all)]
=============================================================================
