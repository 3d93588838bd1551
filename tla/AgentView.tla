------------------------------ MODULE AgentView ------------------------------
(***************************************************************************)
(* A viewer follows a session that spawns subagents and teammates.  The    *)
(* lead's transcript, the transcripts of its agents, their sidecars and    *)
(* the tool results that name them are written in any order the agents     *)
(* run in; the viewer reads the lead's chunks, and then discovers, links   *)
(* and reconstructs from what is on disk by then.                          *)
(***************************************************************************)
EXTENDS Teams

CONSTANTS Spawn,  \* [team, name, desc]: the agents a call can spawn
          Start,  \* [lead, files, left]: what is on disk when the viewer
                  \* starts, and how much of each kind may follow (a bound)
          Owner   \* the owners a TaskUpdate names, None among them

Name == {s.name : s \in Spawn}
Team == {s.team : s \in Spawn}
Desc == {s.desc : s \in Spawn}

(* The calls of a lead's transcript that are looked at, and a transcript.   *)
TaskUpdate == [task : Nat, at : Nat, status : BOOLEAN, owner : Owner]
LeadCall ==
    [op : {"spawn"}, at : Nat, name : Name, team : Team, desc : Desc]
        \cup [op : {"create"}, team : Team] \cup [op : {"task", "delete"}]
        \cup [op : {"update"}, up : TaskUpdate]
Transcript ==
    [of : Nat, dir : {"subagents", "project"}, sidecar : BOOLEAN, summary : Desc \cup {None},
     member : [name : Name, team : Team], near : BOOLEAN, updates : Seq(TaskUpdate)]

ASSUME AgentViewAssumption ==
    /\ None \in Owner
    /\ \A s \in Spawn : /\ s = [team |-> s.team, name |-> s.name, desc |-> s.desc]
                       /\ (s.team = None) <=> (s.name = None)

(* A call's id is its place; the transcripts there are sessions of teammates *)
(* of an earlier run.  No update is later than the time it starts at.       *)
ASSUME StartAssumption ==
    \A s \in Start :
        /\ s.lead \in Seq(LeadCall) /\ s.files \in Seq(Transcript)
        /\ \A i \in DOMAIN s.lead : s.lead[i].op = "spawn" => s.lead[i].at = i
        /\ \A i \in DOMAIN s.lead : s.lead[i].op = "update" => s.lead[i].up.at = 0
        /\ \A k \in DOMAIN s.files : LET f == s.files[k] IN
              f.of = 0 /\ f.dir = "project" /\ ~ f.near /\ ~ f.sidecar
        /\ \A k \in DOMAIN s.files : \A n \in DOMAIN s.files[k].updates :
              s.files[k].updates[n].at = 0

VARIABLES lead,     \* the tool calls of the lead's transcript
          files,    \* agent transcripts in the order they start
          results,  \* toolUseResults of the lead that name an agent
          now,      \* the time of the last TaskUpdate
          left,     \* what may still be written
          view,     \* how many calls the chunks have that were read, Idle without
          boards    \* the boards shown by the last refresh

written == <<lead, files, results, now, left>>
shown   == <<view, boards>>
vars    == <<written, shown>>

Idle == -1

SpawnCalls(n) == {lead[i] : i \in {i \in 1 .. n : lead[i].op = "spawn"}}

Init ==
    /\ \E s \in Start : lead = s.lead /\ files = s.files /\ left = s.left
    /\ results = <<>> /\ now = 0 /\ view = Idle /\ boards = <<>>

----------------------------------------------------------------------------
(* Claude Code. *)

Spend(kind) == left[kind] > 0 /\ left' = [left EXCEPT ![kind] = @ - 1]

Call(e) == lead' = Append(lead, e) /\ UNCHANGED <<files, results, shown>>

SpawnCall(s) ==
    /\ Spend("spawns")
    /\ Call([op |-> "spawn", at |-> Len(lead) + 1,
             name |-> s.name, team |-> s.team, desc |-> s.desc])
    /\ UNCHANGED now

TeamOp(e) == Spend("ops") /\ Call(e) /\ UNCHANGED now

TeamCreate(t) == TeamOp([op |-> "create", team |-> t])
TaskCreate    == TeamOp([op |-> "task"])
TeamDelete    == TeamOp([op |-> "delete"])

(* Two updates may carry one timestamp.                                     *)
Stamped(up) ==
    /\ Spend("updates")
    /\ now' \in {now, now + 1}
    /\ up.at = now'

LeadUpdate(up) == Stamped(up) /\ Call([op |-> "update", up |-> up])

(* An agent's transcript appears once the call is written: a plain agent's  *)
(* in the subagents directory; a teammate's there, opening with its         *)
(* summary or, continued, without, or as a session of the project.          *)
StartTranscript(c, dir, summary) ==
    /\ Spend("files")
    /\ \A k \in DOMAIN files : files[k].of # c.at
    /\ dir = "project" => IsTeamTask(c) /\ summary = None
    /\ summary # None => IsTeamTask(c) /\ summary = c.desc
    /\ files' = Append(files,
          [of |-> c.at, dir |-> dir, sidecar |-> FALSE, summary |-> summary,
           member |-> Member(c.name, c.team), near |-> TRUE, updates |-> <<>>])
    /\ UNCHANGED <<lead, results, now, shown>>

WriteSidecar(k) ==
    /\ Spend("sidecars")
    /\ files[k].dir = "subagents" /\ ~ files[k].sidecar
    /\ files' = [files EXCEPT ![k].sidecar = TRUE]
    /\ UNCHANGED <<lead, results, now, shown>>

ToolResult(c) ==
    /\ Spend("results")
    /\ \A n \in DOMAIN results : results[n].call # c.at
    /\ results' = Append(results,
          [call |-> c.at, agent |-> IF IsTeamTask(c) THEN Member(c.name, c.team) ELSE Hex(c.at)])
    /\ UNCHANGED <<lead, files, now, shown>>

WorkerUpdate(k, up) ==
    /\ files[k].of # 0 /\ IsTeamTask(lead[files[k].of])
    /\ Stamped(up)
    /\ files' = [files EXCEPT ![k].updates = Append(@, up)]
    /\ UNCHANGED <<lead, results, shown>>

----------------------------------------------------------------------------
(* The viewer. *)

ReadChunks ==
    /\ view = Idle
    /\ view' = Len(lead)
    /\ UNCHANGED <<written, boards>>

(* What discovery and linking return for chunks of n calls, and the boards  *)
(* reconstructed from them.                                                 *)
ProcsOf(n)  == LinkSubagents(Discover(files, SpawnCalls(n)), SpawnCalls(n), results)
BoardsOf(n) == ReconstructTeams(SubSeq(lead, 1, n), ProcsOf(n))

Link ==
    /\ view # Idle
    /\ boards' = BoardsOf(view)
    /\ view' = Idle
    /\ UNCHANGED written

Update ==
    {up \in [task : 1 .. Len(lead), at : {now, now + 1}, status : BOOLEAN, owner : Owner] :
        /\ up.task <= Cardinality({i \in DOMAIN lead : lead[i].op = "task"})
        /\ up.status \/ up.owner # None}

Next ==
    \/ \E s \in Spawn : SpawnCall(s)
    \/ \E t \in {s.team : s \in Spawn} \ {None} : TeamCreate(t)
    \/ TaskCreate
    \/ TeamDelete
    \/ \E c \in SpawnCalls(Len(lead)) :
          \/ \E dir \in {"subagents", "project"}, s \in {None, c.desc} :
                StartTranscript(c, dir, s)
          \/ ToolResult(c)
    \/ \E k \in DOMAIN files : WriteSidecar(k)
    \/ \E up \in Update :
          \/ LeadUpdate(up)
          \/ \E k \in DOMAIN files : WorkerUpdate(k, up)
    \/ ReadChunks
    \/ Link

Spec == Init /\ [][Next]_vars

----------------------------------------------------------------------------
(* Properties of the links: what a refresh under way returns if it links    *)
(* now, whatever was written since it read the chunks.                      *)

Reading == view # Idle

(* What is shown are agents of this session, not a teammate's session of an *)
(* earlier run, and tasks as the transcripts name them.                     *)
TypeOK ==
    /\ view \in {Idle} \cup 0 .. Len(lead)
    /\ \A k \in DOMAIN files : files[k].of \in 0 .. Len(lead)
    /\ Reading => \A p \in Range(ProcsOf(view)) :
                     files[p.file].of # 0 /\ p.parent \in 0 .. Len(lead)
    /\ \A t \in DOMAIN boards : \A task \in Range(boards[t].tasks) :
          task.status \in (0 .. now) \X (0 .. Len(files))

(* No two agents are shown under one call, whichever of the four ways of    *)
(* linking gave each its parent (LinkSubagents' matchedTools).              *)
OneParent ==
    Reading =>
        LET procs == ProcsOf(view) IN
        \A i, j \in DOMAIN procs :
            procs[i].parent # 0 /\ procs[i].parent = procs[j].parent => i = j

(* A result or a sidecar names the call that spawned the agent of f.        *)
Known(f) ==
    \/ f.sidecar
    \/ f.dir = "subagents" /\ AgentToToolID(results, Hex(f.of)) = f.of
    \/ f.dir = "project" /\ AgentToToolID(results, f.member) = f.of

(* No teammate that its summary or id tells as one is shown under a plain   *)
(* call, and no plain agent under a teammate's.                             *)
TeamsApart ==
    Reading =>
        \A p \in Range(ProcsOf(view)) :
            LET f == files[p.file] IN
            p.parent # 0 /\ (IsTeamTask(lead[f.of]) => f.summary # None \/ f.dir = "project")
                => (IsTeamTask(lead[p.parent]) <=> IsTeamTask(lead[f.of]))

(* An agent that its sidecar or a result names is shown under the call that *)
(* spawned it, as soon as the chunks have that call; a plain one with a     *)
(* sidecar is never put elsewhere before they have it, and neither kind is  *)
(* shown as the other.                                                      *)
EvidenceWins ==
    /\ TeamsApart
    /\ Reading =>
           \A p \in Range(ProcsOf(view)) :
               LET f == files[p.file] IN
               /\ Known(f) /\ f.of <= view => p.parent = f.of
               /\ f.sidecar /\ ~ IsTeamTask(lead[f.of]) => p.parent = f.of

(* When every plain call has its transcript, and they started in the order  *)
(* of the calls, plain agents are shown under their own calls although      *)
(* nothing names them.                                                      *)
PositionalExact ==
    LET plain == {k \in DOMAIN files : files[k].of # 0 /\ ~ IsTeamTask(lead[files[k].of])}
        told  == \A k \in DOMAIN files : files[k].of # 0 /\ k \notin plain =>
                     files[k].dir = "project" \/ files[k].sidecar \/ files[k].summary # None
        all   == \A c \in SpawnCalls(view) :
                     ~ IsTeamTask(c) => \E k \in plain : files[k].of = c.at
        order == \A k, l \in plain : k < l => files[k].of < files[l].of
    IN  Reading /\ told /\ all /\ order =>
            \A p \in Range(ProcsOf(view)) :
                p.file \in plain /\ files[p.file].of <= view => p.parent = files[p.file].of

----------------------------------------------------------------------------
(* Properties of the boards. *)

(* The team in use before entry i, and the first team of a name, by the     *)
(* order of their creation.                                                 *)
Creates(n) == {j \in 1 .. n : lead[j].op = "create"}

ActiveAt(i) ==
    LET ops == {j \in 1 .. i - 1 : lead[j].op \in {"create", "delete"}}
    IN  IF ops = {} \/ lead[Max(ops)].op = "delete" THEN 0 ELSE Cardinality(Creates(i - 1))

FirstTeam(name, n) ==
    LET named == {j \in Creates(n) : lead[j].team = name}
    IN  IF named = {} THEN 0 ELSE Cardinality(Creates(Min(named)))

(* The updates of task k of team t, with their place in time: the lead's    *)
(* before a teammate's of the same time.                                    *)
Addressed(t, k, procs) ==
    {[place |-> <<lead[i].up.at, 0, i>>, by |-> 0, fallback |-> None, up |-> lead[i].up] :
        i \in {i \in 1 .. view : lead[i].op = "update" /\ ActiveAt(i) = t /\ lead[i].up.task = k}}
    \cup UNION {
        LET p == procs[i] IN
        {[place |-> <<p.updates[n].at, i, n>>, by |-> p.file, fallback |-> p.id.name,
          up |-> p.updates[n]] : n \in {n \in DOMAIN p.updates : p.updates[n].task = k}} :
        i \in {i \in DOMAIN procs : /\ IsMember(procs[i].id)
                                    /\ FirstTeam(procs[i].id.team, view) = t}}

NotAfter(a, b) ==
    \/ a[1] < b[1]
    \/ a[1] = b[1] /\ a[2] < b[2]
    \/ a[1] = b[1] /\ a[2] = b[2] /\ a[3] <= b[3]

Latest(U)   == CHOOSE u \in U : \A v \in U : NotAfter(v.place, u.place)
Earliest(U) == CHOOSE u \in U : \A v \in U : NotAfter(u.place, v.place)

(* Every teammate whose call follows the creation of its team is a member   *)
(* of the first team of that name, once, whichever way its transcript was   *)
(* found and linked.                                                        *)
WorkersAreMembers ==
    Reading =>
        LET teams == BoardsOf(view) IN
        /\ \A t \in DOMAIN teams : IsInjective(teams[t].members)
        /\ \A p \in Range(ProcsOf(view)) :
              IsMember(p.id) /\ (\E c \in SpawnCalls(view) : /\ Member(c.name, c.team) = p.id
                                                          /\ FirstTeam(c.team, c.at) # 0)
                => \E t \in DOMAIN teams : /\ teams[t].name = p.id.team
                                           /\ p.id.name \in Range(teams[t].members)

(* The board a refresh reconstructs has one task for every TaskCreate while *)
(* its team was in use; the status of a task is the one set last in time,   *)
(* by the lead or a teammate, its owner the one named last or else the      *)
(* first teammate to touch it; and its members are all there, once.         *)
BoardExact ==
    /\ WorkersAreMembers
    /\ Reading =>
           LET procs == ProcsOf(view)
               teams == BoardsOf(view)
           IN  /\ Len(teams) = Cardinality(Creates(view))
               /\ \A t \in DOMAIN teams :
                     /\ Len(teams[t].tasks) =
                           Cardinality({i \in 1 .. view : lead[i].op = "task" /\ ActiveAt(i) = t})
                     /\ \A k \in DOMAIN teams[t].tasks :
                           LET all    == Addressed(t, k, procs)
                               states == {u \in all : u.up.status}
                               named  == {u \in all : u.up.owner # None}
                               others == {u \in all : u.fallback # None}
                           IN  /\ teams[t].tasks[k].status =
                                     IF states = {} THEN Pending
                                     ELSE <<Latest(states).up.at, Latest(states).by>>
                               /\ teams[t].tasks[k].owner =
                                     IF named # {} THEN Latest(named).up.owner
                                     ELSE IF others # {} THEN Earliest(others).fallback ELSE None

(* A teammate spawned again: of its sessions only the latest is looked at,  *)
(* the updates of the others are lost, and until its result is written it   *)
(* is shown under the earlier call.                                         *)
Respawned ==
    \E c1, c2 \in SpawnCalls(Len(lead)) :
        IsTeamTask(c1) /\ c1 # c2 /\ c1.team = c2.team /\ c1.name = c2.name

(* Teammates of different teams with one description: until a sidecar tells, *)
(* a transcript that opens with it is shown under either's call, and its    *)
(* updates on either team's board.                                          *)
SharedBrief ==
    \E c1, c2 \in SpawnCalls(Len(lead)) :
        IsTeamTask(c1) /\ IsTeamTask(c2) /\ c1.desc = c2.desc /\ c1.team # c2.team

(* From one refresh to the next the status of a task never goes back to an  *)
(* older update, although transcripts are found and linked late, and those  *)
(* of one team under each other's calls.                                    *)
NoRegression ==
    [][ ~ Respawned /\ ~ SharedBrief =>
            \A t \in DOMAIN boards : \A k \in DOMAIN boards[t].tasks :
                /\ t \in DOMAIN boards' /\ k \in DOMAIN boards'[t].tasks
                /\ boards'[t].tasks[k].status[1] >= boards[t].tasks[k].status[1] ]_boards
=============================================================================
