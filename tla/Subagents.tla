------------------------------ MODULE Subagents ------------------------------
(***************************************************************************)
(* Which subagent transcript belongs to which call of the session that     *)
(* spawned it: discovery of the transcripts and LinkSubagents.             *)
(*                                                                         *)
(* A spawning call is a record with its position `at` in the lead's        *)
(* transcript as its tool id, a `desc`, and the `name` and `team` of the    *)
(* teammate it spawns (None for a plain subagent).  A transcript is a      *)
(* record of the session directory; transcripts are numbered by the time   *)
(* they start.                                                             *)
(***************************************************************************)
EXTENDS Integers, SequencesExt

CONSTANT None

(* The id of the subagent that call c spawned, and of a teammate ("@").     *)
Hex(c) == [agent |-> c]
Member(name, team) == [name |-> name, team |-> team]
IsMember(id) == "team" \in DOMAIN id

IsTeamTask(call) == call.team # None

----------------------------------------------------------------------------
(* Discovery. *)

(* sort.Slice by start time, of which a transcript's number is the rank.    *)
Rank(S, x) == Cardinality({y \in S : y <= x})
InOrder(S) == [i \in 1 .. Cardinality(S) |-> CHOOSE k \in S : Rank(S, k) = i]

Proc(files, k, id, parent, summary) ==
    [file |-> k, id |-> id, parent |-> parent, summary |-> summary,
     updates |-> files[k].updates]

(* DiscoverSubagents: the subagents directory by start time, with the       *)
(* parent named by a sidecar (0 without one).                               *)
DiscoverSubagents(files) ==
    LET here == InOrder({k \in DOMAIN files : files[k].dir = "subagents"})
    IN  [i \in DOMAIN here |->
            LET f == files[here[i]] IN
            Proc(files, here[i], Hex(f.of), IF f.sidecar THEN f.of ELSE 0, f.summary)]

(* Variant: the time window of the parent's run is not looked at.           *)
WantedAnyTime(files, calls) ==
    {k \in DOMAIN files :
        /\ files[k].dir = "project"
        /\ \E c \in calls : IsTeamTask(c) /\ Member(c.name, c.team) = files[k].member}

(* Sessions of a teammate the calls name, within the parent's run.          *)
Wanted(files, calls) ==
    {k \in DOMAIN files :
        /\ files[k].dir = "project" /\ files[k].near
        /\ \E c \in calls : IsTeamTask(c) /\ Member(c.name, c.team) = files[k].member}

(* DiscoverTeamSessions: of several sessions of one teammate the latest.    *)
DiscoverTeamSessions(files, calls) ==
    LET wanted == Wanted(files, calls)
        latest == {k \in wanted : \A l \in wanted :
                      files[l].member = files[k].member => l <= k}
        here   == InOrder(latest)
    IN  [i \in DOMAIN here |-> Proc(files, here[i], files[here[i]].member, 0, None)]

Discover(files, calls) == DiscoverSubagents(files) \o DiscoverTeamSessions(files, calls)

----------------------------------------------------------------------------
(* LinkSubagents. *)

(* scanAgentLinks: the call that an agent's last tool result names.         *)
AgentToToolID(results, id) ==
    LET named == {n \in DOMAIN results : results[n].agent = id}
    IN  IF named = {} THEN 0 ELSE results[CHOOSE n \in named : \A m \in named : m <= n].call

(* A link <<i, c>> gives process i the call c.                              *)
(* The i-th of P goes with the i-th of C, as far as both reach.             *)
Pairs(P, C) == {l \in P \X C : Rank(P, l[1]) = Rank(C, l[2])}

Procs(links) == {l[1] : l \in links}
Tools(links) == {l[2] : l \in links}

(* Phase 0: the parent the sidecar names, for the first process to name it. *)
SidecarLinks(procs, ids) ==
    {l \in (DOMAIN procs) \X ids :
        /\ procs[l[1]].parent = l[2]
        /\ \A j \in 1 .. l[1] - 1 : procs[j].parent # l[2]}

(* Variant: a call that a sidecar has already taken is taken again.         *)
ResultLinksTaken(procs, ids, results, links) ==
    {l \in ((DOMAIN procs) \ Procs(links)) \X ids :
        l[2] = AgentToToolID(results, procs[l[1]].id)}

(* Phase 1: the call whose result names the agent.                          *)
ResultLinks(procs, ids, results, links) ==
    LET free == (DOMAIN procs) \ Procs(links)
        tool(i) == AgentToToolID(results, procs[i].id)
    IN  {l \in free \X (ids \ Tools(links)) :
            l[2] = tool(l[1]) /\ \A j \in free : j < l[1] => tool(j) # l[2]}

(* Phase 2: a teammate's call takes the earliest process left whose opening *)
(* message has the call's description as its summary; calls of one          *)
(* description go in their order.                                           *)
SummaryLinks(procs, calls, links) ==
    LET open(d) == {i \in (DOMAIN procs) \ Procs(links) : procs[i].summary = d}
        asks(d) == {c.at : c \in {c \in calls : /\ IsTeamTask(c) /\ c.desc = d
                                                /\ c.at \notin Tools(links)}}
    IN  UNION {Pairs(open(d), asks(d)) : d \in {c.desc : c \in calls} \ {None}}

(* Variants: teammates take part; a process with a sidecar takes part.      *)
PositionalLinksTeams(procs, calls, links) ==
    LET open == {i \in (DOMAIN procs) \ Procs(links) : procs[i].parent = 0}
        asks == {c.at : c \in {c \in calls : ~ IsTeamTask(c) /\ c.at \notin Tools(links)}}
    IN  Pairs(open, asks)

PositionalLinksSidecar(procs, calls, links) ==
    LET open == {i \in (DOMAIN procs) \ Procs(links) :
                    /\ ~ IsMember(procs[i].id) /\ procs[i].summary = None}
        asks == {c.at : c \in {c \in calls : ~ IsTeamTask(c) /\ c.at \notin Tools(links)}}
    IN  Pairs(open, asks)

(* Phase 3: plain processes and plain calls that are left, in order.        *)
PositionalLinks(procs, calls, links) ==
    LET open == {i \in (DOMAIN procs) \ Procs(links) :
                    /\ procs[i].parent = 0
                    /\ ~ IsMember(procs[i].id) /\ procs[i].summary = None}
        asks == {c.at : c \in {c \in calls : ~ IsTeamTask(c) /\ c.at \notin Tools(links)}}
    IN  Pairs(open, asks)

Links(procs, calls, results) ==
    LET ids == {c.at : c \in calls}
        l0  == SidecarLinks(procs, ids)
        l1  == l0 \cup ResultLinks(procs, ids, results, l0)
        l2  == l1 \cup SummaryLinks(procs, calls, l1)
    IN  l2 \cup PositionalLinks(procs, calls, l2)

(* The process with its parent; a teammate's gets its teammate's id.        *)
Linked(p, i, calls, links) ==
    LET parents == {c \in calls : IF i \in Procs(links) THEN <<i, c.at>> \in links
                                                        ELSE c.at = p.parent}
    IN  IF parents = {} THEN p
        ELSE LET c == CHOOSE c \in parents : TRUE IN
             [p EXCEPT !.parent = c.at,
                       !.id = IF IsTeamTask(c) THEN Member(c.name, c.team) ELSE @]

LinkSubagents(procs, calls, results) ==
    LET links == Links(procs, calls, results)
    IN  [i \in DOMAIN procs |-> Linked(procs[i], i, calls, links)]
=============================================================================
