-------------------------- MODULE AgentViewProofs --------------------------
(***************************************************************************)
(* Linking gives every call at most one agent, and what names an agent     *)
(* wins, whatever Claude Code wrote since the viewer read the chunks; the  *)
(* boards are what the updates add up to.                                  *)
(*                                                                         *)
(* The inductive invariant is about what is on disk: a transcript is one   *)
(* call's and says so truly, no two are the same call's, and a result      *)
(* names the agent of its own call.  From it discovery gives processes     *)
(* with different ids, each phase of the linking gives a one-to-one        *)
(* relation between processes and calls, and the phases together do.       *)
(*                                                                         *)
(* The boards: LedOk says of the walk over the lead's calls which teams,   *)
(* members, tasks and updates it has gathered after each of them.  Every   *)
(* gathered update has a source, the place it was written at; the replay   *)
(* applies each once, in the order BoardExact names them in, and StatusIs  *)
(* and OwnerIs say of each task what the updates so far have made of it.   *)
(* TInv adds the times of the updates, for the types of what is shown.     *)
(*                                                                         *)
(* From one refresh to the next: a status that is shown is Backed by an    *)
(* update on disk, the lead's or a transcript's that tells whose it is,    *)
(* and chunks of Seen calls give that update to the same task.  All that   *)
(* is Backed is replayed by any later refresh (Told, ToldShown), which     *)
(* then shows it or a later one (SiteCounts).                              *)
(***************************************************************************)
EXTENDS AgentView, FiniteSetTheorems, SequenceTheorems, WellFoundedInduction, TLAPS

AgentId == [agent : Nat] \cup [name : Name, team : Team]

LeadInv ==
    /\ lead \in Seq(LeadCall) /\ now \in Nat
    /\ \A i \in DOMAIN lead : lead[i].op = "spawn" => lead[i].at = i

(* Transcript f is of an earlier run, or of the agent that call f.of of a   *)
(* lead's calls spawned.                                                    *)
TrueOf(f, calls) ==
    IF f.of = 0 THEN f.dir = "project" /\ ~ f.near /\ ~ f.sidecar
    ELSE LET c == calls[f.of] IN
         /\ f.of \in 1 .. Len(calls) /\ c.op = "spawn"
         /\ f.member = Member(c.name, c.team) /\ f.near
         /\ f.dir = "project" => IsTeamTask(c) /\ f.summary = None /\ ~ f.sidecar
         /\ f.summary # None => IsTeamTask(c) /\ f.summary = c.desc

OneEach(trs) ==
    \A k, l \in DOMAIN trs : trs[k].of # 0 /\ trs[k].of = trs[l].of => k = l

FilesInv ==
    /\ files \in Seq(Transcript)
    /\ \A k \in DOMAIN files : TrueOf(files[k], lead)
    /\ OneEach(files)

(* Result r names the agent of the call it is the result of.                *)
Names(r, calls) ==
    LET c == calls[r.call] IN
    /\ r.call \in 1 .. Len(calls) /\ c.op = "spawn"
    /\ r.agent = IF IsTeamTask(c) THEN Member(c.name, c.team) ELSE Hex(r.call)

ResultsInv ==
    /\ results \in Seq([call : Nat, agent : AgentId])
    /\ \A n \in DOMAIN results : Names(results[n], lead)
    /\ \A n, m \in DOMAIN results : results[n].call = results[m].call => n = m

IInv == LeadInv /\ FilesInv /\ ResultsInv /\ view \in {Idle} \cup 0 .. Len(lead)

----------------------------------------------------------------------------
(* What is on disk. *)

LEMMA SpawnKinds ==
    ASSUME NEW s \in Spawn
    PROVE  s.name \in Name /\ s.team \in Team /\ s.desc \in Desc
  BY DEF Name, Team, Desc

LEMMA InitIInv == Init => IInv
<1> SUFFICES ASSUME Init PROVE IInv
  OBVIOUS
<1>1. PICK s \in Start : lead = s.lead /\ files = s.files
  BY DEF Init
<1>2. LeadInv
  BY <1>1, StartAssumption DEF Init, LeadInv
<1>3. FilesInv
  <2>1. \A k \in DOMAIN files : /\ files[k].of = 0 /\ files[k].dir = "project"
                                /\ ~ files[k].near /\ ~ files[k].sidecar
    BY <1>1, StartAssumption
  <2>2. files \in Seq(Transcript)
    BY <1>1, StartAssumption
  <2> QED  BY <2>1, <2>2 DEF FilesInv, TrueOf, OneEach
<1>4. ResultsInv
  BY DEF Init, ResultsInv
<1>5. view \in {Idle} \cup 0 .. Len(lead)
  BY DEF Init
<1> QED  BY <1>2, <1>3, <1>4, <1>5 DEF IInv

(* A call more in the lead's transcript leaves the transcripts and results *)
(* true.                                                                   *)
LEMMA CallKeeps ==
    ASSUME IInv, NEW e \in LeadCall, lead' = Append(lead, e),
           e.op = "spawn" => e.at = Len(lead) + 1,
           now' \in Nat, UNCHANGED <<files, results, view>>
    PROVE  IInv'
<1>1. /\ lead \in Seq(LeadCall) /\ Len(lead) \in Nat /\ lead' \in Seq(LeadCall)
      /\ Len(lead') = Len(lead) + 1 /\ lead'[Len(lead) + 1] = e
      /\ \A i \in 1 .. Len(lead) : lead'[i] = lead[i]
      /\ DOMAIN lead = 1 .. Len(lead) /\ DOMAIN lead' = 1 .. Len(lead) + 1
  BY AppendProperties, LenProperties DEF IInv, LeadInv
<1>2. \A i \in 1 .. Len(lead) + 1 : i = Len(lead) + 1 \/ i \in 1 .. Len(lead)
  BY <1>1
<1>3. LeadInv'
  BY <1>1, <1>2 DEF IInv, LeadInv
<1>4. \A i \in 1 .. Len(lead) : i \in 1 .. Len(lead')
  BY <1>1
<1>5. FilesInv'
  <2>1. \A k \in DOMAIN files : TrueOf(files[k], lead)'
    BY <1>1, <1>4 DEF IInv, FilesInv, TrueOf
  <2> QED  BY <2>1 DEF IInv, FilesInv
<1>6. ResultsInv'
  <2>1. \A n \in DOMAIN results : Names(results[n], lead)'
    BY <1>1, <1>4 DEF IInv, ResultsInv, Names
  <2> QED  BY <2>1 DEF IInv, ResultsInv
<1>7. view' \in {Idle} \cup 0 .. Len(lead')
  BY <1>1 DEF IInv
<1> QED  BY <1>3, <1>5, <1>6, <1>7 DEF IInv

(* A call of the chunks read is one of the lead's, at its place.           *)
LEMMA SpawnCallIs ==
    ASSUME IInv, NEW n \in 0 .. Len(lead), NEW c \in SpawnCalls(n)
    PROVE  /\ c.at \in 1 .. n /\ c.at \in 1 .. Len(lead) /\ c = lead[c.at] /\ c.op = "spawn"
           /\ c \in LeadCall /\ c.name \in Name /\ c.team \in Team /\ c.desc \in Desc
<1>1. lead \in Seq(LeadCall) /\ Len(lead) \in Nat /\ DOMAIN lead = 1 .. Len(lead)
  BY LenProperties DEF IInv, LeadInv
<1>2. PICK i \in 1 .. n : c = lead[i] /\ c.op = "spawn"
  BY DEF SpawnCalls
<1>3. i \in 1 .. Len(lead)
  BY <1>1
<1>4. c.at = i /\ c \in LeadCall
  BY <1>1, <1>2, <1>3, ElementOfSeq DEF IInv, LeadInv
<1>5. c.name \in Name /\ c.team \in Team /\ c.desc \in Desc
  BY <1>2, <1>4 DEF LeadCall
<1> QED  BY <1>2, <1>3, <1>4, <1>5

(* What has been seen in the transcripts before holds of more of them.     *)
LEMMA StartKeeps ==
    ASSUME IInv, NEW c \in SpawnCalls(Len(lead)), NEW dir \in {"subagents", "project"},
           NEW s \in {None, c.desc}, StartTranscript(c, dir, s)
    PROVE  IInv'
<1> DEFINE f == [of |-> c.at, dir |-> dir, sidecar |-> FALSE, summary |-> s,
                 member |-> Member(c.name, c.team), near |-> TRUE, updates |-> <<>>]
<1>1. /\ files' = Append(files, f) /\ UNCHANGED <<lead, results, now, view>>
      /\ \A k \in DOMAIN files : files[k].of # c.at
      /\ dir = "project" => IsTeamTask(c) /\ s = None
      /\ s # None => IsTeamTask(c)
  BY DEF StartTranscript, shown
<1>2. /\ files \in Seq(Transcript) /\ Len(files) \in Nat /\ DOMAIN files = 1 .. Len(files)
      /\ \A k \in DOMAIN files : TrueOf(files[k], lead)
  BY LenProperties DEF IInv, FilesInv
<1>3. Len(lead) \in 0 .. Len(lead)
  BY LenProperties DEF IInv, LeadInv
<1>4. /\ c.at \in 1 .. Len(lead) /\ c = lead[c.at] /\ c.op = "spawn"
      /\ c.name \in Name /\ c.team \in Team /\ c.desc \in Desc
  BY <1>3, SpawnCallIs
<1>5. f \in Transcript
  BY <1>3, <1>4 DEF Transcript, Member
<1>6. TrueOf(f, lead)
  BY <1>1, <1>4 DEF TrueOf
<1>7. f.of = c.at
  OBVIOUS
<1> HIDE DEF f
<1>8. /\ files' \in Seq(Transcript) /\ DOMAIN files' = 1 .. Len(files) + 1
      /\ files'[Len(files) + 1] = f
      /\ \A k \in 1 .. Len(files) : files'[k] = files[k]
  BY <1>1, <1>2, <1>5, AppendProperties
<1>9. \A k \in 1 .. Len(files) + 1 : k = Len(files) + 1 \/ k \in 1 .. Len(files)
  BY <1>2
<1>10. \A k \in DOMAIN files' : TrueOf(files'[k], lead)
  BY <1>2, <1>6, <1>8, <1>9
<1>11. OneEach(files')
  BY <1>1, <1>2, <1>7, <1>8, <1>9 DEF IInv, FilesInv, OneEach
<1> QED
  BY <1>1, <1>8, <1>10, <1>11 DEF IInv, LeadInv, FilesInv, ResultsInv

(* A sidecar is written for a transcript of the subagents directory, and a *)
(* teammate's update in a transcript, which stay the calls' they were.     *)
LEMMA ChangeKeeps ==
    ASSUME IInv, NEW k \in DOMAIN files, NEW f \in Transcript,
           files' = [files EXCEPT ![k] = f], UNCHANGED <<lead, results, view>>, now' \in Nat,
           f.of = files[k].of, TrueOf(f, lead)
    PROVE  IInv'
<1>1. files \in Seq(Transcript) /\ \A l \in DOMAIN files : TrueOf(files[l], lead)
  BY DEF IInv, FilesInv
<1>2. /\ files' \in Seq(Transcript) /\ DOMAIN files' = DOMAIN files
      /\ \A l \in DOMAIN files : files'[l] = IF l = k THEN f ELSE files[l]
  BY <1>1, ExceptSeq
<1>3. \A l \in DOMAIN files' : TrueOf(files'[l], lead) /\ files'[l].of = files[l].of
  BY <1>1, <1>2
<1>4. OneEach(files')
  BY <1>2, <1>3 DEF IInv, FilesInv, OneEach
<1> QED
  BY <1>2, <1>3, <1>4 DEF IInv, LeadInv, FilesInv, ResultsInv

LEMMA SidecarKeeps ==
    ASSUME IInv, NEW k \in DOMAIN files, WriteSidecar(k)
    PROVE  IInv'
<1> DEFINE f == [files[k] EXCEPT !.sidecar = TRUE]
<1>1. /\ files' = [files EXCEPT ![k] = f] /\ UNCHANGED <<lead, results, now, view>>
      /\ files[k].dir = "subagents"
  BY DEF WriteSidecar, shown
<1>2. files[k] \in Transcript /\ TrueOf(files[k], lead)
  BY ElementOfSeq DEF IInv, FilesInv
<1>3. /\ f \in Transcript /\ f.of = files[k].of /\ f.dir = files[k].dir
      /\ f.member = files[k].member /\ f.summary = files[k].summary /\ f.near = files[k].near
  BY <1>2 DEF Transcript
<1> HIDE DEF f
<1>4. files[k].of # 0
  BY <1>1, <1>2 DEF TrueOf
<1>5. TrueOf(f, lead)
  BY <1>1, <1>2, <1>3, <1>4 DEF TrueOf
<1>6. now' \in Nat
  BY <1>1 DEF IInv, LeadInv
<1> QED  BY <1>1, <1>3, <1>5, <1>6, ChangeKeeps

LEMMA UpdateIs ==
    ASSUME IInv, NEW up \in Update
    PROVE  up \in TaskUpdate
<1>1. Len(lead) \in Nat /\ now \in Nat
  BY LenProperties DEF IInv, LeadInv
<1> QED  BY <1>1 DEF Update, TaskUpdate

LEMMA WorkerKeeps ==
    ASSUME IInv, NEW k \in DOMAIN files, NEW up \in Update, WorkerUpdate(k, up)
    PROVE  IInv'
<1> DEFINE f == [files[k] EXCEPT !.updates = Append(@, up)]
<1>1. files' = [files EXCEPT ![k] = f] /\ UNCHANGED <<lead, results, view>> /\ files[k].of # 0
  BY DEF WorkerUpdate, shown
<1>2. files[k] \in Transcript /\ TrueOf(files[k], lead)
  BY ElementOfSeq DEF IInv, FilesInv
<1>3. up \in TaskUpdate
  BY UpdateIs
<1>4. /\ f \in Transcript /\ f.of = files[k].of /\ f.dir = files[k].dir
      /\ f.member = files[k].member /\ f.summary = files[k].summary /\ f.near = files[k].near
      /\ f.sidecar = files[k].sidecar
  <2>1. Append(files[k].updates, up) \in Seq(TaskUpdate)
    BY <1>2, <1>3, AppendProperties DEF Transcript
  <2> QED  BY <1>2, <2>1 DEF Transcript
<1> HIDE DEF f
<1>5. TrueOf(f, lead)
  BY <1>1, <1>2, <1>4 DEF TrueOf
<1>6. now' \in Nat
  BY DEF WorkerUpdate, Stamped, IInv, LeadInv
<1> QED  BY <1>1, <1>4, <1>5, <1>6, ChangeKeeps

LEMMA ResultKeeps ==
    ASSUME IInv, NEW c \in SpawnCalls(Len(lead)), ToolResult(c)
    PROVE  IInv'
<1> DEFINE r == [call |-> c.at,
                 agent |-> IF IsTeamTask(c) THEN Member(c.name, c.team) ELSE Hex(c.at)]
<1>1. /\ results' = Append(results, r) /\ UNCHANGED <<lead, files, now, view>>
      /\ \A n \in DOMAIN results : results[n].call # c.at
  BY DEF ToolResult, shown
<1>2. Len(lead) \in 0 .. Len(lead)
  BY LenProperties DEF IInv, LeadInv
<1>3. /\ c.at \in 1 .. Len(lead) /\ c = lead[c.at] /\ c.op = "spawn"
      /\ c.name \in Name /\ c.team \in Team
  BY <1>2, SpawnCallIs
<1>4. r \in [call : Nat, agent : AgentId]
  BY <1>2, <1>3 DEF AgentId, Member, Hex
<1>5. Names(r, lead) /\ r.call = c.at
  BY <1>3 DEF Names
<1> HIDE DEF r
<1>6. /\ results \in Seq([call : Nat, agent : AgentId]) /\ Len(results) \in Nat
      /\ DOMAIN results = 1 .. Len(results)
  BY LenProperties DEF IInv, ResultsInv
<1>7. /\ results' \in Seq([call : Nat, agent : AgentId])
      /\ DOMAIN results' = 1 .. Len(results) + 1 /\ results'[Len(results) + 1] = r
      /\ \A n \in 1 .. Len(results) : results'[n] = results[n]
  BY <1>1, <1>4, <1>6, AppendProperties
<1>8. \A n \in 1 .. Len(results) + 1 : n = Len(results) + 1 \/ n \in 1 .. Len(results)
  BY <1>6
<1>9. \A n \in DOMAIN results' : Names(results'[n], lead)
  BY <1>5, <1>6, <1>7, <1>8 DEF IInv, ResultsInv
<1>10. \A n, m \in DOMAIN results' : results'[n].call = results'[m].call => n = m
  BY <1>1, <1>5, <1>6, <1>7, <1>8 DEF IInv, ResultsInv
<1> QED
  BY <1>1, <1>7, <1>9, <1>10 DEF IInv, LeadInv, FilesInv, ResultsInv

LEMMA NextIInv == IInv /\ [Next]_vars => IInv'
<1> SUFFICES ASSUME IInv, [Next]_vars PROVE IInv'
  OBVIOUS
<1>1. ASSUME NEW s \in Spawn, SpawnCall(s) PROVE IInv'
  <2>1. PICK e : e = [op |-> "spawn", at |-> Len(lead) + 1,
                      name |-> s.name, team |-> s.team, desc |-> s.desc]
    OBVIOUS
  <2>2. e \in LeadCall /\ e.at = Len(lead) + 1
    BY <2>1, SpawnKinds, LenProperties DEF LeadCall, IInv, LeadInv
  <2>3. lead' = Append(lead, e) /\ UNCHANGED <<files, results, view, now>>
    BY <1>1, <2>1 DEF SpawnCall, Call, shown
  <2> QED  BY <2>2, <2>3, CallKeeps DEF IInv, LeadInv
<1>2. ASSUME NEW e \in LeadCall, e.op # "spawn", TeamOp(e) PROVE IInv'
  BY <1>2, CallKeeps DEF TeamOp, Call, shown, IInv, LeadInv
<1>3. ASSUME NEW t \in {s.team : s \in Spawn} \ {None}, TeamCreate(t) PROVE IInv'
  BY <1>2, <1>3 DEF TeamCreate, LeadCall, Team
<1>4. ASSUME TaskCreate PROVE IInv'
  BY <1>2, <1>4 DEF TaskCreate, LeadCall
<1>5. ASSUME TeamDelete PROVE IInv'
  BY <1>2, <1>5 DEF TeamDelete, LeadCall
<1>6. ASSUME NEW up \in Update, LeadUpdate(up) PROVE IInv'
  <2>1. [op |-> "update", up |-> up] \in LeadCall
    BY UpdateIs DEF LeadCall
  <2>2. now' \in Nat
    BY <1>6 DEF LeadUpdate, Stamped, IInv, LeadInv
  <2> QED  BY <1>6, <2>1, <2>2, CallKeeps DEF LeadUpdate, Call, shown
<1>7. ASSUME ReadChunks PROVE IInv'
  BY <1>7, LenProperties DEF ReadChunks, written, IInv, LeadInv, FilesInv, ResultsInv
<1>8. ASSUME Link PROVE IInv'
  BY <1>8 DEF Link, written, IInv, LeadInv, FilesInv, ResultsInv
<1>9. ASSUME UNCHANGED vars PROVE IInv'
  BY <1>9 DEF vars, written, shown, IInv, LeadInv, FilesInv, ResultsInv
<1> QED
  BY <1>1, <1>3, <1>4, <1>5, <1>6, <1>7, <1>8, <1>9,
     StartKeeps, SidecarKeeps, WorkerKeeps, ResultKeeps DEF Next

----------------------------------------------------------------------------
(* Ranks. *)

LEMMA RankIs ==
    ASSUME NEW S \in SUBSET Nat, IsFiniteSet(S)
    PROVE  /\ Cardinality(S) \in Nat
           /\ \A x \in S : Rank(S, x) \in 1 .. Cardinality(S)
           /\ \A x, y \in S : x < y => Rank(S, x) < Rank(S, y)
           /\ \A x, y \in S : Rank(S, x) = Rank(S, y) => x = y
<1> DEFINE B(x) == {y \in S : y <= x}
<1>1. Cardinality(S) \in Nat
  BY FS_CardinalityType
<1>2. \A x \in S : IsFiniteSet(B(x)) /\ Cardinality(B(x)) \in Nat /\ Cardinality(B(x)) <= Cardinality(S)
  BY FS_Subset, FS_CardinalityType
<1>3. \A x \in S : Rank(S, x) = Cardinality(B(x))
  BY DEF Rank
<1>4. \A x \in S : x \in B(x)
  OBVIOUS
<1>5. ASSUME NEW x \in S PROVE Rank(S, x) \in 1 .. Cardinality(S)
  <2>1. Cardinality(B(x)) # 0
    BY <1>2, <1>4, FS_EmptySet
  <2> QED  BY <1>1, <1>2, <1>3, <2>1
<1>6. ASSUME NEW x \in S, NEW y \in S, x < y PROVE Rank(S, x) < Rank(S, y)
  <2>0. \A z \in S : z \in Nat /\ (z <= x => z <= y) /\ ~ (y <= x) /\ y <= y
    BY <1>6
  <2>1. B(x) \subseteq B(y) /\ y \notin B(x) /\ y \in B(y)
    BY <2>0
  <2> HIDE DEF B
  <2>2. B(x) # B(y)
    BY <2>1
  <2>3. Cardinality(B(x)) <= Cardinality(B(y)) /\ Cardinality(B(x)) # Cardinality(B(y))
    BY <1>2, <2>1, <2>2, FS_Subset
  <2> QED  BY <1>2, <1>3, <2>3
<1>7. ASSUME NEW x \in S, NEW y \in S, Rank(S, x) = Rank(S, y) PROVE x = y
  <2>1. x \in Nat /\ y \in Nat /\ ~ (Rank(S, x) < Rank(S, y)) /\ ~ (Rank(S, y) < Rank(S, x))
    BY <1>1, <1>5, <1>7
  <2> QED  BY <1>6, <2>1
<1> QED  BY <1>1, <1>5, <1>6, <1>7

(* Every place is the rank of something: an injection into as many.        *)
LEMMA RankOnto ==
    ASSUME NEW S \in SUBSET Nat, IsFiniteSet(S), NEW i \in 1 .. Cardinality(S)
    PROVE  \E x \in S : Rank(S, x) = i
<1> DEFINE f == [x \in S |-> Rank(S, x)]
           T == 1 .. Cardinality(S)
<1>1. Cardinality(S) \in Nat /\ f \in Injection(S, T)
  BY RankIs DEF Injection, IsInjective
<1>2. IsFiniteSet(T) /\ Cardinality(T) = Cardinality(S)
  BY <1>1, FS_Interval
<1>3. f \in Surjection(S, T)
  BY <1>1, <1>2, FS_Injection
<1> QED  BY <1>3 DEF Surjection

LEMMA InOrderIs ==
    ASSUME NEW S \in SUBSET Nat, IsFiniteSet(S)
    PROVE  LET q == InOrder(S) IN
           /\ DOMAIN q = 1 .. Cardinality(S) /\ Cardinality(S) \in Nat
           /\ \A i \in DOMAIN q : q[i] \in S /\ Rank(S, q[i]) = i
           /\ \A i, j \in DOMAIN q : q[i] = q[j] => i = j
           /\ \A i, j \in DOMAIN q : i < j => q[i] < q[j]
           /\ \A k \in S : \E i \in DOMAIN q : q[i] = k
<1> DEFINE q == InOrder(S)
<1>1. q = [i \in 1 .. Cardinality(S) |-> CHOOSE k \in S : Rank(S, k) = i]
  BY DEF InOrder
<1>2. \A i \in DOMAIN q : q[i] \in S /\ Rank(S, q[i]) = i
  BY <1>1, RankOnto
<1>3. DOMAIN q = 1 .. Cardinality(S) /\ Cardinality(S) \in Nat
  BY <1>1, RankIs
<1> HIDE DEF q
<1>4. ASSUME NEW i \in DOMAIN q, NEW j \in DOMAIN q, i < j PROVE q[i] < q[j]
  <2>1. PICK x, y \in S : x = q[i] /\ y = q[j] /\ Rank(S, x) = i /\ Rank(S, y) = j
    BY <1>2
  <2>2. i \in Nat /\ j \in Nat /\ ~ (j < i) /\ i # j
    BY <1>3, <1>4
  <2>3. ~ (y < x) /\ x # y
    BY <2>1, <2>2, RankIs
  <2>4. x \in Nat /\ y \in Nat
    OBVIOUS
  <2> QED  BY <2>1, <2>3, <2>4
<1>5. ASSUME NEW k \in S PROVE \E i \in DOMAIN q : q[i] = k
  <2>1. PICK i \in DOMAIN q : i = Rank(S, k)
    BY <1>3, RankIs
  <2>2. q[i] = k
    BY <1>2, <2>1, RankIs
  <2> QED  BY <2>2
<1> QED  BY <1>2, <1>3, <1>4, <1>5 DEF q

----------------------------------------------------------------------------
(* Discovery. *)

ProcessType(n) ==
    [file : 1 .. n, id : AgentId, parent : Nat, summary : Desc \cup {None},
     updates : Seq(TaskUpdate)]

(* Process p shows transcript f.                                           *)
Shows(p, f) ==
    \/ /\ f.dir = "subagents" /\ p.id = Hex(f.of)
       /\ p.parent = IF f.sidecar THEN f.of ELSE 0
       /\ p.summary = f.summary
    \/ /\ f.dir = "project" /\ f.near /\ p.id = f.member
       /\ p.parent = 0 /\ p.summary = None

(* Processes of different transcripts, no two teammates' of one teammate.  *)
ProcsOk(procs, trs) ==
    /\ procs \in Seq(ProcessType(Len(trs)))
    /\ \A i \in DOMAIN procs : Shows(procs[i], trs[procs[i].file])
    /\ \A i, j \in DOMAIN procs :
          \/ procs[i].file = procs[j].file
          \/ /\ trs[procs[i].file].dir = "project" /\ trs[procs[j].file].dir = "project"
             /\ procs[i].id = procs[j].id
          => i = j

(* All transcripts of the subagents directory are there, in their order.   *)
AllThere(procs, trs) ==
    /\ \A k \in DOMAIN trs : trs[k].dir = "subagents" =>
          \E i \in DOMAIN procs : procs[i].file = k
    /\ \A i, j \in DOMAIN procs :
          /\ trs[procs[i].file].dir = "subagents" /\ trs[procs[j].file].dir = "subagents"
          /\ i < j
          => procs[i].file < procs[j].file

LEMMA FilesFinite ==
    ASSUME NEW trs \in Seq(Transcript), NEW S \in SUBSET DOMAIN trs
    PROVE  S \in SUBSET Nat /\ IsFiniteSet(S) /\ DOMAIN trs = 1 .. Len(trs)
<1>1. DOMAIN trs = 1 .. Len(trs) /\ Len(trs) \in Nat
  BY LenProperties
<1>2. IsFiniteSet(1 .. Len(trs)) /\ 1 .. Len(trs) \subseteq Nat
  BY <1>1, FS_Interval
<1> QED  BY <1>1, <1>2, FS_Subset

LEMMA FunctionIsSeq ==
    ASSUME NEW n \in Nat, NEW S, NEW q \in [1 .. n -> S]
    PROVE  q \in Seq(S) /\ Len(q) = n /\ DOMAIN q = 1 .. n
OBVIOUS

LEMMA ProcIs ==
    ASSUME NEW trs \in Seq(Transcript), NEW k \in 1 .. Len(trs),
           NEW id \in AgentId, NEW parent \in Nat, NEW summary \in Desc \cup {None}
    PROVE  LET p == Proc(trs, k, id, parent, summary) IN
           /\ p \in ProcessType(Len(trs))
           /\ p.file = k /\ p.id = id /\ p.parent = parent /\ p.summary = summary
<1>1. trs[k] \in Transcript
  BY ElementOfSeq
<1>2. trs[k].updates \in Seq(TaskUpdate)
  BY <1>1 DEF Transcript
<1> QED  BY <1>2 DEF Proc, ProcessType

(* The subagents directory.                                                *)
LEMMA SubagentsIs ==
    ASSUME NEW trs \in Seq(Transcript)
    PROVE  LET procs == DiscoverSubagents(trs) IN
           /\ procs \in Seq(ProcessType(Len(trs)))
           /\ \A i \in DOMAIN procs : /\ trs[procs[i].file].dir = "subagents"
                                      /\ Shows(procs[i], trs[procs[i].file])
           /\ \A i, j \in DOMAIN procs : procs[i].file = procs[j].file => i = j
           /\ AllThere(procs, trs)
<1> DEFINE S == {k \in DOMAIN trs : trs[k].dir = "subagents"}
           n == Cardinality(S)
           p(k) == Proc(trs, k, Hex(trs[k].of), IF trs[k].sidecar THEN trs[k].of ELSE 0, trs[k].summary)
<1>1. PICK q : q = InOrder(S)
  OBVIOUS
<1>2. /\ DOMAIN q = 1 .. n /\ n \in Nat
      /\ \A i \in 1 .. n : q[i] \in S
      /\ \A i, j \in 1 .. n : q[i] = q[j] => i = j
      /\ \A i, j \in 1 .. n : i < j => q[i] < q[j]
      /\ \A k \in S : \E i \in 1 .. n : q[i] = k
  <2>1. S \in SUBSET Nat /\ IsFiniteSet(S)
    BY FilesFinite
  <2> HIDE DEF S
  <2> QED  BY <1>1, <2>1, InOrderIs
<1>3. PICK procs : procs = DiscoverSubagents(trs)
  OBVIOUS
<1>4. procs = [i \in 1 .. n |-> p(q[i])]
  BY <1>1, <1>2, <1>3 DEF DiscoverSubagents
<1>5. \A k \in S : /\ p(k) \in ProcessType(Len(trs)) /\ p(k).file = k
                   /\ trs[k].dir = "subagents" /\ Shows(p(k), trs[k])
  <2> SUFFICES ASSUME NEW k \in S
               PROVE  /\ p(k) \in ProcessType(Len(trs)) /\ p(k).file = k
                      /\ trs[k].dir = "subagents" /\ Shows(p(k), trs[k])
    OBVIOUS
  <2>1. k \in 1 .. Len(trs) /\ trs[k] \in Transcript /\ trs[k].dir = "subagents"
    BY FilesFinite, ElementOfSeq
  <2>2. /\ Hex(trs[k].of) \in AgentId /\ trs[k].summary \in Desc \cup {None}
        /\ (IF trs[k].sidecar THEN trs[k].of ELSE 0) \in Nat
    BY <2>1 DEF Transcript, AgentId, Hex
  <2> QED  BY <2>1, <2>2, ProcIs DEF Shows
<1>0. \A k \in DOMAIN trs : trs[k].dir = "subagents" => k \in S
  OBVIOUS
<1> HIDE DEF p, S, n
<1>6. procs \in Seq(ProcessType(Len(trs))) /\ DOMAIN procs = 1 .. n
  <2>1. procs \in [1 .. n -> ProcessType(Len(trs))]
    BY <1>2, <1>4, <1>5
  <2> QED  BY <1>2, <2>1, FunctionIsSeq
<1>7. \A i \in 1 .. n : procs[i] = p(q[i]) /\ q[i] \in S
  BY <1>2, <1>4
<1>8. AllThere(procs, trs)
  <2>1. \A k \in S : \E i \in DOMAIN procs : procs[i].file = k
    BY <1>2, <1>5, <1>6, <1>7
  <2>2. \A i, j \in DOMAIN procs : i < j => procs[i].file < procs[j].file
    BY <1>2, <1>5, <1>6, <1>7
  <2> QED  BY <1>0, <2>1, <2>2 DEF AllThere
<1> QED  BY <1>2, <1>3, <1>5, <1>6, <1>7, <1>8

(* The teammates' sessions.                                                *)
LEMMA TeamSessionsIs ==
    ASSUME NEW trs \in Seq(Transcript), NEW calls
    PROVE  LET procs == DiscoverTeamSessions(trs, calls) IN
           /\ procs \in Seq(ProcessType(Len(trs)))
           /\ \A i \in DOMAIN procs : /\ trs[procs[i].file].dir = "project"
                                      /\ Shows(procs[i], trs[procs[i].file])
           /\ \A i, j \in DOMAIN procs :
                 procs[i].file = procs[j].file \/ procs[i].id = procs[j].id => i = j
<1> DEFINE W == Wanted(trs, calls)
           S == {k \in W : \A l \in W : trs[l].member = trs[k].member => l <= k}
           n == Cardinality(S)
           p(k) == Proc(trs, k, trs[k].member, 0, None)
<1>1. PICK q : q = InOrder(S)
  OBVIOUS
<1>2. W \subseteq DOMAIN trs /\ \A k \in W : trs[k].dir = "project" /\ trs[k].near
  BY DEF Wanted
<1>3. /\ DOMAIN q = 1 .. n /\ n \in Nat
      /\ \A i \in 1 .. n : q[i] \in S
      /\ \A i, j \in 1 .. n : q[i] = q[j] => i = j
  <2>1. S \in SUBSET Nat /\ IsFiniteSet(S)
    BY <1>2, FilesFinite
  <2> HIDE DEF S
  <2> QED  BY <1>1, <2>1, InOrderIs
<1>4. PICK procs : procs = DiscoverTeamSessions(trs, calls)
  OBVIOUS
<1>5. procs = [i \in 1 .. n |-> p(q[i])]
  BY <1>1, <1>3, <1>4 DEF DiscoverTeamSessions
<1>6. \A k \in S : /\ p(k) \in ProcessType(Len(trs)) /\ p(k).file = k
                   /\ p(k).id = trs[k].member
                   /\ trs[k].dir = "project" /\ Shows(p(k), trs[k])
  <2> SUFFICES ASSUME NEW k \in S
               PROVE  /\ p(k) \in ProcessType(Len(trs)) /\ p(k).file = k
                      /\ p(k).id = trs[k].member
                      /\ trs[k].dir = "project" /\ Shows(p(k), trs[k])
    OBVIOUS
  <2>1. k \in 1 .. Len(trs) /\ trs[k] \in Transcript /\ trs[k].dir = "project" /\ trs[k].near
    BY <1>2, FilesFinite, ElementOfSeq
  <2>2. trs[k].member \in AgentId
    BY <2>1 DEF Transcript, AgentId
  <2> QED  BY <2>1, <2>2, ProcIs DEF Shows
<1>7. \A k, l \in S : trs[k].member = trs[l].member => k = l
  <2>1. \A k, l \in DOMAIN trs : k <= l /\ l <= k => k = l
    BY FilesFinite
  <2> QED  BY <1>2, <2>1
<1> HIDE DEF p, W, S, n
<1>8. procs \in Seq(ProcessType(Len(trs))) /\ DOMAIN procs = 1 .. n
  <2>1. procs \in [1 .. n -> ProcessType(Len(trs))]
    BY <1>3, <1>5, <1>6
  <2> QED  BY <1>3, <2>1, FunctionIsSeq
<1>9. \A i \in 1 .. n : procs[i] = p(q[i]) /\ q[i] \in S
  BY <1>3, <1>5
<1> QED  BY <1>3, <1>4, <1>6, <1>7, <1>8, <1>9

LEMMA DiscoverIs ==
    ASSUME NEW trs \in Seq(Transcript), NEW calls
    PROVE  ProcsOk(Discover(trs, calls), trs) /\ AllThere(Discover(trs, calls), trs)
<1>1. PICK a, b : a = DiscoverSubagents(trs) /\ b = DiscoverTeamSessions(trs, calls)
  OBVIOUS
<1>2. PICK procs : procs = Discover(trs, calls)
  OBVIOUS
<1> DEFINE T == ProcessType(Len(trs))
<1>3. /\ a \in Seq(T)
      /\ \A i \in DOMAIN a : /\ trs[a[i].file].dir = "subagents"
                             /\ Shows(a[i], trs[a[i].file])
      /\ \A i, j \in DOMAIN a : a[i].file = a[j].file => i = j
      /\ AllThere(a, trs)
  BY <1>1, SubagentsIs
<1>4. /\ b \in Seq(T)
      /\ \A i \in DOMAIN b : /\ trs[b[i].file].dir = "project"
                             /\ Shows(b[i], trs[b[i].file])
      /\ \A i, j \in DOMAIN b : b[i].file = b[j].file \/ b[i].id = b[j].id => i = j
  BY <1>1, TeamSessionsIs
<1> HIDE DEF T
<1>5. PICK n, m \in Nat : /\ n = Len(a) /\ DOMAIN a = 1 .. n
                          /\ m = Len(b) /\ DOMAIN b = 1 .. m
  BY <1>3, <1>4, LenProperties
<1>6. /\ procs \in Seq(T) /\ DOMAIN procs = 1 .. n + m
      /\ \A i \in 1 .. n + m : procs[i] = IF i <= n THEN a[i] ELSE b[i - n]
  BY <1>1, <1>2, <1>3, <1>4, <1>5, ConcatProperties, LenProperties DEF Discover
<1>7. \A i \in 1 .. n + m : \/ i \in 1 .. n /\ procs[i] = a[i]
                            \/ i - n \in 1 .. m /\ i \notin 1 .. n /\ procs[i] = b[i - n]
  BY <1>5, <1>6
<1>8. \A i, j \in 1 .. n + m : i - n = j - n => i = j
  BY <1>5
<1>9. \A i \in 1 .. n + m :
         /\ Shows(procs[i], trs[procs[i].file])
         /\ i \in 1 .. n => trs[procs[i].file].dir = "subagents"
         /\ i \notin 1 .. n => trs[procs[i].file].dir = "project"
  <2>1. ASSUME NEW i \in 1 .. n + m, i \in 1 .. n, procs[i] = a[i]
        PROVE  Shows(procs[i], trs[procs[i].file]) /\ trs[procs[i].file].dir = "subagents"
    BY <1>3, <1>5, <2>1
  <2>2. ASSUME NEW i \in 1 .. n + m, i - n \in 1 .. m, procs[i] = b[i - n]
        PROVE  Shows(procs[i], trs[procs[i].file]) /\ trs[procs[i].file].dir = "project"
    BY <1>4, <1>5, <2>2
  <2> QED  BY <1>7, <2>1, <2>2
<1>10. ASSUME NEW i \in 1 .. n + m, NEW j \in 1 .. n + m,
              \/ procs[i].file = procs[j].file
              \/ /\ trs[procs[i].file].dir = "project" /\ trs[procs[j].file].dir = "project"
                 /\ procs[i].id = procs[j].id
       PROVE  i = j
  <2>1. CASE i \in 1 .. n
    <3>1. trs[procs[i].file].dir # "project"
      BY <1>9, <2>1
    <3>2. procs[i].file = procs[j].file /\ trs[procs[j].file].dir # "project"
      BY <1>10, <3>1
    <3>3. j \in 1 .. n
      BY <1>9, <3>2
    <3>4. procs[i] = a[i] /\ procs[j] = a[j]
      BY <1>7, <2>1, <3>3
    <3> QED  BY <1>3, <1>5, <2>1, <3>2, <3>3, <3>4
  <2>2. CASE i \notin 1 .. n
    <3>1. trs[procs[i].file].dir # "subagents"
      BY <1>9, <2>2
    <3>2. trs[procs[j].file].dir # "subagents"
      BY <1>10, <3>1
    <3>3. j \notin 1 .. n
      BY <1>9, <3>2
    <3>4. PICK x, y \in 1 .. m : x = i - n /\ y = j - n
      BY <1>7, <2>2, <3>3
    <3>5. procs[i] = b[x] /\ procs[j] = b[y]
      BY <1>7, <2>2, <3>3, <3>4
    <3>6. x = y
      BY <1>4, <1>5, <1>10, <3>5
    <3> QED  BY <1>8, <3>4, <3>6
  <2> QED  BY <2>1, <2>2
<1>11. AllThere(procs, trs)
  <2>1. ASSUME NEW k \in DOMAIN trs, trs[k].dir = "subagents"
        PROVE  \E i \in 1 .. n + m : procs[i].file = k
    <3>1. PICK i \in 1 .. n : a[i].file = k
      BY <1>3, <1>5, <2>1 DEF AllThere
    <3>2. i \in 1 .. n + m /\ i <= n
      OBVIOUS
    <3> QED  BY <1>6, <3>1, <3>2
  <2>2. ASSUME NEW i \in 1 .. n + m, NEW j \in 1 .. n + m, i < j,
               trs[procs[i].file].dir = "subagents", trs[procs[j].file].dir = "subagents"
        PROVE  procs[i].file < procs[j].file
    <3>1. i \in 1 .. n /\ j \in 1 .. n
      BY <1>9, <2>2
    <3>2. procs[i] = a[i] /\ procs[j] = a[j]
      BY <1>7, <3>1
    <3> QED  BY <1>3, <1>5, <2>2, <3>1, <3>2 DEF AllThere
  <2> QED  BY <1>6, <2>1, <2>2 DEF AllThere
<1> QED  BY <1>2, <1>6, <1>9, <1>10, <1>11 DEF ProcsOk, T

----------------------------------------------------------------------------
(* The phases of the linking. *)

CallsOk(calls, n) ==
    /\ \A c \in calls : c.at \in 1 .. n
    /\ \A c, e \in calls : c.at = e.at => c = e

Ids(calls) == {c.at : c \in calls}

OneToOne(links) == \A l, m \in links : l[1] = m[1] \/ l[2] = m[2] => l = m

(* What phase 0, 1, 2 and 3 say of a link they make.                       *)
BySidecar(l, procs)         == procs[l[1]].parent = l[2]
ByResult(l, procs, res)     == l[2] = AgentToToolID(res, procs[l[1]].id)
BySummary(l, procs, calls)  ==
    \E c \in calls : /\ c.at = l[2] /\ IsTeamTask(c)
                     /\ c.desc # None /\ c.desc = procs[l[1]].summary
ByPosition(l, procs, calls) ==
    /\ procs[l[1]].parent = 0 /\ ~ IsMember(procs[l[1]].id) /\ procs[l[1]].summary = None
    /\ \E c \in calls : c.at = l[2] /\ ~ IsTeamTask(c)

LEMMA PairsOneToOne ==
    ASSUME NEW P \in SUBSET Nat, NEW C \in SUBSET Nat, IsFiniteSet(P), IsFiniteSet(C)
    PROVE  Pairs(P, C) \subseteq P \X C /\ OneToOne(Pairs(P, C))
<1>1. \A l \in Pairs(P, C) : /\ l \in P \X C /\ l[1] \in P /\ l[2] \in C /\ l = <<l[1], l[2]>>
                             /\ Rank(P, l[1]) = Rank(C, l[2])
  BY DEF Pairs
<1>2. ASSUME NEW l \in Pairs(P, C), NEW m \in Pairs(P, C), l[1] = m[1] \/ l[2] = m[2]
      PROVE  l = m
  <2>1. Rank(P, l[1]) = Rank(P, m[1]) /\ Rank(C, l[2]) = Rank(C, m[2])
    BY <1>1, <1>2
  <2>2. l[1] = m[1]
    BY <1>1, <2>1, RankIs
  <2>3. l[2] = m[2]
    BY <1>1, <2>1, RankIs
  <2> QED  BY <1>1, <2>2, <2>3
<1> QED  BY <1>1, <1>2 DEF OneToOne

(* A phase adds links between what the earlier ones left.                  *)
LEMMA PhaseOneToOne ==
    ASSUME NEW a, NEW b, OneToOne(a), OneToOne(b),
           \A l \in b : l[1] \notin Procs(a) /\ l[2] \notin Tools(a)
    PROVE  OneToOne(a \cup b)
<1>1. \A l \in a : l[1] \in Procs(a) /\ l[2] \in Tools(a)
  BY DEF Procs, Tools
<1> QED  BY <1>1 DEF OneToOne

LEMMA SidecarLinksAre ==
    ASSUME NEW n \in Nat, NEW procs \in Seq(ProcessType(n)), NEW ids
    PROVE  LET links == SidecarLinks(procs, ids) IN
           /\ OneToOne(links)
           /\ \A l \in links : l \in (DOMAIN procs) \X ids /\ BySidecar(l, procs)
<1> DEFINE links == SidecarLinks(procs, ids)
<1>1. DOMAIN procs = 1 .. Len(procs) /\ Len(procs) \in Nat
  BY LenProperties
<1>2. \A l \in links : /\ l \in (DOMAIN procs) \X ids /\ l = <<l[1], l[2]>>
                       /\ l[1] \in DOMAIN procs /\ l[2] \in ids
                       /\ procs[l[1]].parent = l[2]
                       /\ \A j \in 1 .. l[1] - 1 : procs[j].parent # l[2]
  BY DEF SidecarLinks
<1> HIDE DEF links
<1>3. ASSUME NEW l \in links, NEW m \in links, l[1] = m[1] \/ l[2] = m[2]
      PROVE  l = m
  <2>1. l[2] = m[2]
    BY <1>2, <1>3
  <2>2. l[1] \notin 1 .. m[1] - 1 /\ m[1] \notin 1 .. l[1] - 1
    BY <1>2, <2>1
  <2>3. \A i, j \in 1 .. Len(procs) : i \notin 1 .. j - 1 /\ j \notin 1 .. i - 1 => i = j
    BY <1>1
  <2>4. l[1] = m[1]
    BY <1>1, <1>2, <2>2, <2>3
  <2> QED  BY <1>2, <2>1, <2>4
<1> QED  BY <1>2, <1>3 DEF OneToOne, BySidecar, links

LEMMA ResultLinksAre ==
    ASSUME NEW n \in Nat, NEW procs \in Seq(ProcessType(n)), NEW ids, NEW res, NEW before
    PROVE  LET links == ResultLinks(procs, ids, res, before) IN
           /\ OneToOne(links)
           /\ \A l \in links : /\ l \in (DOMAIN procs) \X ids /\ ByResult(l, procs, res)
                               /\ l[1] \notin Procs(before) /\ l[2] \notin Tools(before)
<1> DEFINE links   == ResultLinks(procs, ids, res, before)
           free    == (DOMAIN procs) \ Procs(before)
           tool(i) == AgentToToolID(res, procs[i].id)
<1>1. DOMAIN procs = 1 .. Len(procs) /\ Len(procs) \in Nat
  BY LenProperties
<1>2. \A l \in links : /\ l \in free \X (ids \ Tools(before)) /\ l = <<l[1], l[2]>>
                       /\ l[1] \in free /\ l[2] \in ids \ Tools(before)
                       /\ l[2] = tool(l[1])
                       /\ \A j \in free : j < l[1] => tool(j) # l[2]
  BY DEF ResultLinks
<1>3. \A i \in free : i \in 1 .. Len(procs)
  BY <1>1
<1>4. \A l \in links : /\ l \in (DOMAIN procs) \X ids /\ l[2] = tool(l[1])
                       /\ l[1] \notin Procs(before) /\ l[2] \notin Tools(before)
  BY <1>2
<1> HIDE DEF links, free, tool
<1>5. ASSUME NEW l \in links, NEW m \in links, l[1] = m[1] \/ l[2] = m[2]
      PROVE  l = m
  <2>1. l[2] = m[2]
    BY <1>2, <1>5
  <2>2. ~ (l[1] < m[1]) /\ ~ (m[1] < l[1])
    BY <1>2, <2>1
  <2>3. l[1] \in 1 .. Len(procs) /\ m[1] \in 1 .. Len(procs)
    BY <1>2, <1>3
  <2>4. l[1] = m[1]
    BY <1>1, <2>2, <2>3
  <2> QED  BY <1>2, <2>1, <2>4
<1> QED  BY <1>4, <1>5 DEF OneToOne, ByResult, links, tool

LEMMA PlacesFinite ==
    ASSUME NEW n \in Nat, NEW S \in SUBSET (1 .. n)
    PROVE  S \in SUBSET Nat /\ IsFiniteSet(S)
<1>1. IsFiniteSet(1 .. n) /\ 1 .. n \subseteq Nat
  BY FS_Interval
<1> QED  BY <1>1, FS_Subset

LEMMA PositionalLinksAre ==
    ASSUME NEW n \in Nat, NEW procs \in Seq(ProcessType(n)),
           NEW k \in Nat, NEW calls, CallsOk(calls, k), NEW before
    PROVE  LET links == PositionalLinks(procs, calls, before) IN
           /\ OneToOne(links)
           /\ \A l \in links : /\ l \in (DOMAIN procs) \X Ids(calls) /\ ByPosition(l, procs, calls)
                               /\ l[1] \notin Procs(before) /\ l[2] \notin Tools(before)
<1> DEFINE open == {i \in (DOMAIN procs) \ Procs(before) :
                       /\ procs[i].parent = 0
                       /\ ~ IsMember(procs[i].id) /\ procs[i].summary = None}
           some == {c \in calls : ~ IsTeamTask(c) /\ c.at \notin Tools(before)}
           asks == {c.at : c \in some}
           links == PositionalLinks(procs, calls, before)
<1>1. links = Pairs(open, asks)
  BY DEF PositionalLinks
<1>2. open \in SUBSET (1 .. Len(procs)) /\ Len(procs) \in Nat
  BY LenProperties
<1>3. asks \in SUBSET (1 .. k)
  BY DEF CallsOk
<1>4. \A i \in open : /\ i \in DOMAIN procs /\ i \notin Procs(before)
                      /\ procs[i].parent = 0
                      /\ ~ IsMember(procs[i].id) /\ procs[i].summary = None
  OBVIOUS
<1>5. \A x \in asks : /\ x \in Ids(calls) /\ x \notin Tools(before)
                      /\ \E c \in calls : c.at = x /\ ~ IsTeamTask(c)
  BY DEF Ids
<1> HIDE DEF open, asks, links
<1>6. links \subseteq open \X asks /\ OneToOne(links)
  BY <1>1, <1>2, <1>3, PlacesFinite, PairsOneToOne
<1>7. \A l \in links : l[1] \in open /\ l[2] \in asks /\ l = <<l[1], l[2]>>
  BY <1>6
<1>8. \A l \in links : l \in (DOMAIN procs) \X Ids(calls)
  BY <1>4, <1>5, <1>7
<1> QED  BY <1>4, <1>5, <1>6, <1>7, <1>8 DEF ByPosition, links

LEMMA SummaryLinksAre ==
    ASSUME NEW n \in Nat, NEW procs \in Seq(ProcessType(n)),
           NEW k \in Nat, NEW calls, CallsOk(calls, k), NEW before
    PROVE  LET links == SummaryLinks(procs, calls, before) IN
           /\ OneToOne(links)
           /\ \A l \in links : /\ l \in (DOMAIN procs) \X Ids(calls) /\ BySummary(l, procs, calls)
                               /\ l[1] \notin Procs(before) /\ l[2] \notin Tools(before)
<1> DEFINE open(d) == {i \in (DOMAIN procs) \ Procs(before) : procs[i].summary = d}
           some(d) == {c \in calls : /\ IsTeamTask(c) /\ c.desc = d
                                     /\ c.at \notin Tools(before)}
           asks(d) == {c.at : c \in some(d)}
           D == {c.desc : c \in calls} \ {None}
           links == SummaryLinks(procs, calls, before)
<1>1. links = UNION {Pairs(open(d), asks(d)) : d \in D}
  BY DEF SummaryLinks
<1>2. Len(procs) \in Nat /\ \A d : open(d) \in SUBSET (1 .. Len(procs))
  BY LenProperties
<1>3. \A d : asks(d) \in SUBSET (1 .. k)
  BY DEF CallsOk
<1>4. \A d : \A i \in open(d) : /\ i \in DOMAIN procs /\ i \notin Procs(before)
                                /\ procs[i].summary = d
  OBVIOUS
<1>5. \A d : \A x \in asks(d) : /\ x \in Ids(calls) /\ x \notin Tools(before)
                                /\ \E c \in calls : c.at = x /\ IsTeamTask(c) /\ c.desc = d
  BY DEF Ids
<1>6. \A d \in D : d # None
  OBVIOUS
<1> HIDE DEF open, asks, links, D
<1>7. \A d : Pairs(open(d), asks(d)) \subseteq open(d) \X asks(d) /\ OneToOne(Pairs(open(d), asks(d)))
  <2> SUFFICES ASSUME NEW d
               PROVE  /\ Pairs(open(d), asks(d)) \subseteq open(d) \X asks(d)
                      /\ OneToOne(Pairs(open(d), asks(d)))
    OBVIOUS
  <2> QED  BY <1>2, <1>3, PlacesFinite, PairsOneToOne
<1>8. \A l \in links : \E d \in D : /\ l \in Pairs(open(d), asks(d))
                                    /\ l[1] \in open(d) /\ l[2] \in asks(d) /\ l = <<l[1], l[2]>>
  BY <1>1, <1>7
<1>9. \A l \in links : /\ l \in (DOMAIN procs) \X Ids(calls) /\ BySummary(l, procs, calls)
                       /\ l[1] \notin Procs(before) /\ l[2] \notin Tools(before)
  <2> SUFFICES ASSUME NEW l \in links
               PROVE  /\ l \in (DOMAIN procs) \X Ids(calls) /\ BySummary(l, procs, calls)
                      /\ l[1] \notin Procs(before) /\ l[2] \notin Tools(before)
    OBVIOUS
  <2>1. PICK d \in D : l[1] \in open(d) /\ l[2] \in asks(d) /\ l = <<l[1], l[2]>>
    BY <1>8
  <2> QED  BY <1>4, <1>5, <1>6, <2>1 DEF BySummary
<1>10. ASSUME NEW l \in links, NEW m \in links, l[1] = m[1] \/ l[2] = m[2]
       PROVE  l = m
  <2>1. PICK d \in D : l \in Pairs(open(d), asks(d)) /\ l[1] \in open(d) /\ l[2] \in asks(d)
    BY <1>8
  <2>2. PICK e \in D : m \in Pairs(open(e), asks(e)) /\ m[1] \in open(e) /\ m[2] \in asks(e)
    BY <1>8
  <2>3. d = e
    <3>1. CASE l[1] = m[1]
      BY <1>4, <2>1, <2>2, <3>1
    <3>2. CASE l[2] = m[2]
      <4>1. PICK c \in calls : c.at = l[2] /\ c.desc = d
        BY <1>5, <2>1
      <4>2. PICK b \in calls : b.at = m[2] /\ b.desc = e
        BY <1>5, <2>2
      <4> QED  BY <3>2, <4>1, <4>2 DEF CallsOk
    <3> QED  BY <1>10, <3>1, <3>2
  <2> QED  BY <1>7, <1>10, <2>1, <2>2, <2>3 DEF OneToOne
<1> QED  BY <1>9, <1>10 DEF OneToOne, links

(* All phases: what is linked and how, and what is linked for sure.        *)
First(procs, calls) == SidecarLinks(procs, Ids(calls))

(* The links of phases 0 to 2.                                             *)
Early(procs, calls, res) ==
    LET l1 == First(procs, calls)
                 \cup ResultLinks(procs, Ids(calls), res, First(procs, calls))
    IN  l1 \cup SummaryLinks(procs, calls, l1)

LEMMA LinksAre ==
    ASSUME NEW n \in Nat, NEW procs \in Seq(ProcessType(n)),
           NEW k \in Nat, NEW calls, CallsOk(calls, k), NEW res
    PROVE  LET links == Links(procs, calls, res) IN
           /\ OneToOne(links)
           /\ \A l \in links : /\ l \in (DOMAIN procs) \X Ids(calls)
                               /\ \/ BySidecar(l, procs) \/ ByResult(l, procs, res)
                                  \/ BySummary(l, procs, calls) \/ ByPosition(l, procs, calls)
           /\ First(procs, calls) \cup ResultLinks(procs, Ids(calls), res, First(procs, calls))
                 \subseteq Early(procs, calls, res)
           /\ links = Early(procs, calls, res)
                         \cup PositionalLinks(procs, calls, Early(procs, calls, res))
           /\ \A l \in Early(procs, calls, res) :
                 BySidecar(l, procs) \/ ByResult(l, procs, res) \/ BySummary(l, procs, calls)
<1> DEFINE ids == Ids(calls)
           l0 == SidecarLinks(procs, ids)
           r1 == ResultLinks(procs, ids, res, l0)
           l1 == l0 \cup r1
           r2 == SummaryLinks(procs, calls, l1)
           l2 == l1 \cup r2
           r3 == PositionalLinks(procs, calls, l2)
<1>1. Links(procs, calls, res) = l2 \cup r3
  BY DEF Links, Ids
<1>2. OneToOne(l0) /\ \A l \in l0 : l \in (DOMAIN procs) \X ids /\ BySidecar(l, procs)
  BY SidecarLinksAre
<1>3. /\ OneToOne(r1)
      /\ \A l \in r1 : /\ l \in (DOMAIN procs) \X ids /\ ByResult(l, procs, res)
                       /\ l[1] \notin Procs(l0) /\ l[2] \notin Tools(l0)
  BY ResultLinksAre
<1>4. /\ OneToOne(r2)
      /\ \A l \in r2 : /\ l \in (DOMAIN procs) \X ids /\ BySummary(l, procs, calls)
                       /\ l[1] \notin Procs(l1) /\ l[2] \notin Tools(l1)
  BY SummaryLinksAre
<1>5. /\ OneToOne(r3)
      /\ \A l \in r3 : /\ l \in (DOMAIN procs) \X ids /\ ByPosition(l, procs, calls)
                       /\ l[1] \notin Procs(l2) /\ l[2] \notin Tools(l2)
  BY PositionalLinksAre
<1> HIDE DEF l0, r1, r2, r3, ids
<1>6. OneToOne(l1)
  BY <1>2, <1>3, PhaseOneToOne
<1> HIDE DEF l1
<1>7. OneToOne(l2)
  BY <1>4, <1>6, PhaseOneToOne
<1> HIDE DEF l2
<1>8. OneToOne(l2 \cup r3)
  BY <1>5, <1>7, PhaseOneToOne
<1>9. Early(procs, calls, res) = l2 /\ First(procs, calls) = l0
  BY DEF Early, First, l0, r1, l1, r2, l2, ids
<1>10. First(procs, calls) \cup ResultLinks(procs, Ids(calls), res, First(procs, calls)) \subseteq l2
  BY <1>9 DEF r1, l1, l2, ids
<1>11. \A l \in l2 : l \in l0 \/ l \in r1 \/ l \in r2
  BY DEF l1, l2
<1>12. \A l \in l2 : BySidecar(l, procs) \/ ByResult(l, procs, res) \/ BySummary(l, procs, calls)
  BY <1>2, <1>3, <1>4, <1>11
<1>13. Links(procs, calls, res) = l2 \cup PositionalLinks(procs, calls, l2)
  BY <1>1 DEF r3
<1>14. \A l \in l2 \cup r3 :
          /\ l \in (DOMAIN procs) \X ids
          /\ \/ BySidecar(l, procs) \/ ByResult(l, procs, res)
             \/ BySummary(l, procs, calls) \/ ByPosition(l, procs, calls)
  <2>1. \A l : l \in l2 \cup r3 => l \in l0 \/ l \in r1 \/ l \in r2 \/ l \in r3
    BY <1>11
  <2> QED  BY <1>2, <1>3, <1>4, <1>5, <2>1
<1> QED  BY <1>1, <1>8, <1>9, <1>10, <1>12, <1>13, <1>14, Zenon DEF ids

(* A linked process has the call it is linked with for a parent; any other *)
(* the parent it had.                                                      *)
LEMMA LinkedAre ==
    ASSUME NEW n \in Nat, NEW procs \in Seq(ProcessType(n)),
           NEW k \in Nat, NEW calls, CallsOk(calls, k), NEW res
    PROVE  LET q     == LinkSubagents(procs, calls, res)
               links == Links(procs, calls, res)
           IN  /\ DOMAIN q = DOMAIN procs
               /\ \A i \in DOMAIN procs :
                     /\ q[i].file = procs[i].file
                     /\ \/ <<i, q[i].parent>> \in links
                        \/ i \notin Procs(links) /\ q[i].parent = procs[i].parent
<1> DEFINE links == Links(procs, calls, res)
<1>1. \A l \in links : l \in (DOMAIN procs) \X Ids(calls)
  BY LinksAre
<1> HIDE DEF links
<1>2. ASSUME NEW i \in DOMAIN procs
      PROVE  LET x == Linked(procs[i], i, calls, links) IN
             /\ x.file = procs[i].file
             /\ \/ <<i, x.parent>> \in links
                \/ i \notin Procs(links) /\ x.parent = procs[i].parent
  <2>1. procs[i] \in ProcessType(n)
    BY LenProperties, ElementOfSeq
  <2>2. PICK p \in ProcessType(n) : p = procs[i]
    BY <2>1
  <2> DEFINE parents == {c \in calls : IF i \in Procs(links) THEN <<i, c.at>> \in links
                                                             ELSE c.at = p.parent}
  <2>3. CASE parents = {}
    <3>1. Linked(p, i, calls, links) = p
      BY <2>3 DEF Linked
    <3>2. i \notin Procs(links)
      <4>1. SUFFICES ASSUME i \in Procs(links) PROVE FALSE
        OBVIOUS
      <4>2. PICK l \in links : l[1] = i
        BY <4>1 DEF Procs
      <4>3. l = <<i, l[2]>> /\ l[2] \in Ids(calls)
        BY <1>1, <4>2
      <4>4. PICK c \in calls : c.at = l[2]
        BY <4>3 DEF Ids
      <4>5. c \in parents
        BY <4>1, <4>2, <4>3, <4>4
      <4> QED  BY <2>3, <4>5
    <3> QED  BY <2>2, <3>1, <3>2
  <2>4. CASE parents # {}
    <3>1. PICK c : c = CHOOSE x \in parents : TRUE
      OBVIOUS
    <3>2. c \in parents
      BY <2>4, <3>1
    <3>3. Linked(p, i, calls, links) =
             [p EXCEPT !.parent = c.at,
                       !.id = IF IsTeamTask(c) THEN Member(c.name, c.team) ELSE @]
      BY <2>4, <3>1 DEF Linked
    <3>4. Linked(p, i, calls, links).parent = c.at /\ Linked(p, i, calls, links).file = p.file
      BY <3>3 DEF ProcessType
    <3>5. IF i \in Procs(links) THEN <<i, c.at>> \in links ELSE c.at = p.parent
      BY <3>2
    <3> QED  BY <2>2, <3>4, <3>5
  <2> QED  BY <2>3, <2>4
<1>3. LinkSubagents(procs, calls, res) = [i \in DOMAIN procs |-> Linked(procs[i], i, calls, links)]
  BY DEF LinkSubagents, links
<1> QED  BY <1>2, <1>3 DEF links

(* The call a result names for an id.                                      *)
LEMMA ToolIs ==
    ASSUME ResultsInv, NEW id
    PROVE  LET x == AgentToToolID(results, id) IN
           x # 0 => \E n \in DOMAIN results : results[n].agent = id /\ results[n].call = x
<1> DEFINE named == {n \in DOMAIN results : results[n].agent = id}
           top   == CHOOSE n \in named : \A m \in named : m <= n
<1>1. AgentToToolID(results, id) = IF named = {} THEN 0 ELSE results[top].call
  BY DEF AgentToToolID
<1>2. Len(results) \in Nat /\ DOMAIN results = 1 .. Len(results)
  BY LenProperties DEF ResultsInv
<1>3. CASE named # {}
  <2>1. named \in SUBSET Nat /\ IsFiniteSet(named)
    BY <1>2, PlacesFinite
  <2>2. Cardinality(named) \in Nat /\ Cardinality(named) # 0
    BY <1>3, <2>1, FS_EmptySet, FS_CardinalityType
  <2> HIDE DEF named
  <2>3. PICK n \in named : Rank(named, n) = Cardinality(named)
    BY <2>1, <2>2, RankOnto
  <2>4. \A m \in named : m <= n
    <3>1. \A m \in named : Rank(named, m) <= Cardinality(named) /\ m \in Nat
      BY <2>1, RankIs
    <3>2. \A m \in named : n < m => Cardinality(named) < Rank(named, m)
      BY <2>1, <2>3, RankIs
    <3>3. \A m \in named : Rank(named, m) \in Nat
      BY <2>1, RankIs
    <3> QED  BY <2>1, <2>2, <3>1, <3>2, <3>3
  <2>5. top \in named
    BY <2>3, <2>4
  <2> QED  BY <1>1, <1>3, <2>5 DEF named
<1> QED  BY <1>1, <1>3

----------------------------------------------------------------------------
(* What a refresh shows. *)

Calls      == SpawnCalls(view)
Discovered == Discover(files, Calls)
Made       == Links(Discovered, Calls, results)

LEMMA CallsAre ==
    ASSUME IInv, Reading
    PROVE  /\ CallsOk(Calls, view) /\ view \in Nat /\ view <= Len(lead) /\ Len(lead) \in Nat
           /\ \A c \in Calls : /\ c.at \in 1 .. view /\ c.at \in 1 .. Len(lead)
                               /\ c = lead[c.at] /\ c.op = "spawn"
           /\ \A x \in 1 .. view : lead[x].op = "spawn" => x \in Ids(Calls)
           /\ 0 \notin Ids(Calls)
<1>1. view \in 0 .. Len(lead) /\ Len(lead) \in Nat
  BY LenProperties DEF IInv, LeadInv, Reading
<1>2. \A c \in Calls : /\ c.at \in 1 .. view /\ c.at \in 1 .. Len(lead)
                       /\ c = lead[c.at] /\ c.op = "spawn"
  BY <1>1, SpawnCallIs DEF Calls
<1>3. ASSUME NEW x \in 1 .. view, lead[x].op = "spawn" PROVE x \in Ids(Calls)
  <2>1. x \in 1 .. Len(lead) /\ lead[x] \in Calls
    BY <1>1, <1>3 DEF Calls, SpawnCalls
  <2>2. lead[x].at = x
    BY <1>3, <2>1, LenProperties DEF IInv, LeadInv
  <2> QED  BY <2>1, <2>2 DEF Ids
<1>4. CallsOk(Calls, view)
  BY <1>2 DEF CallsOk
<1>5. 0 \notin Ids(Calls)
  BY <1>1, <1>2 DEF Ids
<1> QED  BY <1>1, <1>2, <1>3, <1>4, <1>5

(* A process discovered is of a call of this run.                          *)
LEMMA ProcessesAre ==
    ASSUME IInv
    PROVE  /\ Discovered \in Seq(ProcessType(Len(files))) /\ Len(files) \in Nat
           /\ ProcsOk(Discovered, files) /\ AllThere(Discovered, files)
           /\ \A i \in DOMAIN Discovered :
                 LET p == Discovered[i]
                     f == files[p.file]
                 IN  /\ p.file \in DOMAIN files /\ Shows(p, f) /\ TrueOf(f, lead)
                     /\ f.of # 0 /\ f.of \in 1 .. Len(lead) /\ lead[f.of].op = "spawn"
                     /\ f.dir \in {"subagents", "project"} /\ f.sidecar \in BOOLEAN
           /\ \A i, j \in DOMAIN Discovered :
                 files[Discovered[i].file].of = files[Discovered[j].file].of => i = j
<1>1. files \in Seq(Transcript) /\ Len(files) \in Nat /\ DOMAIN files = 1 .. Len(files)
  BY LenProperties DEF IInv, FilesInv
<1>2. PICK ps : ps = Discovered
  OBVIOUS
<1>3. ProcsOk(ps, files) /\ AllThere(ps, files)
  BY <1>1, <1>2, DiscoverIs DEF Discovered
<1>4. ps \in Seq(ProcessType(Len(files)))
  BY <1>3 DEF ProcsOk
<1>5. ASSUME NEW i \in DOMAIN ps
      PROVE  LET p == ps[i]
                 f == files[p.file]
             IN  /\ p.file \in DOMAIN files /\ Shows(p, f) /\ TrueOf(f, lead)
                 /\ f.of # 0 /\ f.of \in 1 .. Len(lead) /\ lead[f.of].op = "spawn"
                 /\ f.dir \in {"subagents", "project"} /\ f.sidecar \in BOOLEAN
  <2>1. ps[i] \in ProcessType(Len(files))
    BY <1>4, LenProperties, ElementOfSeq
  <2>2. PICK k \in 1 .. Len(files) : k = ps[i].file
    BY <2>1 DEF ProcessType
  <2>3. Shows(ps[i], files[k]) /\ TrueOf(files[k], lead) /\ files[k] \in Transcript
    BY <1>1, <1>3, <2>2, ElementOfSeq DEF ProcsOk, IInv, FilesInv
  <2>4. files[k].of # 0
    BY <2>3 DEF Shows, TrueOf
  <2>5. files[k].of \in 1 .. Len(lead) /\ lead[files[k].of].op = "spawn"
    BY <2>3, <2>4 DEF TrueOf
  <2>6. files[k].dir \in {"subagents", "project"} /\ files[k].sidecar \in BOOLEAN
    BY <2>3 DEF Transcript
  <2> QED  BY <1>1, <2>2, <2>3, <2>4, <2>5, <2>6
<1>6. ASSUME NEW i \in DOMAIN ps, NEW j \in DOMAIN ps,
             files[ps[i].file].of = files[ps[j].file].of
      PROVE  i = j
  <2>1. ps[i].file = ps[j].file
    BY <1>5, <1>6 DEF IInv, FilesInv, OneEach
  <2> QED  BY <1>3, <2>1 DEF ProcsOk
<1> QED  BY <1>1, <1>2, <1>3, <1>4, <1>5, <1>6

(* The parent a process has before the linking is the one its sidecar      *)
(* names, and if the chunks have that call it is linked with it.           *)
LEMMA SidecarWins ==
    ASSUME IInv, Reading, NEW i \in DOMAIN Discovered
    PROVE  LET f == files[Discovered[i].file] IN
           /\ Discovered[i].parent = IF f.sidecar THEN f.of ELSE 0
           /\ f.sidecar /\ f.of \in Ids(Calls) => <<i, f.of>> \in First(Discovered, Calls)
<1>1. PICK f, ps : ps = Discovered /\ f = files[ps[i].file]
  OBVIOUS
<1>2. ps[i].parent = IF f.sidecar THEN f.of ELSE 0
  BY <1>1, ProcessesAre DEF Shows, TrueOf
<1>3. ASSUME f.sidecar, f.of \in Ids(Calls) PROVE <<i, f.of>> \in SidecarLinks(ps, Ids(Calls))
  <2>1. DOMAIN ps = 1 .. Len(ps) /\ Len(ps) \in Nat
    BY <1>1, ProcessesAre, LenProperties
  <2>2. \A j \in 1 .. i - 1 : j \in DOMAIN ps /\ j # i
    BY <1>1, <2>1
  <2>3. ASSUME NEW j \in 1 .. i - 1, ps[j].parent = f.of PROVE FALSE
    <3>1. PICK g : g = files[ps[j].file]
      OBVIOUS
    <3>2. ps[j].parent = IF g.sidecar THEN g.of ELSE 0
      BY <1>1, <2>2, <3>1, ProcessesAre DEF Shows, TrueOf
    <3>3. f.of # 0
      BY <1>1, ProcessesAre
    <3>4. g.of = f.of
      BY <2>3, <3>2, <3>3
    <3> QED  BY <1>1, <2>2, <3>1, <3>4, ProcessesAre
  <2> QED  BY <1>1, <1>2, <1>3, <2>3 DEF SidecarLinks
<1> QED  BY <1>1, <1>2, <1>3 DEF First

(* What a refresh under way returns.                                       *)
LEMMA ShownAre ==
    ASSUME IInv, Reading
    PROVE  LET procs == ProcsOf(view) IN
           /\ DOMAIN procs = DOMAIN Discovered
           /\ OneToOne(Made)
           /\ \A l \in Made : /\ l \in (DOMAIN Discovered) \X Ids(Calls)
                              /\ \/ BySidecar(l, Discovered) \/ ByResult(l, Discovered, results)
                                 \/ BySummary(l, Discovered, Calls)
                                 \/ ByPosition(l, Discovered, Calls)
           /\ First(Discovered, Calls)
                 \cup ResultLinks(Discovered, Ids(Calls), results, First(Discovered, Calls))
                    \subseteq Made
           /\ \A i \in DOMAIN Discovered : \A x : <<i, x>> \in Made => procs[i].parent = x
           /\ \A i \in DOMAIN Discovered :
                 /\ procs[i].file = Discovered[i].file
                 /\ \/ <<i, procs[i].parent>> \in Made /\ procs[i].parent \in Ids(Calls)
                    \/ i \notin Procs(Made) /\ procs[i].parent = Discovered[i].parent
<1>1. ProcsOf(view) = LinkSubagents(Discovered, Calls, results)
  BY DEF ProcsOf, Discovered, Calls
<1>2. /\ Discovered \in Seq(ProcessType(Len(files))) /\ Len(files) \in Nat
      /\ CallsOk(Calls, view) /\ view \in Nat
  BY ProcessesAre, CallsAre
<1>3. \A l \in Made : l[2] \in Ids(Calls)
  BY <1>2, LinksAre DEF Made
<1>4. OneToOne(Made)
  BY <1>2, LinksAre DEF Made
<1>5. First(Discovered, Calls)
         \cup ResultLinks(Discovered, Ids(Calls), results, First(Discovered, Calls))
            \subseteq Made
  BY <1>2, LinksAre DEF Made
<1>6. PICK procs : procs = ProcsOf(view)
  OBVIOUS
<1>7. \A i \in DOMAIN Discovered :
         <<i, procs[i].parent>> \in Made \/ i \notin Procs(Made)
  BY <1>1, <1>2, <1>6, LinkedAre DEF Made
<1>8. ASSUME NEW i \in DOMAIN Discovered, NEW x, <<i, x>> \in Made
      PROVE  procs[i].parent = x
  <2>1. PICK l \in Made : l = <<i, x>> /\ l[1] = i /\ l[2] = x
    BY <1>8
  <2>2. <<i, procs[i].parent>> \in Made
    BY <1>7, <2>1 DEF Procs
  <2>3. <<i, x>> = <<i, procs[i].parent>>
    BY <1>4, <1>8, <2>2 DEF OneToOne
  <2> QED  BY <2>3
<1> QED  BY <1>1, <1>2, <1>3, <1>4, <1>5, <1>6, <1>8, LinksAre, LinkedAre DEF Made

(* A process whose sidecar names a call the chunks have gets that call, and *)
(* one without a link has no call the chunks have.                          *)
LEMMA UnlinkedIs ==
    ASSUME IInv, Reading, NEW i \in DOMAIN Discovered, i \notin Procs(Made)
    PROVE  LET f == files[Discovered[i].file] IN
           Discovered[i].parent # 0 =>
               Discovered[i].parent = f.of /\ f.sidecar /\ f.of \notin Ids(Calls)
<1>1. PICK f : f = files[Discovered[i].file]
  OBVIOUS
<1>2. /\ Discovered[i].parent = IF f.sidecar THEN f.of ELSE 0
      /\ f.sidecar /\ f.of \in Ids(Calls) => <<i, f.of>> \in First(Discovered, Calls)
  BY <1>1, SidecarWins
<1>3. <<i, f.of>> \notin Made
  BY DEF Procs
<1> QED  BY <1>1, <1>2, <1>3, ShownAre

LEMMA ShowsOneParent == IInv => OneParent
<1> SUFFICES ASSUME IInv, Reading, NEW i \in DOMAIN ProcsOf(view), NEW j \in DOMAIN ProcsOf(view),
                    ProcsOf(view)[i].parent # 0,
                    ProcsOf(view)[i].parent = ProcsOf(view)[j].parent
             PROVE  i = j
  BY DEF OneParent
<1>1. PICK q, ps : q = ProcsOf(view) /\ ps = Discovered
  OBVIOUS
<1>2. /\ i \in DOMAIN ps /\ j \in DOMAIN ps /\ OneToOne(Made)
      /\ \A k \in DOMAIN ps : \/ <<k, q[k].parent>> \in Made /\ q[k].parent \in Ids(Calls)
                              \/ k \notin Procs(Made) /\ q[k].parent = ps[k].parent
  BY <1>1, ShownAre
<1>3. q[i].parent # 0 /\ q[i].parent = q[j].parent
  BY <1>1
<1>4. \A k \in DOMAIN ps : k \notin Procs(Made) /\ ps[k].parent # 0 =>
         ps[k].parent = files[ps[k].file].of /\ ps[k].parent \notin Ids(Calls)
  BY <1>1, UnlinkedIs
<1>5. CASE <<i, q[i].parent>> \in Made /\ <<j, q[j].parent>> \in Made
  BY <1>2, <1>3, <1>5 DEF OneToOne
<1>6. CASE /\ i \notin Procs(Made) /\ q[i].parent = ps[i].parent
           /\ j \notin Procs(Made) /\ q[j].parent = ps[j].parent
  <2>1. files[ps[i].file].of = files[ps[j].file].of
    BY <1>2, <1>3, <1>4, <1>6
  <2> QED  BY <1>1, <1>2, <2>1, ProcessesAre
<1>7. ASSUME NEW k \in {i, j}, k \notin Procs(Made), q[k].parent = ps[k].parent
      PROVE  q[i].parent \notin Ids(Calls)
  BY <1>2, <1>3, <1>4, <1>7
<1> QED  BY <1>2, <1>3, <1>5, <1>6, <1>7

(* A result names the agent of one call.                                   *)
LEMMA ResultsSay ==
    ASSUME IInv, Reading, NEW i \in DOMAIN Discovered
    PROVE  LET f == files[Discovered[i].file]
               x == AgentToToolID(results, Discovered[i].id)
           IN  x # 0 => /\ IsTeamTask(lead[x]) <=> IsTeamTask(lead[f.of])
                        /\ f.dir = "subagents" => x = f.of
<1>1. PICK p, f, x : p = Discovered[i] /\ f = files[p.file] /\ x = AgentToToolID(results, p.id)
  OBVIOUS
<1>2. ResultsInv
  BY DEF IInv
<1>3. SUFFICES ASSUME x # 0
               PROVE  /\ IsTeamTask(lead[x]) <=> IsTeamTask(lead[f.of])
                      /\ f.dir = "subagents" => x = f.of
  BY <1>1
<1>4. PICK n \in DOMAIN results : results[n].agent = p.id /\ results[n].call = x
  BY <1>1, <1>2, <1>3, ToolIs
<1>5. p.id = IF IsTeamTask(lead[x]) THEN Member(lead[x].name, lead[x].team) ELSE Hex(x)
  BY <1>2, <1>4 DEF ResultsInv, Names
<1>6. Shows(p, f) /\ TrueOf(f, lead) /\ f.of # 0
  BY <1>1, ProcessesAre
<1>7. \A a, b, c : Hex(a) # Member(b, c)
  <2> SUFFICES ASSUME NEW a, NEW b, NEW c, Hex(a) = Member(b, c) PROVE FALSE
    OBVIOUS
  <2>1. DOMAIN Hex(a) = {"agent"}
    BY DEF Hex
  <2>2. DOMAIN Member(b, c) = {"name", "team"}
    BY DEF Member
  <2> QED  BY <2>1, <2>2
<1>8. \A a, b : Hex(a) = Hex(b) => a = b
  <2>1. \A a : Hex(a).agent = a
    BY DEF Hex
  <2> QED  BY <2>1
<1>9. CASE f.dir = "subagents" /\ p.id = Hex(f.of)
  BY <1>5, <1>7, <1>8, <1>9
<1>10. CASE f.dir = "project" /\ p.id = f.member
  <2>1. f.member = Member(lead[f.of].name, lead[f.of].team) /\ IsTeamTask(lead[f.of])
    BY <1>6, <1>10 DEF TrueOf
  <2>2. IsTeamTask(lead[x])
    BY <1>5, <1>7, <1>10, <2>1
  <2> QED  BY <1>10, <2>1, <2>2
<1> QED  BY <1>6, <1>9, <1>10 DEF Shows

LEMMA ShowsTeamsApart == IInv => TeamsApart
<1> SUFFICES ASSUME IInv, Reading, NEW i \in DOMAIN ProcsOf(view)
             PROVE  LET p == ProcsOf(view)[i]
                        f == files[p.file]
                    IN  p.parent # 0 /\ (IsTeamTask(lead[f.of]) => f.summary # None \/ f.dir = "project")
                           => (IsTeamTask(lead[p.parent]) <=> IsTeamTask(lead[f.of]))
  BY DEF TeamsApart, Range
<1>1. PICK q, ps, p, f, x : /\ q = ProcsOf(view) /\ ps = Discovered
                            /\ p = ps[i] /\ f = files[q[i].file] /\ x = q[i].parent
  OBVIOUS
<1>2. /\ i \in DOMAIN ps /\ f = files[p.file]
      /\ <<i, x>> \in Made \/ (i \notin Procs(Made) /\ x = p.parent)
  <2>1. i \in DOMAIN ps /\ q[i].file = p.file
    BY <1>1, ShownAre
  <2>2. <<i, x>> \in Made \/ (i \notin Procs(Made) /\ x = p.parent)
    BY <1>1, <2>1, ShownAre
  <2> QED  BY <1>1, <2>1, <2>2
<1>3. SUFFICES ASSUME x # 0, IsTeamTask(lead[f.of]) => f.summary # None \/ f.dir = "project"
               PROVE  IsTeamTask(lead[x]) <=> IsTeamTask(lead[f.of])
  BY <1>1
<1>4. Shows(p, f) /\ TrueOf(f, lead) /\ f.of # 0
  BY <1>1, <1>2, ProcessesAre
<1>5. p.parent = IF f.sidecar THEN f.of ELSE 0
  BY <1>1, <1>2, SidecarWins
<1>6. CASE p.parent = x
  BY <1>3, <1>5, <1>6
<1>7. CASE <<i, x>> \in Made
  <2>1. PICK l : l = <<i, x>> /\ l[1] = i /\ l[2] = x
    <3>1. <<i, x>>[1] = i /\ <<i, x>>[2] = x
      OBVIOUS
    <3> QED  BY <3>1, Zenon
  <2>2. \/ BySidecar(l, ps) \/ ByResult(l, ps, results)
        \/ BySummary(l, ps, Calls) \/ ByPosition(l, ps, Calls)
    BY <1>1, <1>7, <2>1, ShownAre
  <2>3. CASE BySidecar(l, ps)
    BY <1>1, <1>6, <2>1, <2>3 DEF BySidecar
  <2>4. CASE ByResult(l, ps, results)
    BY <1>1, <1>2, <1>3, <2>1, <2>4, ResultsSay DEF ByResult
  <2>5. CASE BySummary(l, ps, Calls)
    <3>1. PICK c \in Calls : c.at = x /\ IsTeamTask(c) /\ c.desc # None /\ c.desc = p.summary
      BY <1>1, <2>1, <2>5 DEF BySummary
    <3>2. c = lead[x]
      BY <3>1, CallsAre
    <3>3. f.summary # None
      BY <1>4, <3>1 DEF Shows
    <3>4. IsTeamTask(lead[f.of])
      BY <1>4, <3>3 DEF TrueOf
    <3> QED  BY <3>1, <3>2, <3>4
  <2>6. CASE ByPosition(l, ps, Calls)
    <3>1. PICK c \in Calls : c.at = x /\ ~ IsTeamTask(c)
      BY <2>1, <2>6 DEF ByPosition
    <3>2. c = lead[x]
      BY <3>1, CallsAre
    <3>3. ~ IsMember(p.id) /\ p.summary = None
      BY <1>1, <2>1, <2>6 DEF ByPosition
    <3>4. f.dir # "project"
      <4>1. IsMember(Member(lead[f.of].name, lead[f.of].team))
        BY DEF IsMember, Member
      <4>2. f.dir = "project" => p.id = Member(lead[f.of].name, lead[f.of].team)
        BY <1>4 DEF Shows, TrueOf
      <4> QED  BY <3>3, <4>1, <4>2
    <3>5. f.summary = None
      BY <1>4, <3>3, <3>4 DEF Shows
    <3> QED  BY <1>3, <3>1, <3>2, <3>4, <3>5
  <2> QED  BY <2>2, <2>3, <2>4, <2>5, <2>6
<1> QED  BY <1>2, <1>6, <1>7

(* A process whose agent a result names gets the call of that result.      *)
LEMMA ResultWins ==
    ASSUME IInv, Reading, NEW i \in DOMAIN Discovered,
           LET f == files[Discovered[i].file] IN
           /\ ~ f.sidecar /\ f.of \in Ids(Calls)
           /\ AgentToToolID(results, Discovered[i].id) = f.of
    PROVE  <<i, files[Discovered[i].file].of>> \in Made
<1>1. PICK ps, f, l0, ids : /\ ps = Discovered /\ f = files[ps[i].file]
                            /\ l0 = First(ps, Calls) /\ ids = Ids(Calls)
  OBVIOUS
<1>2. /\ ~ f.sidecar /\ f.of \in ids /\ AgentToToolID(results, ps[i].id) = f.of
      /\ ps[i].parent = 0 /\ f.of # 0 /\ 0 \notin ids
  BY <1>1, SidecarWins, ProcessesAre, CallsAre
<1>3. \A l \in l0 : /\ l \in (DOMAIN ps) \X ids /\ l[1] \in DOMAIN ps /\ l[2] \in ids
                    /\ ps[l[1]].parent = l[2]
  BY <1>1, ProcessesAre, SidecarLinksAre DEF First, BySidecar
<1>4. i \notin Procs(l0)
  BY <1>2, <1>3 DEF Procs
<1>5. f.of \notin Tools(l0)
  <2> SUFFICES ASSUME NEW l \in l0, l[2] = f.of PROVE FALSE
    BY DEF Tools
  <2>1. PICK j \in DOMAIN ps : j = l[1] /\ ps[j].parent = f.of
    BY <1>3
  <2>2. files[ps[j].file].of = f.of
    BY <1>1, <1>2, <2>1, SidecarWins
  <2>3. i = j
    BY <1>1, <2>2, ProcessesAre
  <2> QED  BY <1>2, <2>1, <2>3
<1>6. ASSUME NEW j \in DOMAIN ps, AgentToToolID(results, ps[j].id) = f.of PROVE i = j
  <2>1. ResultsInv
    BY DEF IInv
  <2>2. PICK n \in DOMAIN results : results[n].agent = ps[i].id /\ results[n].call = f.of
    BY <1>2, <2>1, ToolIs
  <2>3. PICK m \in DOMAIN results : results[m].agent = ps[j].id /\ results[m].call = f.of
    BY <1>2, <1>6, <2>1, ToolIs
  <2>4. ps[i].id = ps[j].id
    BY <2>1, <2>2, <2>3 DEF ResultsInv
  <2>5. PICK g : g = files[ps[j].file]
    OBVIOUS
  <2>6. CASE f.dir = "subagents"
    <3>1. IsTeamTask(lead[f.of]) \/ ~ IsTeamTask(lead[f.of])
      OBVIOUS
    <3>2. ps[i].id = Hex(f.of)
      BY <1>1, <2>6, ProcessesAre DEF Shows
    <3>3. ~ IsMember(ps[j].id)
      BY <2>4, <3>2 DEF Hex, IsMember
    <3>4. Shows(ps[j], g) /\ TrueOf(g, lead) /\ g.of # 0
      BY <1>1, <2>5, ProcessesAre
    <3>5. g.dir # "project"
      <4>1. IsMember(Member(lead[g.of].name, lead[g.of].team))
        BY DEF IsMember, Member
      <4>2. g.dir = "project" => ps[j].id = Member(lead[g.of].name, lead[g.of].team)
        BY <3>4 DEF Shows, TrueOf
      <4> QED  BY <3>3, <4>1, <4>2
    <3>6. f.of = g.of
      BY <1>1, <1>2, <1>6, <2>5, <3>4, <3>5, ResultsSay DEF Shows
    <3> QED  BY <1>1, <2>5, <3>6, ProcessesAre
  <2>7. CASE f.dir = "project"
    <3>1. Shows(ps[i], f) /\ TrueOf(f, lead) /\ f.of # 0
      BY <1>1, ProcessesAre
    <3>2. IsMember(ps[i].id)
      <4>1. ps[i].id = Member(lead[f.of].name, lead[f.of].team)
        BY <2>7, <3>1 DEF Shows, TrueOf
      <4> QED  BY <4>1 DEF IsMember, Member
    <3>3. Shows(ps[j], g)
      BY <1>1, <2>5, ProcessesAre
    <3>4. g.dir = "project"
      <4>1. ps[j].id # Hex(g.of)
        BY <2>4, <3>2 DEF IsMember, Hex
      <4> QED  BY <3>3, <4>1 DEF Shows
    <3> QED  BY <1>1, <2>4, <2>5, <2>7, <3>4, ProcessesAre DEF ProcsOk
  <2> QED  BY <1>1, <2>6, <2>7, ProcessesAre
<1>7. <<i, f.of>> \in ResultLinks(ps, ids, results, l0)
  <2>1. PICK l : l = <<i, f.of>> /\ l[1] = i /\ l[2] = f.of
    <3>1. <<i, f.of>>[1] = i /\ <<i, f.of>>[2] = f.of
      OBVIOUS
    <3> QED  BY <3>1, Zenon
  <2>2. DOMAIN ps = 1 .. Len(ps) /\ Len(ps) \in Nat
    BY <1>1, ProcessesAre, LenProperties
  <2>3. \A j \in (DOMAIN ps) \ Procs(l0) : j < i => AgentToToolID(results, ps[j].id) # f.of
    BY <1>1, <1>6, <2>2
  <2>4. l \in ((DOMAIN ps) \ Procs(l0)) \X (ids \ Tools(l0))
    BY <1>1, <1>2, <1>4, <1>5, <2>1
  <2> QED  BY <1>2, <2>1, <2>3, <2>4 DEF ResultLinks
<1> QED  BY <1>1, <1>7, ShownAre

LEMMA ShowsEvidence == IInv => EvidenceWins
<1> SUFFICES ASSUME IInv, Reading, NEW i \in DOMAIN ProcsOf(view)
             PROVE  LET p == ProcsOf(view)[i]
                        f == files[p.file]
                    IN  /\ Known(f) /\ f.of <= view => p.parent = f.of
                        /\ f.sidecar /\ ~ IsTeamTask(lead[f.of]) => p.parent = f.of
  BY ShowsTeamsApart DEF EvidenceWins, Range
<1>1. PICK q, ps, p, f, x : /\ q = ProcsOf(view) /\ ps = Discovered
                            /\ p = ps[i] /\ f = files[q[i].file] /\ x = q[i].parent
  OBVIOUS
<1>2. /\ i \in DOMAIN ps /\ f = files[p.file] /\ OneToOne(Made)
      /\ \/ <<i, x>> \in Made /\ x \in Ids(Calls)
         \/ i \notin Procs(Made) /\ x = p.parent
  BY <1>1, ShownAre
<1>3. /\ Shows(p, f) /\ TrueOf(f, lead) /\ f.of # 0
      /\ f.of \in 1 .. Len(lead) /\ lead[f.of].op = "spawn" /\ f.sidecar \in BOOLEAN
      /\ f.dir \in {"subagents", "project"}
  BY <1>1, <1>2, ProcessesAre
<1>4. /\ p.parent = IF f.sidecar THEN f.of ELSE 0
      /\ f.sidecar /\ f.of \in Ids(Calls) => <<i, f.of>> \in First(ps, Calls)
  BY <1>1, <1>2, SidecarWins
<1>5. f.of <= view => f.of \in Ids(Calls)
  BY <1>3, CallsAre
<1>6. ASSUME <<i, f.of>> \in Made PROVE x = f.of
  BY <1>1, <1>2, <1>6, ShownAre
<1>7. ASSUME Known(f), f.of <= view PROVE x = f.of
  <2>1. CASE f.sidecar
    BY <1>1, <1>4, <1>5, <1>6, <1>7, <2>1, ShownAre
  <2>2. CASE ~ f.sidecar
    <3>1. AgentToToolID(results, p.id) = f.of
      BY <1>3, <1>7, <2>2 DEF Known, Shows
    <3> QED  BY <1>1, <1>2, <1>5, <1>6, <1>7, <2>2, <3>1, ResultWins
  <2> QED  BY <2>1, <2>2
<1>8. ASSUME f.sidecar, ~ IsTeamTask(lead[f.of]) PROVE x = f.of
  <2>1. f.dir = "subagents" /\ p.parent = f.of /\ p.summary = None
    BY <1>3, <1>4, <1>8 DEF Shows, TrueOf
  <2>2. CASE <<i, x>> \in Made /\ x \in Ids(Calls)
    <3>1. PICK l : l = <<i, x>> /\ l[1] = i /\ l[2] = x
      <4>1. <<i, x>>[1] = i /\ <<i, x>>[2] = x
        OBVIOUS
      <4> QED  BY <4>1, Zenon
    <3>2. \/ BySidecar(l, ps) \/ ByResult(l, ps, results)
          \/ BySummary(l, ps, Calls) \/ ByPosition(l, ps, Calls)
      BY <1>1, <2>2, <3>1, ShownAre
    <3>3. ByResult(l, ps, results) => x = f.of
      BY <1>1, <1>2, <2>1, <2>2, <3>1, CallsAre, ResultsSay DEF ByResult
    <3>4. ~ BySummary(l, ps, Calls)
      BY <1>1, <2>1, <3>1 DEF BySummary
    <3>5. ~ ByPosition(l, ps, Calls)
      BY <1>1, <1>3, <2>1, <3>1 DEF ByPosition
    <3>6. BySidecar(l, ps) => x = f.of
      BY <1>1, <2>1, <3>1 DEF BySidecar
    <3> QED  BY <3>2, <3>3, <3>4, <3>5, <3>6
  <2> QED  BY <1>2, <2>1, <2>2
<1> QED  BY <1>1, <1>7, <1>8

(* Pairing by position: when all plain calls have their transcripts, and   *)
(* these start in the order of the calls, the processes left for the last  *)
(* phase and the calls left are in step.                                   *)
Of(j)    == files[Discovered[j].file].of
Plain(k) == files[k].of # 0 /\ ~ IsTeamTask(lead[files[k].of])
Linking  == Early(Discovered, Calls, results)

Open ==
    {j \in (DOMAIN Discovered) \ Procs(Linking) :
        /\ Discovered[j].parent = 0
        /\ ~ IsMember(Discovered[j].id) /\ Discovered[j].summary = None}
Asks == {c.at : c \in {c \in Calls : ~ IsTeamTask(c) /\ c.at \notin Tools(Linking)}}

LEMMA OpenLinks ==
    ASSUME IInv, Reading
    PROVE  /\ Made = Linking \cup Pairs(Open, Asks)
           /\ First(Discovered, Calls) \subseteq Linking
           /\ \A l \in Linking : /\ l \in (DOMAIN Discovered) \X Ids(Calls)
                                 /\ \/ BySidecar(l, Discovered) \/ ByResult(l, Discovered, results)
                                    \/ BySummary(l, Discovered, Calls)
<1>1. /\ Discovered \in Seq(ProcessType(Len(files))) /\ Len(files) \in Nat
      /\ CallsOk(Calls, view) /\ view \in Nat
  BY ProcessesAre, CallsAre
<1>2. /\ Made = Linking \cup PositionalLinks(Discovered, Calls, Linking)
      /\ First(Discovered, Calls) \subseteq Linking
      /\ \A l \in Linking : \/ BySidecar(l, Discovered) \/ ByResult(l, Discovered, results)
                            \/ BySummary(l, Discovered, Calls)
  BY <1>1, LinksAre DEF Made, Linking
<1>3. \A l \in Linking : l \in (DOMAIN Discovered) \X Ids(Calls)
  BY <1>1, <1>2, LinksAre DEF Made
<1>4. PositionalLinks(Discovered, Calls, Linking) = Pairs(Open, Asks)
  BY DEF PositionalLinks, Open, Asks
<1> QED  BY <1>2, <1>3, <1>4

(* A plain process, or a plain call, is linked early only with its own.    *)
LEMMA EarlyPlain ==
    ASSUME IInv, Reading, NEW l \in Linking,
           Plain(Discovered[l[1]].file) \/ ~ IsTeamTask(lead[l[2]])
    PROVE  /\ l[1] \in DOMAIN Discovered /\ l[2] = Of(l[1])
           /\ BySidecar(l, Discovered) \/ ByResult(l, Discovered, results)
<1>1. PICK i, x, ps, p, f : /\ i = l[1] /\ x = l[2] /\ ps = Discovered
                            /\ p = ps[i] /\ f = files[p.file]
  OBVIOUS
<1>2. i \in DOMAIN ps /\ x \in Ids(Calls) /\ x # 0
  BY <1>1, OpenLinks, CallsAre
<1>3. Shows(p, f) /\ TrueOf(f, lead) /\ f.of # 0 /\ f.dir \in {"subagents", "project"}
  BY <1>1, <1>2, ProcessesAre
<1>4. p.parent = IF f.sidecar THEN f.of ELSE 0
  BY <1>1, <1>2, SidecarWins
<1>5. ~ IsTeamTask(lead[f.of]) \/ ~ IsTeamTask(lead[x])
  BY <1>1 DEF Plain
<1>6. CASE BySidecar(l, ps)
  BY <1>1, <1>2, <1>4, <1>6 DEF BySidecar, Of
<1>7. CASE ByResult(l, ps, results)
  <2>1. x = AgentToToolID(results, p.id)
    BY <1>1, <1>7 DEF ByResult
  <2>2. /\ IsTeamTask(lead[x]) <=> IsTeamTask(lead[f.of])
        /\ f.dir = "subagents" => x = f.of
    BY <1>1, <1>2, <2>1, ResultsSay
  <2>3. f.dir = "subagents"
    BY <1>3, <1>5, <2>2 DEF TrueOf
  <2> QED  BY <1>1, <1>2, <1>7, <2>2, <2>3 DEF Of
<1>8. CASE BySummary(l, ps, Calls)
  <2>1. PICK c \in Calls : c.at = x /\ IsTeamTask(c) /\ c.desc # None /\ c.desc = p.summary
    BY <1>1, <1>8 DEF BySummary
  <2>2. c = lead[x]
    BY <2>1, CallsAre
  <2>3. f.summary # None
    BY <1>3, <2>1 DEF Shows
  <2>4. IsTeamTask(lead[f.of])
    BY <1>3, <2>3 DEF TrueOf
  <2> QED  BY <1>5, <2>1, <2>2, <2>4
<1> QED  BY <1>1, <1>6, <1>7, <1>8, OpenLinks

InStep ==
    LET plain == {k \in DOMAIN files : files[k].of # 0 /\ ~ IsTeamTask(lead[files[k].of])}
    IN  /\ \A k \in DOMAIN files : files[k].of # 0 /\ k \notin plain =>
              files[k].dir = "project" \/ files[k].sidecar \/ files[k].summary # None
        /\ \A c \in SpawnCalls(view) : ~ IsTeamTask(c) => \E k \in plain : files[k].of = c.at
        /\ \A k, l \in plain : k < l => files[k].of < files[l].of

(* A process left is plain; a plain one is left unless something names it. *)
LEMMA OpenIs ==
    ASSUME IInv, Reading, InStep, NEW j \in DOMAIN Discovered
    PROVE  LET f == files[Discovered[j].file] IN
           /\ j \in Open => Plain(Discovered[j].file) /\ f.dir = "subagents"
           /\ Plain(Discovered[j].file) /\ j \notin Procs(Linking)
                 /\ (f.sidecar => f.of \in Ids(Calls)) => j \in Open
<1>1. PICK ps, k, p, f : ps = Discovered /\ p = ps[j] /\ k = p.file /\ f = files[k]
  OBVIOUS
<1>2. /\ k \in DOMAIN files /\ Shows(p, f) /\ TrueOf(f, lead) /\ f.of # 0
      /\ f.dir \in {"subagents", "project"} /\ f.sidecar \in BOOLEAN
  BY <1>1, ProcessesAre
<1>3. /\ p.parent = IF f.sidecar THEN f.of ELSE 0
      /\ f.sidecar /\ f.of \in Ids(Calls) => <<j, f.of>> \in Linking
  BY <1>1, SidecarWins, OpenLinks
<1>4. ASSUME j \in Open PROVE Plain(k) /\ f.dir = "subagents"
  <2>1. p.parent = 0 /\ ~ IsMember(p.id) /\ p.summary = None
    BY <1>1, <1>4 DEF Open
  <2>2. f.dir # "project"
    <3>1. IsMember(Member(lead[f.of].name, lead[f.of].team))
      BY DEF IsMember, Member
    <3>2. f.dir = "project" => p.id = Member(lead[f.of].name, lead[f.of].team)
      BY <1>2 DEF Shows, TrueOf
    <3> QED  BY <2>1, <3>1, <3>2
  <2>3. f.summary = None /\ ~ f.sidecar
    BY <1>2, <1>3, <2>1, <2>2 DEF Shows
  <2>4. ~ IsTeamTask(lead[f.of])
    BY <1>1, <1>2, <2>2, <2>3 DEF InStep
  <2> QED  BY <1>1, <1>2, <2>2, <2>4 DEF Plain
<1>5. ASSUME Plain(k), j \notin Procs(Linking), f.sidecar => f.of \in Ids(Calls) PROVE j \in Open
  <2>1. ~ f.sidecar
    <3>1. SUFFICES ASSUME f.sidecar PROVE FALSE
      OBVIOUS
    <3>2. PICK l \in Linking : l = <<j, f.of>> /\ l[1] = j
      BY <1>3, <1>5, <3>1
    <3> QED  BY <1>5, <3>2 DEF Procs
  <2>2. f.dir = "subagents" /\ f.summary = None
    BY <1>1, <1>2, <1>5 DEF Plain, TrueOf
  <2>3. p.id = Hex(f.of) /\ p.summary = None /\ p.parent = 0
    BY <1>2, <1>3, <2>1, <2>2 DEF Shows
  <2>4. ~ IsMember(p.id)
    BY <2>3 DEF Hex, IsMember
  <2> QED  BY <1>1, <1>5, <2>3, <2>4 DEF Open
<1> QED  BY <1>1, <1>4, <1>5

(* The processes left, up to i, go one to one with the calls left, up to   *)
(* the one that spawned i.                                                 *)
LEMMA OpenInStep ==
    ASSUME IInv, Reading, InStep, NEW i \in Open, Of(i) <= view
    PROVE  Of(i) \in Asks /\ Rank(Open, i) = Rank(Asks, Of(i))
<1> DEFINE A == {j \in Open : j <= i}
           B == {x \in Asks : x <= Of(i)}
           g == [j \in A |-> Of(j)]
<1>1. PICK ps, n : ps = Discovered /\ n = Len(ps) /\ n \in Nat /\ DOMAIN ps = 1 .. n
  BY ProcessesAre, LenProperties
<1>2. \A j \in DOMAIN ps : /\ ps[j].file \in DOMAIN files
                           /\ Of(j) \in 1 .. Len(lead) /\ lead[Of(j)].op = "spawn"
  BY <1>1, ProcessesAre DEF Of
<1>3. DOMAIN files = 1 .. Len(files) /\ Len(files) \in Nat /\ Len(lead) \in Nat /\ view \in Nat
  BY CallsAre, LenProperties DEF IInv, FilesInv
<1>4. \A j \in Open : /\ j \in DOMAIN ps /\ j \notin Procs(Linking)
                      /\ Plain(ps[j].file) /\ files[ps[j].file].dir = "subagents"
  BY <1>1, OpenIs DEF Open
<1>5. \A j, k \in DOMAIN ps : Of(j) = Of(k) => j = k
  BY <1>1, ProcessesAre DEF Of
(* The order of the processes is that of their calls.                      *)
<1>6. ASSUME NEW j \in DOMAIN ps, NEW k \in DOMAIN ps, j < k,
             Plain(ps[j].file), Plain(ps[k].file),
             files[ps[j].file].dir = "subagents", files[ps[k].file].dir = "subagents"
      PROVE  Of(j) < Of(k)
  <2>1. ps[j].file < ps[k].file
    BY <1>1, <1>6, ProcessesAre DEF AllThere
  <2> QED  BY <1>1, <1>2, <1>6, <2>1 DEF InStep, Plain, Of
(* A call of a process left is left.                                       *)
<1>7. ASSUME NEW j \in A PROVE Of(j) \in B
  <2>1. j \in Open /\ j \in DOMAIN ps /\ i \in DOMAIN ps /\ j <= i
    BY <1>4
  <2>2. Of(j) <= Of(i)
    <3>1. CASE j = i
      BY <1>2, <1>3, <2>1, <3>1
    <3>2. CASE j # i
      <4>1. j < i
        BY <1>1, <2>1, <3>2
      <4>2. Of(j) < Of(i)
        BY <1>4, <1>6, <2>1, <4>1
      <4>3. Of(j) \in Nat /\ Of(i) \in Nat
        BY <1>2, <1>3, <2>1
      <4> QED  BY <4>2, <4>3
    <3> QED  BY <3>1, <3>2
  <2>3. Of(j) \in 1 .. view
    BY <1>2, <1>3, <2>1, <2>2
  <2>4. Of(j) \in Ids(Calls)
    BY <1>2, <2>1, <2>3, CallsAre
  <2>5. PICK c \in Calls : c.at = Of(j) /\ c = lead[Of(j)]
    BY <2>4, CallsAre DEF Ids
  <2>6. ~ IsTeamTask(c)
    BY <1>1, <1>4, <2>1, <2>5 DEF Plain, Of
  <2>7. Of(j) \notin Tools(Linking)
    <3> SUFFICES ASSUME NEW l \in Linking, l[2] = Of(j) PROVE FALSE
      BY DEF Tools
    <3>1. l[1] \in DOMAIN ps /\ Of(l[1]) = Of(j)
      BY <1>1, <2>5, <2>6, EarlyPlain
    <3>2. l[1] = j
      BY <1>5, <2>1, <3>1
    <3> QED  BY <1>4, <2>1, <3>2 DEF Procs
  <2> QED  BY <2>2, <2>5, <2>6, <2>7 DEF Asks
(* A call left is that of a process left.                                  *)
<1>8. ASSUME NEW x \in B PROVE \E j \in A : Of(j) = x
  <2>1. PICK c \in Calls : c.at = x /\ ~ IsTeamTask(c) /\ x \notin Tools(Linking) /\ x <= Of(i)
    BY DEF Asks
  <2>2. c = lead[x] /\ x \in Ids(Calls) /\ x \in 1 .. Len(lead)
    BY <2>1, CallsAre DEF Ids
  <2>3. PICK k \in DOMAIN files : files[k].of = x /\ Plain(k)
    BY <2>1 DEF InStep, Plain, Calls
  <2>4. files[k].dir = "subagents"
    <3>1. TrueOf(files[k], lead) /\ files[k] \in Transcript
      BY <1>3, ElementOfSeq DEF IInv, FilesInv
    <3>2. files[k].dir \in {"subagents", "project"}
      BY <3>1 DEF Transcript
    <3> QED  BY <2>3, <3>1, <3>2 DEF TrueOf, Plain
  <2>5. PICK j \in DOMAIN ps : ps[j].file = k
    BY <1>1, <2>4, ProcessesAre DEF AllThere
  <2>6. Of(j) = x
    BY <1>1, <2>3, <2>5 DEF Of
  <2>7. j \notin Procs(Linking)
    <3> SUFFICES ASSUME NEW l \in Linking, l[1] = j PROVE FALSE
      BY DEF Procs
    <3>1. l[2] = x
      BY <1>1, <2>3, <2>5, <2>6, EarlyPlain
    <3> QED  BY <2>1, <3>1 DEF Tools
  <2>8. j \in Open
    BY <1>1, <2>2, <2>3, <2>5, <2>7, OpenIs
  <2>9. ~ (i < j)
    BY <1>1, <1>2, <1>3, <1>4, <1>6, <2>1, <2>2, <2>6, <2>8
  <2> QED  BY <1>1, <1>4, <2>6, <2>8, <2>9
<1>9. i \in A
  BY <1>1, <1>4
<1>10. Of(i) \in Asks
  BY <1>7, <1>9
<1>11. g \in Bijection(A, B)
  <2>1. g \in Injection(A, B)
    BY <1>4, <1>5, <1>7 DEF Injection, IsInjective
  <2>2. g \in Surjection(A, B)
    BY <1>7, <1>8 DEF Surjection
  <2> QED  BY <2>1, <2>2 DEF Bijection
<1>12. IsFiniteSet(A)
  <2>1. A \in SUBSET (1 .. n)
    BY <1>1, <1>4
  <2> QED  BY <1>1, <2>1, PlacesFinite
<1>13. Cardinality(A) = Cardinality(B)
  <2> HIDE DEF A, B, g
  <2>1. ExistsBijection(A, B)
    BY <1>11 DEF ExistsBijection
  <2> QED  BY <1>12, <2>1, FS_Bijection
<1> QED  BY <1>10, <1>13 DEF Rank

LEMMA ShowsInStep == IInv => PositionalExact
<1> SUFFICES ASSUME IInv, Reading, InStep, NEW i \in DOMAIN ProcsOf(view),
                    Plain(ProcsOf(view)[i].file),
                    files[ProcsOf(view)[i].file].of <= view
             PROVE  ProcsOf(view)[i].parent = files[ProcsOf(view)[i].file].of
  BY DEF PositionalExact, InStep, Range, Plain
<1>1. PICK q, ps, p, f : /\ q = ProcsOf(view) /\ ps = Discovered
                         /\ p = ps[i] /\ f = files[q[i].file]
  OBVIOUS
<1>2. /\ i \in DOMAIN ps /\ f = files[p.file] /\ q[i].file = p.file
      /\ <<i, f.of>> \in Made => q[i].parent = f.of
  BY <1>1, ShownAre
<1>3. /\ Plain(p.file) /\ f.of <= view /\ f.of = Of(i)
      /\ f.of \in 1 .. Len(lead) /\ lead[f.of].op = "spawn" /\ f.of # 0
  BY <1>1, <1>2, ProcessesAre DEF Of
<1>4. f.of \in Ids(Calls)
  BY <1>3, CallsAre
<1>5. CASE i \in Procs(Linking)
  <2>1. PICK l \in Linking : l[1] = i
    BY <1>5 DEF Procs
  <2>2. l = <<i, f.of>>
    BY <1>1, <1>3, <2>1, EarlyPlain, OpenLinks
  <2> QED  BY <1>1, <1>2, <2>1, <2>2, OpenLinks
<1>6. CASE i \notin Procs(Linking)
  <2>1. i \in Open
    BY <1>1, <1>2, <1>3, <1>4, <1>6, OpenIs
  <2>2. f.of \in Asks /\ Rank(Open, i) = Rank(Asks, f.of)
    BY <1>3, <2>1, OpenInStep
  <2>3. <<i, f.of>> \in Pairs(Open, Asks)
    BY <2>1, <2>2 DEF Pairs
  <2> QED  BY <1>1, <1>2, <2>3, OpenLinks
<1> QED  BY <1>5, <1>6

----------------------------------------------------------------------------
(* What is on disk is always what the invariant says.                      *)
THEOREM Invariant == Spec => []IInv
  BY InitIInv, NextIInv, PTL DEF Spec

(* However calls, transcripts, sidecars and results are written while a    *)
(* viewer reads, and however many there are, LinkSubagents never gives one *)
(* call two agents (subagent.go: matchedTools).                            *)
THEOREM OneParentEach == Spec => []OneParent
  BY InitIInv, NextIInv, ShowsOneParent, PTL DEF Spec

(* No agent told as a teammate's is linked with a plain call, and no plain *)
(* one with a teammate's.                                                  *)
THEOREM TeamsStayApart == Spec => []TeamsApart
  BY InitIInv, NextIInv, ShowsTeamsApart, PTL DEF Spec

(* An agent that its sidecar or a result names is linked with the call     *)
(* that spawned it, whatever the later phases could make of it.            *)
THEOREM EvidenceAlwaysWins == Spec => []EvidenceWins
  BY InitIInv, NextIInv, ShowsEvidence, PTL DEF Spec

(* Without any such evidence a plain agent is linked with its own call,    *)
(* when every plain call has its transcript and these start in the order   *)
(* of the calls, whichever of them other phases have taken.                *)
THEOREM PositionIsRight == Spec => []PositionalExact
  BY InitIInv, NextIInv, ShowsInStep, PTL DEF Spec
----------------------------------------------------------------------------
(* Functions that recur on the number before. *)

(* A property of 0 that every number hands on to the next holds of all;     *)
(* T are its counterexamples.                                              *)
LEMMA NoLeast ==
    ASSUME NEW T \in SUBSET Nat, 0 \notin T,
           \A n \in Nat : n \notin T => n + 1 \notin T
    PROVE  T = {}
<1> SUFFICES ASSUME T # {} PROVE FALSE
  OBVIOUS
<1>1. PICK m \in T : \A k \in T : ~ (<<k, m>> \in OpToRel(<, Nat))
  BY NatLessThanWellFounded, WFMin, Zenon
<1>2. \A k \in T : ~ (k < m)
  BY <1>1 DEF OpToRel
<1>3. m - 1 \in Nat /\ (m - 1) + 1 = m /\ m - 1 < m
  OBVIOUS
<1> QED  BY <1>2, <1>3

(* N times step F of S from a start there; and whatever starts there and   *)
(* goes on by steps of S stays there.                                       *)
Iterate(f, N, S, start, F) ==
    /\ f \in [0 .. N -> S] /\ f[0] = start
    /\ \A n \in 1 .. N : f[n] = F[<<f[n - 1], n>>]

StepOf(F, S, N) == F \in [S \X (1 .. N) -> S]

(* What the clauses of a recursive definition give: a function that obeys  *)
(* them.                                                                   *)
LEMMA Iterates ==
    ASSUME NEW N \in Nat, NEW S, NEW start \in S, NEW F, StepOf(F, S, N)
    PROVE  \E f : Iterate(f, N, S, start, F)
<1> DEFINE Is(f, m) == /\ f \in [0 .. m -> S] /\ f[0] = start
                       /\ \A n \in 1 .. m : n <= N => f[n] = F[<<f[n - 1], n>>]
           T == {m \in Nat : ~ \E f : Is(f, m)}
<1>0. F \in [S \X (1 .. N) -> S]
  BY DEF StepOf
<1>1. 0 \notin T
  <2>1. PICK f : f = [n \in 0 .. 0 |-> start]
    OBVIOUS
  <2>2. Is(f, 0)
    BY <2>1
  <2> QED  BY <2>2
<1>2. ASSUME NEW m \in Nat, m \notin T PROVE m + 1 \notin T
  <2>1. PICK f : Is(f, m)
    BY <1>2
  <2>2. PICK x \in S : m + 1 <= N => x = F[<<f[m], m + 1>>]
    <3>1. f[m] \in S
      BY <2>1
    <3>2. m + 1 <= N => F[<<f[m], m + 1>>] \in S
      BY <1>0, <3>1
    <3> QED  BY <3>2
  <2>3. PICK g : g = [n \in 0 .. m + 1 |-> IF n \in 0 .. m THEN f[n] ELSE x]
    OBVIOUS
  <2>4. g[m + 1] = x /\ \A n \in 0 .. m : g[n] = f[n]
    BY <2>3
  <2>5. g \in [0 .. m + 1 -> S] /\ g[0] = start
    BY <2>1, <2>3, <2>4
  <2>6. ASSUME NEW n \in 1 .. m + 1, n <= N PROVE g[n] = F[<<g[n - 1], n>>]
    <3>1. CASE n = m + 1
      <4>1. g[n - 1] = f[m]
        BY <2>4, <3>1
      <4> QED  BY <2>2, <2>4, <2>6, <3>1, <4>1
    <3>2. CASE n # m + 1
      <4>1. n \in 1 .. m /\ n - 1 \in 0 .. m /\ n \in 0 .. m
        BY <3>2
      <4> QED  BY <2>1, <2>4, <2>6, <4>1
    <3> QED  BY <3>1, <3>2
  <2>7. Is(g, m + 1)
    BY <2>5, <2>6
  <2> QED  BY <2>7
<1> HIDE DEF T
<1>3. T = {}
  <2>1. T \in SUBSET Nat
    BY DEF T
  <2> QED  BY <1>1, <1>2, <2>1, NoLeast
<1>4. PICK f : Is(f, N)
  BY <1>3 DEF T
<1> QED  BY <1>4 DEF Iterate

(* Its values stay in a set that each step stays in.                       *)
LEMMA StaysIn ==
    ASSUME NEW N \in Nat, NEW S, NEW f, f[0] \in S,
           \A n \in 1 .. N : f[n - 1] \in S => f[n] \in S
    PROVE  \A n \in 0 .. N : f[n] \in S
<1> DEFINE T == {m \in Nat : m <= N /\ f[m] \notin S}
<1>1. ASSUME NEW m \in Nat, m \notin T PROVE m + 1 \notin T
  <2>1. SUFFICES ASSUME m + 1 <= N PROVE f[m + 1] \in S
    OBVIOUS
  <2>2. f[m] \in S
    BY <1>1, <2>1
  <2>3. m + 1 \in 1 .. N /\ (m + 1) - 1 = m
    BY <2>1
  <2>4. f[(m + 1) - 1] \in S => f[m + 1] \in S
    BY <2>3
  <2> QED  BY <2>2, <2>3, <2>4
<1>2. 0 \notin T /\ T \in SUBSET Nat
  OBVIOUS
<1> HIDE DEF T
<1>3. T = {}
  BY <1>1, <1>2, NoLeast
<1> QED  BY <1>3 DEF T

----------------------------------------------------------------------------
(* What phase 1 keeps of the lead's calls. *)

TaskType   == [status : Nat \X Nat, owner : Owner \cup Name]
TeamType   == [name : Team, tasks : Seq(TaskType), members : Seq(Name), deleted : BOOLEAN]
UpdateType == [team : Nat, by : Nat, fallback : Name \cup {None}, up : TaskUpdate]
WalkType   == {a \in [teams : Seq(TeamType), updates : Seq(UpdateType), active : Nat] :
                  a.active <= Len(a.teams)}

NewTask           == [status |-> Pending, owner |-> None]
NewTeam(name)     == [name |-> name, tasks |-> <<>>, members |-> <<>>, deleted |-> FALSE]
LeadsUpdate(t, e) == [team |-> t, by |-> 0, fallback |-> None, up |-> e.up]

(* The least of some numbers.                                              *)
LEMMA LeastIs ==
    ASSUME NEW T \in SUBSET Nat, T # {}
    PROVE  Min(T) \in T /\ \A k \in T : Min(T) <= k
<1>1. PICK m \in T : \A k \in T : ~ (<<k, m>> \in OpToRel(<, Nat))
  BY NatLessThanWellFounded, WFMin, Zenon
<1>2. \A k \in T : m <= k
  <2>1. \A k \in T : ~ (k < m)
    BY <1>1 DEF OpToRel
  <2>2. \A k \in T : k \in Nat /\ m \in Nat
    OBVIOUS
  <2> QED  BY <2>1, <2>2
<1>3. \E x \in T : \A k \in T : x <= k
  BY <1>2
<1> QED  BY <1>3 DEF Min

(* FindTeamIndex is the first team of the name, or 0.                      *)
LEMMA FindIs ==
    ASSUME NEW ts \in Seq(TeamType), NEW name
    PROVE  LET t == FindTeamIndex(ts, name) IN
           \/ t = 0 /\ \A u \in DOMAIN ts : ts[u].name # name
           \/ /\ t \in DOMAIN ts /\ ts[t].name = name
              /\ \A u \in DOMAIN ts : ts[u].name = name => t <= u
<1> DEFINE named == {t \in DOMAIN ts : ts[t].name = name}
<1>1. FindTeamIndex(ts, name) = IF named = {} THEN 0
                                ELSE CHOOSE x \in named : \A u \in named : x <= u
  BY DEF FindTeamIndex
<1>2. CASE named = {}
  BY <1>1, <1>2
<1>3. CASE named # {}
  <2>1. DOMAIN ts = 1 .. Len(ts) /\ Len(ts) \in Nat
    BY LenProperties
  <2>2. named \in SUBSET Nat
    BY <2>1
  <2>3. \E t \in named : \A u \in named : t <= u
    BY <1>3, <2>2, LeastIs
  <2>4. PICK t : t = CHOOSE x \in named : \A u \in named : x <= u
    OBVIOUS
  <2>5. t \in named /\ \A u \in named : t <= u
    BY <2>3, <2>4
  <2> QED  BY <1>1, <1>3, <2>4, <2>5
<1> QED  BY <1>2, <1>3

(* The parts of a call.                                                    *)
LEMMA CallIs ==
    ASSUME NEW e \in LeadCall
    PROVE  /\ e.op \in {"spawn", "create", "task", "delete", "update"}
           /\ e.op = "create" => e.team \in Team
           /\ e.op = "update" => e.up \in TaskUpdate
           /\ e.op = "spawn" => e.team \in Team /\ e.name \in Name
  BY DEF LeadCall

(* One team changes.                                                       *)
LEMMA TeamChanges ==
    ASSUME NEW ts \in Seq(TeamType), NEW t \in DOMAIN ts, NEW x \in TeamType
    PROVE  LET r == [ts EXCEPT ![t] = x] IN
           /\ r \in Seq(TeamType) /\ Len(r) = Len(ts) /\ DOMAIN r = DOMAIN ts
           /\ \A u \in DOMAIN ts : r[u] = IF u = t THEN x ELSE ts[u]
  BY ExceptSeq, LenProperties

(* A team is in use, and what happens to it.                               *)
LEMMA TeamIs ==
    ASSUME NEW ts \in Seq(TeamType), NEW t \in DOMAIN ts
    PROVE  /\ ts[t] \in TeamType /\ ts[t].name \in Team /\ ts[t].tasks \in Seq(TaskType)
           /\ ts[t].members \in Seq(Name)
<1>1. ts[t] \in TeamType
  BY ElementOfSeq, LenProperties
<1> QED  BY <1>1 DEF TeamType

(* The members after call e of a teammate.                                 *)
Joins(ts, e, t) ==
    /\ e.op = "spawn" /\ IsTeamTask(e) /\ t = FindTeamIndex(ts, e.team)
    /\ e.name \notin Range(ts[t].members)

(* Nothing but the creation of a team changes more than one of them.       *)
Changed(ts, rs, e, active) ==
    /\ rs \in Seq(TeamType) /\ Len(rs) = Len(ts)
    /\ \A t \in DOMAIN ts :
          /\ rs[t].name = ts[t].name
          /\ rs[t].tasks = IF e.op = "task" /\ t = active THEN Append(ts[t].tasks, NewTask)
                           ELSE ts[t].tasks
          /\ rs[t].members = IF Joins(ts, e, t) THEN Append(ts[t].members, e.name)
                             ELSE ts[t].members

(* What call e makes of a, in terms of the parts of a.                     *)
Steps(a, b, e) ==
    /\ b \in WalkType
    /\ b.active = IF e.op = "create" THEN Len(a.teams) + 1
                  ELSE IF e.op = "delete" THEN 0 ELSE a.active
    /\ b.updates = IF e.op = "update" /\ a.active # 0
                   THEN Append(a.updates, LeadsUpdate(a.active, e)) ELSE a.updates
    /\ IF e.op = "create" THEN b.teams = Append(a.teams, NewTeam(e.team))
       ELSE Changed(a.teams, b.teams, e, a.active)

(* A new task and a new team are of the types.                             *)
LEMMA NewTaskIs == NewTask \in TaskType
<1>1. None \in Owner
  BY AgentViewAssumption
<1> QED  BY <1>1 DEF NewTask, TaskType, Pending

LEMMA NewTeamIs ==
    ASSUME NEW name \in Team
    PROVE  /\ NewTeam(name) \in TeamType /\ NewTeam(name).name = name
           /\ NewTeam(name).tasks = <<>> /\ NewTeam(name).members = <<>>
<1>1. NewTeam(name) \in TeamType
  BY DEF NewTeam, TeamType
<1>2. PICK e : e = <<>>
  OBVIOUS
<1>3. NewTeam(name) = [name |-> name, tasks |-> e, members |-> e, deleted |-> FALSE]
  BY <1>2 DEF NewTeam
<1>4. NewTeam(name).name = name /\ NewTeam(name).tasks = e /\ NewTeam(name).members = e
  BY <1>3
<1> QED  BY <1>1, <1>2, <1>4

(* LeadEvent, one kind of call at a time.                                  *)
LEMMA SpawnEvent ==
    ASSUME NEW a \in WalkType, NEW e \in LeadCall, e.op = "spawn"
    PROVE  Steps(a, LeadEvent(a, e), e)
<1>1. /\ a.teams \in Seq(TeamType) /\ a.updates \in Seq(UpdateType) /\ a.active \in Nat
      /\ a.active <= Len(a.teams)
  BY DEF WalkType
<1>2. e.name \in Name /\ e.op # "task"
  BY CallIs
<1>3. CASE ~ IsTeamTask(e)
  <2>1. LeadEvent(a, e) = a
    BY <1>3 DEF LeadEvent
  <2>2. Changed(a.teams, a.teams, e, a.active)
    BY <1>1, <1>2, <1>3 DEF Changed, Joins
  <2> QED  BY <2>1, <2>2 DEF Steps
<1>4. CASE IsTeamTask(e)
  <2>1. LeadEvent(a, e) = [a EXCEPT !.teams = AddTeamSpawnMember(a.teams, e)]
    BY <1>4 DEF LeadEvent
  <2> DEFINE t == FindTeamIndex(a.teams, e.team)
  <2>2. PICK ts : ts = a.teams
    OBVIOUS
  <2>3. CASE t = 0 \/ e.name \in Range(ts[t].members)
    <3>1. AddTeamSpawnMember(ts, e) = ts
      BY <2>2, <2>3 DEF AddTeamSpawnMember
    <3>2. LeadEvent(a, e) = a
      BY <2>1, <2>2, <3>1, <1>1 DEF WalkType
    <3>3. \A u \in DOMAIN ts : ~ Joins(ts, e, u)
      <4>1. 0 \notin DOMAIN ts
        BY <1>1, <2>2, LenProperties
      <4> QED  BY <2>2, <2>3, <4>1 DEF Joins
    <3>4. Changed(a.teams, a.teams, e, a.active)
      BY <1>1, <1>2, <2>2, <3>3 DEF Changed
    <3> QED  BY <3>2, <3>4 DEF Steps
  <2>4. CASE ~ (t = 0 \/ e.name \in Range(ts[t].members))
    <3>1. t \in DOMAIN ts
      BY <1>1, <2>2, <2>4, FindIs
    <3>2. PICK u : u = t
      OBVIOUS
    <3>3. PICK x : x = [ts[u] EXCEPT !.members = Append(@, e.name)]
      OBVIOUS
    <3>4. /\ x \in TeamType /\ x.name = ts[u].name /\ x.tasks = ts[u].tasks
          /\ x.members = Append(ts[u].members, e.name)
      <4>1. ts[u] \in TeamType /\ Append(ts[u].members, e.name) \in Seq(Name)
        BY <1>1, <1>2, <2>2, <3>1, <3>2, TeamIs, AppendProperties
      <4> QED  BY <3>3, <4>1 DEF TeamType
    <3>5. AddTeamSpawnMember(ts, e) = [ts EXCEPT ![u] = x]
      BY <2>2, <2>4, <3>2, <3>3 DEF AddTeamSpawnMember
    <3>6. PICK rs : rs = [ts EXCEPT ![u] = x]
      OBVIOUS
    <3>7. /\ rs \in Seq(TeamType) /\ Len(rs) = Len(ts)
          /\ \A v \in DOMAIN ts : rs[v] = IF v = u THEN x ELSE ts[v]
      BY <1>1, <2>2, <3>1, <3>2, <3>4, <3>6, TeamChanges
    <3>8. \A v \in DOMAIN ts : Joins(ts, e, v) <=> v = u
      BY <1>4, <2>2, <2>4, <3>2 DEF Joins
    <3>9. Changed(ts, rs, e, a.active)
      BY <1>2, <3>4, <3>7, <3>8 DEF Changed
    <3>10. LeadEvent(a, e) = [a EXCEPT !.teams = rs]
      BY <2>1, <2>2, <3>5, <3>6
    <3>11. /\ [a EXCEPT !.teams = rs] \in WalkType /\ [a EXCEPT !.teams = rs].teams = rs
           /\ [a EXCEPT !.teams = rs].active = a.active
           /\ [a EXCEPT !.teams = rs].updates = a.updates
      BY <1>1, <2>2, <3>7 DEF WalkType
    <3> QED  BY <2>2, <3>9, <3>10, <3>11 DEF Steps
  <2> QED  BY <2>3, <2>4
<1> QED  BY <1>3, <1>4

TwoChanged(a, b, rs, n) == b = [a EXCEPT !.teams = rs, !.active = n]

LEMMA TwoChange ==
    ASSUME NEW a \in WalkType, NEW rs \in Seq(TeamType), NEW n \in Nat, n <= Len(rs),
           NEW b, TwoChanged(a, b, rs, n)
    PROVE  b \in WalkType /\ b.teams = rs /\ b.updates = a.updates /\ b.active = n
<1>1. a \in [teams : Seq(TeamType), updates : Seq(UpdateType), active : Nat]
  BY DEF WalkType
<1>2. PICK c : c = [a EXCEPT !.teams = rs]
  OBVIOUS
<1>3. /\ c \in [teams : Seq(TeamType), updates : Seq(UpdateType), active : Nat]
      /\ c.teams = rs /\ c.updates = a.updates
  BY <1>1, <1>2
<1>4. b = [c EXCEPT !.active = n]
  BY <1>2 DEF TwoChanged
<1>5. /\ b \in [teams : Seq(TeamType), updates : Seq(UpdateType), active : Nat]
      /\ b.teams = rs /\ b.updates = a.updates /\ b.active = n
  BY <1>3, <1>4
<1> QED  BY <1>5 DEF WalkType

LEMMA CreateEvent ==
    ASSUME NEW a \in WalkType, NEW e \in LeadCall, e.op = "create"
    PROVE  Steps(a, LeadEvent(a, e), e)
<1>1. /\ a.teams \in Seq(TeamType) /\ a.updates \in Seq(UpdateType) /\ a.active \in Nat
      /\ Len(a.teams) \in Nat
  BY LenProperties DEF WalkType
<1>2. PICK x : x = NewTeam(e.team)
  OBVIOUS
<1>3. x \in TeamType
  BY <1>2, CallIs, NewTeamIs
<1>4. PICK rs : rs = Append(a.teams, x)
  OBVIOUS
<1>5. rs \in Seq(TeamType) /\ Len(rs) = Len(a.teams) + 1
  BY <1>1, <1>3, <1>4, AppendProperties
<1>6. LeadEvent(a, e) = [a EXCEPT !.teams = rs, !.active = Len(a.teams) + 1]
  BY <1>2, <1>4 DEF LeadEvent, NewTeam
<1>7. PICK b : b = [a EXCEPT !.teams = rs, !.active = Len(a.teams) + 1]
  OBVIOUS
<1>8. b \in WalkType /\ b.teams = rs /\ b.updates = a.updates /\ b.active = Len(a.teams) + 1
  <2>1. PICK n \in Nat : n = Len(a.teams) + 1 /\ n <= Len(rs)
    BY <1>1, <1>5
  <2>2. TwoChanged(a, b, rs, n)
    BY <1>7, <2>1 DEF TwoChanged
  <2> QED  BY <1>5, <2>1, <2>2, TwoChange
<1> QED  BY <1>2, <1>4, <1>6, <1>7, <1>8 DEF Steps

(* A call that changes no team, no update and no team in use.              *)
LEMMA NothingChanges ==
    ASSUME NEW a \in WalkType, NEW e \in LeadCall,
           e.op \in {"task", "update", "delete"}, a.active = 0
    PROVE  Steps(a, LeadEvent(a, e), e)
<1>1. LeadEvent(a, e) = a
  BY DEF LeadEvent
<1>2. a.teams \in Seq(TeamType) /\ 0 \notin DOMAIN a.teams
  BY LenProperties DEF WalkType
<1>3. Changed(a.teams, a.teams, e, a.active)
  BY <1>2 DEF Changed, Joins
<1> QED  BY <1>1, <1>3 DEF Steps

LEMMA UpdateEvent ==
    ASSUME NEW a \in WalkType, NEW e \in LeadCall, e.op = "update", a.active # 0
    PROVE  Steps(a, LeadEvent(a, e), e)
<1>1. a.teams \in Seq(TeamType) /\ a.updates \in Seq(UpdateType) /\ a.active \in Nat
  BY DEF WalkType
<1>2. PICK u : u = LeadsUpdate(a.active, e)
  OBVIOUS
<1>3. u \in UpdateType
  BY <1>1, <1>2, CallIs DEF UpdateType, LeadsUpdate
<1>4. PICK us : us = Append(a.updates, u)
  OBVIOUS
<1>5. us \in Seq(UpdateType)
  BY <1>1, <1>3, <1>4, AppendProperties
<1>6. LeadEvent(a, e) = [a EXCEPT !.updates = us]
  BY <1>2, <1>4 DEF LeadEvent, LeadsUpdate
<1>7. PICK b : b = [a EXCEPT !.updates = us]
  OBVIOUS
<1>8. b \in WalkType /\ b.teams = a.teams /\ b.updates = us /\ b.active = a.active
  BY <1>1, <1>5, <1>7 DEF WalkType
<1>9. Changed(a.teams, a.teams, e, a.active)
  BY <1>1 DEF Changed, Joins
<1> QED  BY <1>2, <1>4, <1>6, <1>7, <1>8, <1>9 DEF Steps

LEMMA TaskEvent ==
    ASSUME NEW a \in WalkType, NEW e \in LeadCall, e.op = "task", a.active # 0
    PROVE  Steps(a, LeadEvent(a, e), e)
<1>1. /\ a.teams \in Seq(TeamType) /\ a.updates \in Seq(UpdateType) /\ a.active \in Nat
      /\ a.active <= Len(a.teams)
  BY DEF WalkType
<1>2. PICK ts, n : ts = a.teams /\ n = a.active
  OBVIOUS
<1>3. n \in DOMAIN ts
  BY <1>1, <1>2, LenProperties
<1>4. PICK x : x = [ts[n] EXCEPT !.tasks = Append(@, NewTask)]
  OBVIOUS
<1>5. /\ x \in TeamType /\ x.name = ts[n].name /\ x.members = ts[n].members
      /\ x.tasks = Append(ts[n].tasks, NewTask)
  <2>1. ts[n] \in TeamType /\ Append(ts[n].tasks, NewTask) \in Seq(TaskType)
    BY <1>1, <1>2, <1>3, TeamIs, NewTaskIs, AppendProperties
  <2> QED  BY <1>4, <2>1 DEF TeamType
<1>6. PICK rs : rs = [ts EXCEPT ![n] = x]
  OBVIOUS
<1>7. /\ rs \in Seq(TeamType) /\ Len(rs) = Len(ts)
      /\ \A v \in DOMAIN ts : rs[v] = IF v = n THEN x ELSE ts[v]
  BY <1>1, <1>2, <1>3, <1>5, <1>6, TeamChanges
<1>8. Changed(ts, rs, e, n)
  BY <1>5, <1>7 DEF Changed, Joins
<1>9. LeadEvent(a, e) = [a EXCEPT !.teams = rs]
  <2>1. LeadEvent(a, e) = [a EXCEPT !.teams[a.active].tasks =
                              Append(@, [status |-> Pending, owner |-> None])]
    BY DEF LeadEvent
  <2> QED  BY <1>2, <1>4, <1>6, <2>1 DEF NewTask
<1>10. PICK b : b = [a EXCEPT !.teams = rs]
  OBVIOUS
<1>11. b \in WalkType /\ b.teams = rs /\ b.updates = a.updates /\ b.active = n
  BY <1>1, <1>2, <1>7, <1>10 DEF WalkType
<1> QED  BY <1>2, <1>8, <1>9, <1>10, <1>11 DEF Steps

LEMMA DeleteEvent ==
    ASSUME NEW a \in WalkType, NEW e \in LeadCall, e.op = "delete", a.active # 0
    PROVE  Steps(a, LeadEvent(a, e), e)
<1>1. /\ a.teams \in Seq(TeamType) /\ a.updates \in Seq(UpdateType) /\ a.active \in Nat
      /\ a.active <= Len(a.teams)
  BY DEF WalkType
<1>2. PICK ts, n : ts = a.teams /\ n = a.active
  OBVIOUS
<1>3. n \in DOMAIN ts
  BY <1>1, <1>2, LenProperties
<1>4. PICK x : x = [ts[n] EXCEPT !.deleted = TRUE]
  OBVIOUS
<1>5. /\ x \in TeamType /\ x.name = ts[n].name /\ x.members = ts[n].members
      /\ x.tasks = ts[n].tasks
  <2>1. ts[n] \in TeamType
    BY <1>1, <1>2, <1>3, TeamIs
  <2> QED  BY <1>4, <2>1 DEF TeamType
<1>6. PICK rs : rs = [ts EXCEPT ![n] = x]
  OBVIOUS
<1>7. /\ rs \in Seq(TeamType) /\ Len(rs) = Len(ts)
      /\ \A v \in DOMAIN ts : rs[v] = IF v = n THEN x ELSE ts[v]
  BY <1>1, <1>2, <1>3, <1>5, <1>6, TeamChanges
<1>8. Changed(ts, rs, e, n)
  BY <1>5, <1>7 DEF Changed, Joins
<1>9. LeadEvent(a, e) = [a EXCEPT !.teams = rs, !.active = 0]
  <2>1. LeadEvent(a, e) = [a EXCEPT !.teams[a.active].deleted = TRUE, !.active = 0]
    BY DEF LeadEvent
  <2> QED  BY <1>2, <1>4, <1>6, <2>1
<1>10. PICK b : b = [a EXCEPT !.teams = rs, !.active = 0]
  OBVIOUS
<1>11. b \in WalkType /\ b.teams = rs /\ b.updates = a.updates /\ b.active = 0
  <2>1. 0 \in Nat /\ 0 <= Len(rs)
    BY <1>7, LenProperties
  <2>2. TwoChanged(a, b, rs, 0)
    BY <1>2, <1>10 DEF TwoChanged
  <2> QED  BY <1>7, <2>1, <2>2, TwoChange
<1> QED  BY <1>2, <1>8, <1>9, <1>10, <1>11 DEF Steps

(* What any call of the lead does to the walk.                             *)
LEMMA LeadEventIs ==
    ASSUME NEW a \in WalkType, NEW e \in LeadCall
    PROVE  Steps(a, LeadEvent(a, e), e)
<1>1. e.op \in {"spawn", "create", "task", "delete", "update"}
  BY CallIs
<1> QED  BY <1>1, SpawnEvent, CreateEvent, TaskEvent, DeleteEvent, UpdateEvent, NothingChanges

----------------------------------------------------------------------------
(* The team in use, and the teams created. *)

(* Max of a set with a greatest member.                                    *)
LEMMA GreatestIs ==
    ASSUME NEW S \in SUBSET Nat, NEW n \in S, \A k \in S : k <= n
    PROVE  Max(S) = n
<1>1. \A x \in S : (\A y \in S : x >= y) <=> x = n
  <2>1. ASSUME NEW x \in S, \A y \in S : x >= y PROVE x = n
    <3>1. x >= n /\ x <= n /\ x \in Nat /\ n \in Nat
      BY <2>1
    <3> QED  BY <3>1
  <2>2. \A y \in S : n >= y
    OBVIOUS
  <2> QED  BY <2>1, <2>2
<1>2. (CHOOSE x \in S : \A y \in S : x >= y) = n
  BY <1>1
<1> QED  BY <1>2 DEF Max

LEMMA LeadIs ==
    ASSUME IInv
    PROVE  /\ lead \in Seq(LeadCall) /\ Len(lead) \in Nat /\ DOMAIN lead = 1 .. Len(lead)
           /\ \A i \in 1 .. Len(lead) : lead[i] \in LeadCall
  BY LenProperties, ElementOfSeq DEF IInv, LeadInv

(* The teams the first n calls create are numbered as they come.           *)
LEMMA CreatesAre ==
    ASSUME NEW n \in Nat
    PROVE  /\ Creates(n) \in SUBSET (1 .. n) /\ Creates(n) \in SUBSET Nat
           /\ IsFiniteSet(Creates(n)) /\ Cardinality(Creates(n)) \in Nat
<1>1. Creates(n) \in SUBSET (1 .. n)
  BY DEF Creates
<1> QED  BY <1>1, PlacesFinite, FS_CardinalityType

LEMMA CreatesStep ==
    ASSUME NEW n \in Nat, n # 0
    PROVE  /\ lead[n].op = "create" =>
                  /\ Creates(n) = Creates(n - 1) \cup {n}
                  /\ Cardinality(Creates(n)) = Cardinality(Creates(n - 1)) + 1
           /\ lead[n].op # "create" => Creates(n) = Creates(n - 1)
<1>1. n - 1 \in Nat /\ \A j \in 1 .. n : j = n \/ j \in 1 .. n - 1
  OBVIOUS
<1>2. 1 .. n - 1 \subseteq 1 .. n /\ n \in 1 .. n /\ n \notin 1 .. n - 1
  OBVIOUS
<1>3. ASSUME lead[n].op = "create" PROVE Creates(n) = Creates(n - 1) \cup {n}
  BY <1>1, <1>2, <1>3 DEF Creates
<1>4. n \notin Creates(n - 1)
  BY <1>2 DEF Creates
<1>5. Cardinality(Creates(n - 1) \cup {n}) = Cardinality(Creates(n - 1)) + 1
  BY <1>1, <1>4, CreatesAre, FS_AddElement
<1>6. ASSUME lead[n].op # "create" PROVE Creates(n) = Creates(n - 1)
  BY <1>1, <1>2, <1>6 DEF Creates
<1> QED  BY <1>3, <1>5, <1>6

LEMMA CreatesGrow ==
    ASSUME NEW m \in Nat, NEW n \in Nat, m <= n
    PROVE  /\ Creates(m) \subseteq Creates(n)
           /\ Cardinality(Creates(m)) <= Cardinality(Creates(n))
<1>1. \A j \in 1 .. m : j \in 1 .. n
  OBVIOUS
<1>2. Creates(m) \subseteq Creates(n)
  BY <1>1 DEF Creates
<1> QED  BY <1>2, CreatesAre, FS_Subset

(* The number of the team that call j creates is its rank among them.       *)
LEMMA TeamNumber ==
    ASSUME NEW n \in Nat, NEW j \in Creates(n)
    PROVE  Rank(Creates(n), j) = Cardinality(Creates(j))
<1>1. j \in Nat /\ j <= n
  BY DEF Creates
<1>2. \A i \in 1 .. j : i \in 1 .. n /\ i <= j
  BY <1>1
<1>3. \A i \in 1 .. n : i <= j => i \in 1 .. j
  BY <1>1
<1>4. {i \in Creates(n) : i <= j} = Creates(j)
  BY <1>2, <1>3 DEF Creates
<1> QED  BY <1>4 DEF Rank

TeamOps(i) == {j \in 1 .. i - 1 : lead[j].op \in {"create", "delete"}}

(* The team that is active at a call, and how the call changes it.         *)
LEMMA ActiveIs ==
    ASSUME NEW i
    PROVE  ActiveAt(i) = IF TeamOps(i) = {} \/ lead[Max(TeamOps(i))].op = "delete" THEN 0
                         ELSE Cardinality(Creates(i - 1))
  BY DEF ActiveAt, TeamOps

LEMMA ActiveStep ==
    ASSUME NEW n \in Nat, n # 0
    PROVE  ActiveAt(n + 1) = IF lead[n].op = "create" THEN Cardinality(Creates(n))
                             ELSE IF lead[n].op = "delete" THEN 0 ELSE ActiveAt(n)
<1>1. (n + 1) - 1 = n /\ n \in 1 .. n /\ \A j \in 1 .. n : j = n \/ j \in 1 .. n - 1
  OBVIOUS
<1>2. \A j \in 1 .. n - 1 : j \in 1 .. n
  OBVIOUS
<1>3. CASE lead[n].op \in {"create", "delete"}
  <2>1. /\ n \in TeamOps(n + 1) /\ TeamOps(n + 1) \in SUBSET Nat
        /\ \A k \in TeamOps(n + 1) : k <= n
    BY <1>1, <1>3 DEF TeamOps
  <2>2. Max(TeamOps(n + 1)) = n /\ TeamOps(n + 1) # {}
    BY <2>1, GreatestIs
  <2>3. ActiveAt(n + 1) = IF lead[n].op = "delete" THEN 0 ELSE Cardinality(Creates(n))
    BY <1>1, <2>2, ActiveIs
  <2> QED  BY <1>3, <2>3
<1>4. CASE lead[n].op \notin {"create", "delete"}
  <2>1. TeamOps(n + 1) = TeamOps(n)
    BY <1>1, <1>2, <1>4 DEF TeamOps
  <2>2. Creates((n + 1) - 1) = Creates(n - 1)
    BY <1>1, <1>4, CreatesStep
  <2> QED  BY <1>4, <2>1, <2>2, ActiveIs
<1> QED  BY <1>3, <1>4

LEMMA ActiveBound ==
    ASSUME NEW i \in Nat, i # 0
    PROVE  ActiveAt(i) \in 0 .. Cardinality(Creates(i - 1))
<1>1. i - 1 \in Nat
  OBVIOUS
<1>2. Cardinality(Creates(i - 1)) \in Nat
  BY <1>1, CreatesAre
<1> QED  BY <1>2, ActiveIs

LEMMA FirstActive == ActiveAt(1) = 0
<1>1. TeamOps(1) = {}
  BY DEF TeamOps
<1> QED  BY <1>1, ActiveIs

(* Before entry n the teams created have the names of their calls.         *)
Named(ts, n) ==
    /\ Len(ts) = Cardinality(Creates(n))
    /\ \A j \in Creates(n) : ts[Cardinality(Creates(j))].name = lead[j].team

(* Looking a team up by name finds the first one created under it.         *)
LEMMA FirstTeamIs ==
    ASSUME NEW ts \in Seq(TeamType), NEW n \in Nat, Named(ts, n), NEW name
    PROVE  FindTeamIndex(ts, name) = FirstTeam(name, n)
<1> DEFINE S == Creates(n)
           named == {j \in S : lead[j].team = name}
           t == FindTeamIndex(ts, name)
<1>1. S \in SUBSET Nat /\ IsFiniteSet(S) /\ Cardinality(S) \in Nat /\ S \subseteq 1 .. n
  BY CreatesAre
<1>2. DOMAIN ts = 1 .. Cardinality(S)
  BY LenProperties DEF Named
<1>3. \A j \in S : Rank(S, j) = Cardinality(Creates(j)) /\ Cardinality(Creates(j)) \in DOMAIN ts
  BY <1>1, <1>2, TeamNumber, RankIs
<1>4. \A j \in S : ts[Rank(S, j)].name = lead[j].team
  BY <1>3 DEF Named
<1>5. FirstTeam(name, n) = IF named = {} THEN 0 ELSE Cardinality(Creates(Min(named)))
  BY DEF FirstTeam
<1> HIDE DEF S
<1>6. CASE named = {}
  <2>1. ASSUME NEW u \in DOMAIN ts PROVE ts[u].name # name
    <3>1. PICK j \in S : Rank(S, j) = u
      BY <1>1, <1>2, RankOnto
    <3> QED  BY <1>4, <1>6, <3>1
  <2> QED  BY <1>5, <1>6, <2>1, FindIs
<1>7. CASE named # {}
  <2>1. named \in SUBSET Nat
    BY <1>1
  <2>2. PICK j : j = Min(named) /\ j \in named /\ \A k \in named : j <= k
    BY <1>7, <2>1, LeastIs
  <2>3. PICK r : r = Rank(S, j) /\ r \in DOMAIN ts /\ ts[r].name = name
    BY <1>3, <1>4, <2>2
  <2>4. t \in DOMAIN ts /\ ts[t].name = name /\ t <= r
    BY <2>3, FindIs
  <2>5. PICK k \in S : Rank(S, k) = t
    BY <1>1, <1>2, <2>4, RankOnto
  <2>6. k \in named /\ j <= k /\ j \in S
    BY <1>4, <2>2, <2>4, <2>5
  <2>7. j # k => Rank(S, j) < Rank(S, k)
    <3>1. j \in Nat /\ k \in Nat /\ (j # k => j < k)
      BY <1>1, <2>6
    <3> QED  BY <1>1, <2>6, <3>1, RankIs
  <2>8. t \in Nat /\ r \in Nat
    BY <1>2, <2>3, <2>4, <1>1
  <2>9. j = k
    BY <2>3, <2>4, <2>5, <2>7, <2>8
  <2> QED  BY <1>3, <1>5, <1>7, <2>2, <2>3, <2>5, <2>6, <2>9
<1> QED  BY <1>6, <1>7

----------------------------------------------------------------------------
(* What phase 1 knows of the first n calls. *)

TasksOf(n, t) == {i \in 1 .. n : lead[i].op = "task" /\ ActiveAt(i) = t}

TasksLed(n, ts) ==
    \A t \in DOMAIN ts : /\ Len(ts[t].tasks) = Cardinality(TasksOf(n, t))
                         /\ \A k \in DOMAIN ts[t].tasks : ts[t].tasks[k] = NewTask

(* Each call adds at most one task, to the team that is active.            *)
LEMMA TasksOfStep ==
    ASSUME NEW n \in Nat, n # 0, NEW t
    PROVE  /\ Cardinality(TasksOf(n - 1, t)) \in Nat
           /\ lead[n].op = "task" /\ ActiveAt(n) = t =>
                 Cardinality(TasksOf(n, t)) = Cardinality(TasksOf(n - 1, t)) + 1
           /\ ~ (lead[n].op = "task" /\ ActiveAt(n) = t) => TasksOf(n, t) = TasksOf(n - 1, t)
<1>1. n - 1 \in Nat /\ n \in 1 .. n /\ \A j \in 1 .. n : j = n \/ j \in 1 .. n - 1
  OBVIOUS
<1>2. n \notin 1 .. n - 1 /\ \A j \in 1 .. n - 1 : j \in 1 .. n
  OBVIOUS
<1>3. TasksOf(n - 1, t) \in SUBSET (1 .. n - 1) /\ n \notin TasksOf(n - 1, t)
  BY <1>2 DEF TasksOf
<1>4. IsFiniteSet(TasksOf(n - 1, t))
  BY <1>1, <1>3, PlacesFinite
<1>5. lead[n].op = "task" /\ ActiveAt(n) = t => TasksOf(n, t) = TasksOf(n - 1, t) \cup {n}
  BY <1>1, <1>2 DEF TasksOf
<1>6. ~ (lead[n].op = "task" /\ ActiveAt(n) = t) => TasksOf(n, t) = TasksOf(n - 1, t)
  BY <1>1, <1>2 DEF TasksOf
<1>7. Cardinality(TasksOf(n - 1, t) \cup {n}) = Cardinality(TasksOf(n - 1, t)) + 1
  BY <1>3, <1>4, FS_AddElement
<1> QED  BY <1>4, <1>5, <1>6, <1>7, FS_CardinalityType

(* A team has no tasks before it is created.                               *)
LEMMA NoTasksYet ==
    ASSUME NEW n \in Nat, NEW t \in Nat, Cardinality(Creates(n)) < t
    PROVE  Cardinality(TasksOf(n, t)) = 0
<1>1. ASSUME NEW i \in TasksOf(n, t) PROVE FALSE
  <2>1. i \in Nat /\ i # 0 /\ i - 1 \in Nat /\ i - 1 <= n /\ ActiveAt(i) = t
    BY DEF TasksOf
  <2>2. Cardinality(Creates(i - 1)) <= Cardinality(Creates(n))
    BY <2>1, CreatesGrow
  <2>3. ActiveAt(i) \in 0 .. Cardinality(Creates(i - 1))
    BY <2>1, ActiveBound
  <2>4. Cardinality(Creates(i - 1)) \in Nat /\ Cardinality(Creates(n)) \in Nat
    BY <2>1, CreatesAre
  <2> QED  BY <2>1, <2>2, <2>3, <2>4
<1>2. TasksOf(n, t) = {}
  BY <1>1
<1> QED  BY <1>2, FS_EmptySet

LEMMA TasksStep ==
    ASSUME NEW n \in Nat, n # 0, NEW a \in WalkType, NEW b, lead[n] \in LeadCall,
           Steps(a, b, lead[n]), Named(a.teams, n - 1), a.active = ActiveAt(n),
           TasksLed(n - 1, a.teams)
    PROVE  TasksLed(n, b.teams)
<1>1. /\ a.teams \in Seq(TeamType) /\ DOMAIN a.teams = 1 .. Len(a.teams) /\ Len(a.teams) \in Nat
      /\ b.teams \in Seq(TeamType) /\ DOMAIN b.teams = 1 .. Len(b.teams)
  BY LenProperties DEF WalkType, Steps
<1>2. CASE lead[n].op = "create"
  <2>1. PICK x : x = NewTeam(lead[n].team) /\ x.tasks = <<>>
    BY <1>2, CallIs, NewTeamIs
  <2>2. b.teams = Append(a.teams, x) /\ x \in TeamType
    BY <1>2, <2>1, CallIs, NewTeamIs DEF Steps
  <2>3. /\ Len(b.teams) = Len(a.teams) + 1 /\ b.teams[Len(a.teams) + 1] = x
        /\ \A t \in 1 .. Len(a.teams) : b.teams[t] = a.teams[t]
    BY <1>1, <2>2, AppendProperties
  <2>4. ASSUME NEW t \in DOMAIN b.teams
        PROVE  /\ Len(b.teams[t].tasks) = Cardinality(TasksOf(n, t))
               /\ \A k \in DOMAIN b.teams[t].tasks : b.teams[t].tasks[k] = NewTask
    <3>0. TasksOf(n, t) = TasksOf(n - 1, t)
      BY <1>2, TasksOfStep
    <3>1. CASE t \in 1 .. Len(a.teams)
      BY <1>1, <2>3, <3>0, <3>1 DEF TasksLed
    <3>2. CASE t = Len(a.teams) + 1
      <4>1. Cardinality(TasksOf(n - 1, t)) = 0
        <5>1. n - 1 \in Nat /\ t \in Nat /\ Cardinality(Creates(n - 1)) < t
          BY <1>1, <3>2 DEF Named
        <5> QED  BY <5>1, NoTasksYet
      <4>2. Len(b.teams[t].tasks) = 0 /\ DOMAIN b.teams[t].tasks = {}
        BY <2>1, <2>3, <3>2
      <4> QED  BY <3>0, <4>1, <4>2
    <3> QED  BY <1>1, <2>3, <3>1, <3>2
  <2> QED  BY <2>4 DEF TasksLed
<1>3. CASE lead[n].op # "create"
  <2>1. Changed(a.teams, b.teams, lead[n], a.active)
    BY <1>3 DEF Steps
  <2>2. DOMAIN b.teams = DOMAIN a.teams
    BY <1>1, <2>1 DEF Changed
  <2>3. ASSUME NEW t \in DOMAIN a.teams
        PROVE  /\ Len(b.teams[t].tasks) = Cardinality(TasksOf(n, t))
               /\ \A k \in DOMAIN b.teams[t].tasks : b.teams[t].tasks[k] = NewTask
    <3>1. PICK q, r : q = a.teams[t].tasks /\ r = b.teams[t].tasks
      OBVIOUS
    <3>2. /\ q \in Seq(TaskType) /\ Len(q) = Cardinality(TasksOf(n - 1, t))
          /\ \A k \in DOMAIN q : q[k] = NewTask
      BY <1>1, <3>1, TeamIs DEF TasksLed
    <3>3. r = IF lead[n].op = "task" /\ ActiveAt(n) = t THEN Append(q, NewTask) ELSE q
      BY <2>1, <3>1 DEF Changed
    <3>4. CASE lead[n].op = "task" /\ ActiveAt(n) = t
      <4>1. r = Append(q, NewTask)
        BY <3>3, <3>4
      <4>2. /\ Len(r) = Len(q) + 1 /\ DOMAIN r = 1 .. Len(q) + 1 /\ r[Len(q) + 1] = NewTask
            /\ \A k \in 1 .. Len(q) : r[k] = q[k]
        BY <3>2, <4>1, NewTaskIs, AppendProperties, LenProperties
      <4>3. DOMAIN q = 1 .. Len(q) /\ Len(q) \in Nat
        BY <3>2, LenProperties
      <4>4. \A k \in DOMAIN r : r[k] = NewTask
        BY <3>2, <4>2, <4>3
      <4> QED  BY <3>1, <3>2, <3>4, <4>2, <4>4, TasksOfStep
    <3>5. CASE ~ (lead[n].op = "task" /\ ActiveAt(n) = t)
      <4>1. r = q
        BY <3>3, <3>5
      <4>2. TasksOf(n, t) = TasksOf(n - 1, t)
        BY <3>5, TasksOfStep
      <4> QED  BY <3>1, <3>2, <4>1, <4>2
    <3> QED  BY <3>4, <3>5
  <2> QED  BY <2>2, <2>3 DEF TasksLed
<1> QED  BY <1>2, <1>3

(* Every teammate whose call found its team is a member of it.             *)
JoinedBy(i, ts) ==
    \E t \in DOMAIN ts : ts[t].name = lead[i].team /\ lead[i].name \in Range(ts[t].members)

Joining(i) ==
    /\ lead[i].op = "spawn" /\ IsTeamTask(lead[i])
    /\ FirstTeam(lead[i].team, i) # 0

MembersLed(n, ts) ==
    /\ \A t \in DOMAIN ts : IsInjective(ts[t].members)
    /\ \A i \in 1 .. n : Joining(i) => JoinedBy(i, ts)

(* A member more, who was none.                                            *)
LEMMA OneMore ==
    ASSUME NEW q \in Seq(Name), NEW x \in Name
    PROVE  /\ Range(Append(q, x)) = Range(q) \cup {x}
           /\ x \notin Range(q) /\ IsInjective(q) => IsInjective(Append(q, x))
<1>1. PICK r : r = Append(q, x)
  OBVIOUS
<1>2. /\ Len(q) \in Nat /\ DOMAIN q = 1 .. Len(q) /\ DOMAIN r = 1 .. Len(q) + 1
      /\ r[Len(q) + 1] = x /\ \A k \in 1 .. Len(q) : r[k] = q[k]
  BY <1>1, AppendProperties, LenProperties
<1>3. \A k \in 1 .. Len(q) + 1 : k = Len(q) + 1 \/ k \in 1 .. Len(q)
  BY <1>2
<1>4. \A k \in 1 .. Len(q) : k \in 1 .. Len(q) + 1
  BY <1>2
<1>5. Range(r) = Range(q) \cup {x}
  <2>1. Len(q) + 1 \in DOMAIN r
    BY <1>2
  <2> QED  BY <1>2, <1>3, <1>4, <2>1 DEF Range
<1>6. ASSUME x \notin Range(q), IsInjective(q) PROVE IsInjective(r)
  <2>1. \A k \in 1 .. Len(q) : q[k] # x
    BY <1>2, <1>6 DEF Range
  <2> QED  BY <1>2, <1>3, <1>6, <2>1 DEF IsInjective
<1> QED  BY <1>1, <1>5, <1>6

(* Each call adds at most one member, to the first team of its name.       *)
LEMMA MembersStep ==
    ASSUME NEW n \in Nat, n # 0, NEW a \in WalkType, NEW b, lead[n] \in LeadCall,
           Steps(a, b, lead[n]), Named(a.teams, n - 1), MembersLed(n - 1, a.teams)
    PROVE  MembersLed(n, b.teams)
<1>1. /\ a.teams \in Seq(TeamType) /\ DOMAIN a.teams = 1 .. Len(a.teams) /\ Len(a.teams) \in Nat
      /\ b.teams \in Seq(TeamType) /\ DOMAIN b.teams = 1 .. Len(b.teams)
  BY LenProperties DEF WalkType, Steps
<1>2. n - 1 \in Nat /\ \A i \in 1 .. n : i = n \/ i \in 1 .. n - 1
  OBVIOUS
<1>3. CASE lead[n].op = "create"
  <2>1. PICK x : x = NewTeam(lead[n].team) /\ x.members = <<>>
    BY <1>3, CallIs, NewTeamIs
  <2>2. b.teams = Append(a.teams, x) /\ x \in TeamType
    BY <1>3, <2>1, CallIs, NewTeamIs DEF Steps
  <2>3. /\ Len(b.teams) = Len(a.teams) + 1 /\ b.teams[Len(a.teams) + 1] = x
        /\ \A t \in 1 .. Len(a.teams) : b.teams[t] = a.teams[t]
    BY <1>1, <2>2, AppendProperties
  <2>4. ASSUME NEW t \in DOMAIN b.teams PROVE IsInjective(b.teams[t].members)
    <3>1. CASE t \in 1 .. Len(a.teams)
      BY <1>1, <2>3, <3>1 DEF MembersLed
    <3>2. CASE t = Len(a.teams) + 1
      <4>1. b.teams[t].members = <<>>
        BY <2>1, <2>3, <3>2
      <4> QED  BY <4>1 DEF IsInjective
    <3> QED  BY <1>1, <2>3, <3>1, <3>2
  <2>5. \A i \in 1 .. n : Joining(i) => i \in 1 .. n - 1
    BY <1>2, <1>3 DEF Joining
  <2>6. ASSUME NEW i \in 1 .. n - 1, Joining(i) PROVE JoinedBy(i, b.teams)
    <3>1. PICK t \in DOMAIN a.teams : /\ a.teams[t].name = lead[i].team
                                      /\ lead[i].name \in Range(a.teams[t].members)
      BY <2>6 DEF MembersLed, JoinedBy
    <3>2. b.teams[t] = a.teams[t] /\ t \in DOMAIN b.teams
      BY <1>1, <2>3
    <3> QED  BY <3>1, <3>2 DEF JoinedBy
  <2> QED  BY <2>4, <2>5, <2>6 DEF MembersLed
<1>4. CASE lead[n].op # "create"
  <2> DEFINE e == lead[n]
  <2>1. Changed(a.teams, b.teams, e, a.active)
    BY <1>4 DEF Steps
  <2>2. DOMAIN b.teams = DOMAIN a.teams
    BY <1>1, <2>1 DEF Changed
  <2>3. ASSUME NEW t \in DOMAIN a.teams
        PROVE  /\ b.teams[t].name = a.teams[t].name
               /\ IsInjective(b.teams[t].members)
               /\ Range(a.teams[t].members) \subseteq Range(b.teams[t].members)
               /\ Joins(a.teams, e, t) => e.name \in Range(b.teams[t].members)
    <3>1. PICK q, r : q = a.teams[t].members /\ r = b.teams[t].members
      OBVIOUS
    <3>2. q \in Seq(Name) /\ IsInjective(q)
      BY <1>1, <3>1, TeamIs DEF MembersLed
    <3>3. r = IF Joins(a.teams, e, t) THEN Append(q, e.name) ELSE q
      BY <2>1, <3>1 DEF Changed
    <3>4. b.teams[t].name = a.teams[t].name
      BY <2>1 DEF Changed
    <3>5. CASE Joins(a.teams, e, t)
      <4>1. e.name \in Name /\ e.name \notin Range(q)
        BY <3>1, <3>5, CallIs DEF Joins
      <4>2. r = Append(q, e.name)
        BY <3>3, <3>5
      <4>3. Range(r) = Range(q) \cup {e.name} /\ IsInjective(r)
        BY <3>2, <4>1, <4>2, OneMore
      <4> QED  BY <3>1, <3>4, <4>3
    <3>6. CASE ~ Joins(a.teams, e, t)
      <4>1. r = q
        BY <3>3, <3>6
      <4> QED  BY <3>1, <3>2, <3>4, <3>6, <4>1
    <3> QED  BY <3>5, <3>6
  <2>4. ASSUME NEW i \in 1 .. n - 1, Joining(i) PROVE JoinedBy(i, b.teams)
    <3>1. PICK t \in DOMAIN a.teams : /\ a.teams[t].name = lead[i].team
                                      /\ lead[i].name \in Range(a.teams[t].members)
      BY <2>4 DEF MembersLed, JoinedBy
    <3> QED  BY <2>2, <2>3, <3>1 DEF JoinedBy
  <2>5. ASSUME Joining(n) PROVE JoinedBy(n, b.teams)
    <3>1. Creates(n) = Creates(n - 1)
      BY <1>4, CreatesStep
    <3>2. FirstTeam(e.team, n) = FirstTeam(e.team, n - 1)
      BY <3>1 DEF FirstTeam
    <3>3. PICK t : t = FindTeamIndex(a.teams, e.team) /\ t # 0
      BY <1>1, <1>2, <2>5, <3>2, FirstTeamIs DEF Joining
    <3>4. t \in DOMAIN a.teams /\ a.teams[t].name = e.team
      BY <1>1, <3>3, FindIs
    <3>5. e.name \in Range(b.teams[t].members)
      <4>1. CASE e.name \in Range(a.teams[t].members)
        BY <2>3, <3>4, <4>1
      <4>2. CASE e.name \notin Range(a.teams[t].members)
        <5>1. Joins(a.teams, e, t)
          BY <2>5, <3>3, <4>2 DEF Joins, Joining
        <5> QED  BY <2>3, <3>4, <5>1
      <4> QED  BY <4>1, <4>2
    <3> QED  BY <2>2, <2>3, <3>4, <3>5 DEF JoinedBy
  <2> QED  BY <1>2, <2>2, <2>3, <2>4, <2>5 DEF MembersLed
<1> QED  BY <1>3, <1>4

----------------------------------------------------------------------------
(* Where updates come from: entry x[2] of the lead's calls, or update x[2]  *)
(* of the agent x[1] that is shown.                                         *)

Agents == ProcsOf(view)

UpdateAt(x) ==
    IF x[1] = 0 THEN LeadsUpdate(ActiveAt(x[2]), lead[x[2]])
    ELSE LET p == Agents[x[1]] IN
         [team |-> FirstTeam(p.id.team, view), by |-> p.file, fallback |-> p.id.name,
          up |-> p.updates[x[2]]]

Before(x, y) == x[1] < y[1] \/ (x[1] = y[1] /\ x[2] < y[2])

(* us are the updates at X, one after the other; s tells where each is.     *)
Sources(us, s, X) ==
    /\ us \in Seq(UpdateType)
    /\ s \in [1 .. Len(us) -> X]
    /\ \A x \in X : \E m \in 1 .. Len(us) : s[m] = x
    /\ \A m \in 1 .. Len(us) : us[m] = UpdateAt(s[m])
    /\ \A m, n \in 1 .. Len(us) : m < n => Before(s[m], s[n])

(* Updates with their sources, joined in order.                            *)
LEMMA SourcesJoin ==
    ASSUME NEW us, NEW s, NEW X, Sources(us, s, X), NEW vs, NEW r, NEW Y, Sources(vs, r, Y),
           \A x \in X, y \in Y : Before(x, y)
    PROVE  \E q : Sources(us \o vs, q, X \cup Y)
<1>1. /\ us \in Seq(UpdateType) /\ vs \in Seq(UpdateType)
      /\ Len(us) \in Nat /\ Len(vs) \in Nat
  BY LenProperties DEF Sources
<1>2. PICK ws, a, b : ws = us \o vs /\ a = Len(us) /\ b = Len(vs)
  OBVIOUS
<1>3. /\ ws \in Seq(UpdateType) /\ Len(ws) = a + b /\ a \in Nat /\ b \in Nat
      /\ \A m \in 1 .. a + b : ws[m] = IF m <= a THEN us[m] ELSE vs[m - a]
  BY <1>1, <1>2, ConcatProperties
<1>4. PICK q : q = [m \in 1 .. a + b |-> IF m <= a THEN s[m] ELSE r[m - a]]
  OBVIOUS
<1>5. \A m \in 1 .. a + b : \/ m \in 1 .. a /\ m <= a
                            \/ m - a \in 1 .. b /\ ~ (m <= a)
  BY <1>3
<1>6. \A m \in 1 .. a : m \in 1 .. a + b /\ q[m] = s[m] /\ ws[m] = us[m]
  BY <1>3, <1>4
<1>7. ASSUME NEW m \in 1 .. b
      PROVE  m + a \in 1 .. a + b /\ q[m + a] = r[m] /\ ws[m + a] = vs[m]
  <2>1. m + a \in 1 .. a + b /\ ~ (m + a <= a) /\ (m + a) - a = m
    BY <1>3
  <2> QED  BY <1>3, <1>4, <2>1
<1>8. \A m \in 1 .. a : s[m] \in X /\ us[m] = UpdateAt(s[m])
  BY <1>2 DEF Sources
<1>9. \A m \in 1 .. b : r[m] \in Y /\ vs[m] = UpdateAt(r[m])
  BY <1>2 DEF Sources
<1>10. ASSUME NEW m \in 1 .. a + b
       PROVE  q[m] \in X \cup Y /\ ws[m] = UpdateAt(q[m])
  <2>1. CASE m \in 1 .. a
    BY <1>6, <1>8, <2>1
  <2>2. CASE m - a \in 1 .. b
    <3>1. PICK k \in 1 .. b : k = m - a
      BY <2>2
    <3>2. k + a = m
      BY <1>3, <3>1
    <3> QED  BY <1>7, <1>9, <3>2
  <2> QED  BY <1>5, <2>1, <2>2
<1>11. q \in [1 .. a + b -> X \cup Y]
  <2>1. DOMAIN q = 1 .. a + b /\ q = [m \in 1 .. a + b |-> q[m]]
    BY <1>4
  <2> QED  BY <1>10, <2>1
<1>12. ASSUME NEW x \in X \cup Y PROVE \E m \in 1 .. a + b : q[m] = x
  <2>1. CASE x \in X
    <3>1. PICK m \in 1 .. a : s[m] = x
      BY <1>2, <2>1 DEF Sources
    <3> QED  BY <1>6, <3>1
  <2>2. CASE x \in Y
    <3>1. PICK m \in 1 .. b : r[m] = x
      BY <1>2, <2>2 DEF Sources
    <3> QED  BY <1>7, <3>1
  <2> QED  BY <2>1, <2>2
<1>13. ASSUME NEW m \in 1 .. a + b, NEW n \in 1 .. a + b, m < n PROVE Before(q[m], q[n])
  <2>1. CASE m \in 1 .. a /\ n \in 1 .. a
    <3>1. Before(s[m], s[n])
      BY <1>2, <1>13, <2>1 DEF Sources
    <3> QED  BY <1>6, <2>1, <3>1
  <2>2. CASE m \in 1 .. a /\ n - a \in 1 .. b
    <3>1. PICK k \in 1 .. b : k = n - a
      BY <2>2
    <3>2. k + a = n
      BY <1>3, <3>1
    <3> QED  BY <1>6, <1>7, <1>8, <1>9, <2>2, <3>2
  <2>3. CASE m - a \in 1 .. b /\ n - a \in 1 .. b
    <3>1. PICK k, l \in 1 .. b : k = m - a /\ l = n - a
      BY <2>3
    <3>2. k + a = m /\ l + a = n /\ k < l
      BY <1>3, <1>13, <3>1
    <3>3. Before(r[k], r[l])
      BY <1>2, <3>2 DEF Sources
    <3> QED  BY <1>7, <3>2, <3>3
  <2>4. ~ (m - a \in 1 .. b /\ n \in 1 .. a)
    BY <1>3, <1>13
  <2> QED  BY <1>5, <2>1, <2>2, <2>3, <2>4
<1> HIDE DEF Sources
<1>14. Sources(ws, q, X \cup Y)
  BY <1>3, <1>10, <1>11, <1>12, <1>13 DEF Sources
<1> QED  BY <1>2, <1>14

LEMMA NoSources == \E s : Sources(<<>>, s, {})
<1>1. PICK us : us = <<>> /\ us \in Seq(UpdateType) /\ Len(us) = 0
  BY EmptySeq
<1>2. PICK s : s = [m \in {} |-> 0]
  OBVIOUS
<1>3. s \in [1 .. Len(us) -> {}] /\ 1 .. Len(us) = {}
  BY <1>1, <1>2
<1>4. Sources(us, s, {})
  BY <1>1, <1>3 DEF Sources
<1> QED  BY <1>1, <1>4

LEMMA OneSource ==
    ASSUME NEW x, UpdateAt(x) \in UpdateType
    PROVE  \E s : Sources(<<UpdateAt(x)>>, s, {x})
<1>1. PICK u : u = UpdateAt(x)
  OBVIOUS
<1>2. PICK us : us = <<u>>
  OBVIOUS
<1>3. us \in Seq(UpdateType) /\ Len(us) = 1 /\ us[1] = u
  BY <1>1, <1>2
<1>4. PICK s : s = [m \in 1 .. 1 |-> x]
  OBVIOUS
<1>5. s \in [1 .. Len(us) -> {x}] /\ \A m \in 1 .. Len(us) : m = 1 /\ s[m] = x
  BY <1>3, <1>4
<1>6. \A m, n \in 1 .. Len(us) : ~ (m < n)
  BY <1>3
<1>7. 1 \in 1 .. Len(us)
  BY <1>3
<1>8. Sources(us, s, {x})
  BY <1>1, <1>3, <1>5, <1>6, <1>7 DEF Sources
<1> QED  BY <1>1, <1>2, <1>8

LeadSites(n) == {<<0, i>> : i \in {i \in 1 .. n : lead[i].op = "update" /\ ActiveAt(i) # 0}}

UpdatesLed(n, us) == \E s : Sources(us, s, LeadSites(n))

(* Each call adds at most one update, with the call as its source.         *)
LEMMA UpdatesStep ==
    ASSUME NEW n \in Nat, n # 0, NEW a \in WalkType, NEW b, lead[n] \in LeadCall,
           Steps(a, b, lead[n]), a.active = ActiveAt(n), UpdatesLed(n - 1, a.updates)
    PROVE  UpdatesLed(n, b.updates)
<1>1. \A i \in 1 .. n : i = n \/ i \in 1 .. n - 1
  OBVIOUS
<1>2. n \in 1 .. n /\ \A i \in 1 .. n - 1 : i \in 1 .. n /\ i < n
  OBVIOUS
<1>3. CASE lead[n].op = "update" /\ a.active # 0
  <2>1. LeadSites(n) = LeadSites(n - 1) \cup {<<0, n>>}
    BY <1>1, <1>2, <1>3 DEF LeadSites
  <2> DEFINE y == <<0, n>>
  <2>0. y[1] = 0 /\ y[2] = n
    OBVIOUS
  <2>2. PICK x : x = y /\ x[1] = 0 /\ x[2] = n
    BY <2>0
  <2>3. UpdateAt(x) = LeadsUpdate(a.active, lead[n])
    BY <2>2 DEF UpdateAt
  <2>4. UpdateAt(x) \in UpdateType
    <3>1. a.active \in Nat /\ lead[n].up \in TaskUpdate
      BY <1>3, CallIs DEF WalkType
    <3> QED  BY <2>3, <3>1 DEF LeadsUpdate, UpdateType
  <2>5. PICK s : Sources(a.updates, s, LeadSites(n - 1))
    BY DEF UpdatesLed
  <2>6. PICK r : Sources(<<UpdateAt(x)>>, r, {x})
    BY <2>4, OneSource
  <2>7. \A w \in LeadSites(n - 1), z \in {x} : Before(w, z)
    BY <1>2, <2>2 DEF LeadSites, Before
  <2>8. \E q : Sources(a.updates \o <<UpdateAt(x)>>, q, LeadSites(n - 1) \cup {x})
    BY <2>5, <2>6, <2>7, SourcesJoin
  <2>9. b.updates = Append(a.updates, UpdateAt(x))
    BY <1>3, <2>3 DEF Steps
  <2>10. Append(a.updates, UpdateAt(x)) = a.updates \o <<UpdateAt(x)>>
    BY <2>4, AppendIsConcat DEF WalkType
  <2> QED  BY <2>1, <2>2, <2>8, <2>9, <2>10 DEF UpdatesLed
<1>4. CASE ~ (lead[n].op = "update" /\ a.active # 0)
  <2>1. LeadSites(n) = LeadSites(n - 1)
    BY <1>1, <1>2, <1>4 DEF LeadSites
  <2>2. b.updates = a.updates
    BY <1>4 DEF Steps
  <2> QED  BY <2>1, <2>2 DEF UpdatesLed
<1> QED  BY <1>3, <1>4

----------------------------------------------------------------------------
(* Phase 1. *)

(* The calls of the chunks read.                                           *)
Chunks == SubSeq(lead, 1, view)

(* The chunks that are shown are the lead's first calls.                   *)
LEMMA ChunksAre ==
    ASSUME IInv, Reading
    PROVE  /\ view \in Nat /\ Len(Chunks) = view
           /\ \A i \in 1 .. view : Chunks[i] = lead[i] /\ lead[i] \in LeadCall
<1>1. lead \in Seq(LeadCall) /\ view \in 0 .. Len(lead) /\ Len(lead) \in Nat
  BY LeadIs DEF IInv, Reading
<1>2. /\ Len(Chunks) = IF 1 <= view THEN (view - 1) + 1 ELSE 0
      /\ \A i \in 1 .. (view - 1) + 1 : Chunks[i] = lead[(1 + i) - 1]
  BY <1>1, SubSeqProperties DEF Chunks
<1>3. \A i \in 1 .. view : i \in 1 .. (view - 1) + 1 /\ (1 + i) - 1 = i /\ i \in 1 .. Len(lead)
  BY <1>1
<1> QED  BY <1>1, <1>2, <1>3, LeadIs

AtStart == [teams |-> <<>>, updates |-> <<>>, active |-> 0]
Walk   == Walked(Chunks)

(* Phase 1 is LeadEvent applied call by call.                              *)
LEMMA WalkIs ==
    ASSUME IInv, Reading
    PROVE  /\ Walk[0] = AtStart
           /\ \A n \in 1 .. view : Walk[n] = LeadEvent(Walk[n - 1], lead[n])
           /\ \A n \in 0 .. view : Walk[n] \in WalkType
<1>1. /\ view \in Nat /\ Len(Chunks) = view
      /\ \A i \in 1 .. view : Chunks[i] = lead[i] /\ lead[i] \in LeadCall
  BY ChunksAre
<1>2. AtStart \in WalkType
  BY DEF AtStart, WalkType
<1>3. PICK N : N = view
  OBVIOUS
<1> DEFINE F == [y \in WalkType \X (1 .. N) |-> LeadEvent(y[1], lead[y[2]])]
           Is(f) == f = [n \in 0 .. N |-> IF n = 0 THEN AtStart
                                          ELSE LeadEvent(f[n - 1], Chunks[n])]
<1>4. F \in [WalkType \X (1 .. N) -> WalkType]
  <2>1. \A a \in WalkType, n \in 1 .. N : LeadEvent(a, lead[n]) \in WalkType
    BY <1>1, <1>3, LeadEventIs DEF Steps
  <2> QED  BY <2>1
<1>5. \A a \in WalkType, n \in 1 .. N : F[<<a, n>>] = LeadEvent(a, lead[n])
  OBVIOUS
<1> HIDE DEF F
<1>6. PICK f : Iterate(f, N, WalkType, AtStart, F)
  BY <1>1, <1>2, <1>3, <1>4, Iterates DEF StepOf
<1>7. Is(f)
  <2>0. /\ f \in [0 .. N -> WalkType] /\ f[0] = AtStart
        /\ \A n \in 1 .. N : f[n] = F[<<f[n - 1], n>>]
    BY <1>6 DEF Iterate
  <2>1. ASSUME NEW n \in 0 .. N
        PROVE  f[n] = IF n = 0 THEN AtStart ELSE LeadEvent(f[n - 1], Chunks[n])
    <3>1. CASE n = 0
      BY <2>0, <3>1
    <3>2. CASE n # 0
      <4>1. n \in 1 .. N /\ n - 1 \in 0 .. N
        BY <1>1, <1>3, <3>2
      <4>2. f[n - 1] \in WalkType
        BY <2>0, <4>1
      <4> QED  BY <1>1, <1>3, <1>5, <2>0, <3>2, <4>1, <4>2
    <3> QED  BY <3>1, <3>2
  <2> QED  BY <2>0, <2>1
<1>8. PICK g : g = Walk /\ Is(g)
  <2>1. Walk = CHOOSE g : Is(g)
    BY <1>1, <1>3 DEF Walk, Walked, AtStart
  <2> QED  BY <1>7, <2>1
<1>9. g[0] = AtStart /\ \A n \in 1 .. N : g[n] = LeadEvent(g[n - 1], lead[n])
  <2>1. \A n \in 0 .. N : g[n] = IF n = 0 THEN AtStart ELSE LeadEvent(g[n - 1], Chunks[n])
    BY <1>8
  <2>2. \A n \in 1 .. N : n \in 0 .. N /\ n # 0
    OBVIOUS
  <2>3. 0 \in 0 .. N
    BY <1>1, <1>3
  <2> QED  BY <1>1, <1>3, <2>1, <2>2, <2>3
<1>10. \A n \in 1 .. N : g[n - 1] \in WalkType => g[n] \in WalkType
  BY <1>1, <1>3, <1>9, LeadEventIs DEF Steps
<1>11. \A n \in 0 .. N : g[n] \in WalkType
  BY <1>1, <1>2, <1>3, <1>9, <1>10, StaysIn
<1> QED  BY <1>3, <1>8, <1>9, <1>11

LedOk(n, a) ==
    /\ a \in WalkType
    /\ a.active = ActiveAt(n + 1)
    /\ Named(a.teams, n)
    /\ TasksLed(n, a.teams)
    /\ MembersLed(n, a.teams)
    /\ UpdatesLed(n, a.updates)

(* LedOk is kept by every call, so it holds of the whole walk.             *)
LEMMA NamedStep ==
    ASSUME NEW n \in Nat, n # 0, NEW a \in WalkType, NEW b, lead[n] \in LeadCall,
           Steps(a, b, lead[n]), Named(a.teams, n - 1)
    PROVE  Named(b.teams, n)
<1>1. /\ a.teams \in Seq(TeamType) /\ DOMAIN a.teams = 1 .. Len(a.teams) /\ Len(a.teams) \in Nat
      /\ n - 1 \in Nat
  BY LenProperties DEF WalkType
<1>2. ASSUME NEW j \in Creates(n - 1) PROVE Cardinality(Creates(j)) \in DOMAIN a.teams
  <2>1. PICK S : S = Creates(n - 1)
    OBVIOUS
  <2>2. S \in SUBSET Nat /\ IsFiniteSet(S) /\ j \in S
    BY <1>1, <2>1, CreatesAre
  <2>3. Rank(S, j) \in 1 .. Cardinality(S)
    BY <2>2, RankIs
  <2>4. Rank(S, j) = Cardinality(Creates(j)) /\ Len(a.teams) = Cardinality(S)
    BY <1>1, <2>1, TeamNumber DEF Named
  <2> QED  BY <1>1, <2>3, <2>4
<1>3. CASE lead[n].op = "create"
  <2>1. PICK x : x = NewTeam(lead[n].team) /\ x.name = lead[n].team
    BY <1>3, CallIs, NewTeamIs
  <2>2. b.teams = Append(a.teams, x) /\ x \in TeamType
    BY <1>3, <2>1, CallIs, NewTeamIs DEF Steps
  <2>3. /\ Len(b.teams) = Len(a.teams) + 1 /\ b.teams[Len(a.teams) + 1] = x
        /\ \A t \in 1 .. Len(a.teams) : b.teams[t] = a.teams[t]
    BY <1>1, <2>2, AppendProperties
  <2>4. /\ Creates(n) = Creates(n - 1) \cup {n}
        /\ Cardinality(Creates(n)) = Cardinality(Creates(n - 1)) + 1
    BY <1>3, CreatesStep
  <2>5. b.teams[Cardinality(Creates(n))].name = lead[n].team
    BY <2>1, <2>3, <2>4 DEF Named
  <2>6. \A j \in Creates(n - 1) : b.teams[Cardinality(Creates(j))].name = lead[j].team
    BY <1>1, <1>2, <2>3 DEF Named
  <2> QED  BY <2>3, <2>4, <2>5, <2>6 DEF Named
<1>4. CASE lead[n].op # "create"
  <2>1. Changed(a.teams, b.teams, lead[n], a.active) /\ Creates(n) = Creates(n - 1)
    BY <1>4, CreatesStep DEF Steps
  <2>2. /\ Len(b.teams) = Len(a.teams)
        /\ \A t \in DOMAIN a.teams : b.teams[t].name = a.teams[t].name
    BY <2>1 DEF Changed
  <2> QED  BY <1>2, <2>1, <2>2 DEF Named
<1> QED  BY <1>3, <1>4

LEMMA LedStep ==
    ASSUME NEW n \in Nat, n # 0, NEW a, NEW b, lead[n] \in LeadCall,
           LedOk(n - 1, a), Steps(a, b, lead[n])
    PROVE  LedOk(n, b)
<1>1. (n - 1) + 1 = n
  OBVIOUS
<1>2. /\ a \in WalkType /\ a.active = ActiveAt(n) /\ Named(a.teams, n - 1)
      /\ TasksLed(n - 1, a.teams) /\ MembersLed(n - 1, a.teams)
      /\ UpdatesLed(n - 1, a.updates)
  BY <1>1 DEF LedOk
<1>3. Named(b.teams, n) /\ TasksLed(n, b.teams) /\ MembersLed(n, b.teams)
  BY <1>2, NamedStep, TasksStep, MembersStep
<1>4. UpdatesLed(n, b.updates)
  BY <1>2, UpdatesStep
<1>5. b.active = ActiveAt(n + 1)
  <2>1. ActiveAt(n + 1) = IF lead[n].op = "create" THEN Cardinality(Creates(n))
                          ELSE IF lead[n].op = "delete" THEN 0 ELSE ActiveAt(n)
    BY ActiveStep
  <2>2. lead[n].op = "create" => Cardinality(Creates(n)) = Len(a.teams) + 1
    BY <1>2, CreatesStep DEF Named
  <2> QED  BY <1>2, <2>1, <2>2 DEF Steps
<1>6. b \in WalkType
  BY DEF Steps
<1> QED  BY <1>3, <1>4, <1>5, <1>6 DEF LedOk

LEMMA LedStart == LedOk(0, AtStart)
<1>1. /\ AtStart \in WalkType /\ AtStart.active = 0
      /\ AtStart.teams = <<>> /\ AtStart.updates = <<>>
  BY DEF AtStart, WalkType
<1>2. Creates(0) = {} /\ LeadSites(0) = {}
  BY DEF Creates, LeadSites
<1>3. Named(<<>>, 0)
  BY <1>2, FS_EmptySet DEF Named
<1>4. TasksLed(0, <<>>) /\ MembersLed(0, <<>>)
  BY DEF TasksLed, MembersLed
<1>5. UpdatesLed(0, <<>>)
  BY <1>2, NoSources DEF UpdatesLed
<1> QED  BY <1>1, <1>3, <1>4, <1>5, FirstActive DEF LedOk

LEMMA WalkOk ==
    ASSUME IInv, Reading
    PROVE  LedOk(view, Walk[view])
<1> DEFINE T == {n \in Nat : n <= view /\ ~ LedOk(n, Walk[n])}
<1>1. view \in Nat
  BY ChunksAre
<1>2. 0 \notin T
  BY WalkIs, LedStart
<1>3. ASSUME NEW n \in Nat, n \notin T PROVE n + 1 \notin T
  <2>1. SUFFICES ASSUME n + 1 <= view PROVE LedOk(n + 1, Walk[n + 1])
    OBVIOUS
  <2>2. LedOk(n, Walk[n])
    BY <1>1, <1>3, <2>1
  <2>3. n + 1 \in 1 .. view /\ (n + 1) - 1 = n /\ n + 1 \in Nat /\ n + 1 # 0
    BY <1>1, <2>1
  <2>4. Walk[n + 1] = LeadEvent(Walk[n], lead[n + 1]) /\ lead[n + 1] \in LeadCall
    BY <2>3, WalkIs, ChunksAre
  <2>5. Steps(Walk[n], Walk[n + 1], lead[n + 1])
    BY <2>2, <2>4, LeadEventIs DEF LedOk
  <2> HIDE DEF T
  <2> QED  BY <2>2, <2>3, <2>4, <2>5, LedStep
<1>4. T \in SUBSET Nat
  OBVIOUS
<1> HIDE DEF T
<1>5. T = {}
  BY <1>2, <1>3, <1>4, NoLeast
<1> QED  BY <1>1, <1>5 DEF T

----------------------------------------------------------------------------
(* The order of the replay. *)

Sooner(us, n, m) ==
    us[n].up.at < us[m].up.at \/ (us[n].up.at = us[m].up.at /\ n < m)

(* rs are the updates us in the order of their times; q tells where each   *)
(* of them was.                                                            *)
InTime(us, rs, q) ==
    /\ rs \in Seq(UpdateType) /\ Len(rs) = Len(us)
    /\ q \in [1 .. Len(us) -> 1 .. Len(us)]
    /\ \A n \in 1 .. Len(us) : \E k \in 1 .. Len(us) : q[k] = n
    /\ \A k \in 1 .. Len(us) : rs[k] = us[q[k]]
    /\ \A k, l \in 1 .. Len(us) : k < l => Sooner(us, q[k], q[l])

(* The order of the replay: all updates, by time, else as they were        *)
(* gathered.                                                               *)
LEMMA ReplayOrderIs ==
    ASSUME NEW us \in Seq(UpdateType)
    PROVE  \E q : InTime(us, ReplayOrder(us), q)
<1> DEFINE D == 1 .. Len(us)
           P(n) == {m \in D : Sooner(us, m, n)}
           place(n) == 1 + Cardinality(P(n))
           q == [k \in D |-> CHOOSE n \in D : place(n) = k]
<1>1. /\ DOMAIN us = D /\ Len(us) \in Nat /\ IsFiniteSet(D) /\ Cardinality(D) = Len(us)
      /\ D \subseteq Nat
  BY LenProperties, FS_Interval
<1>2. \A n \in D : us[n] \in UpdateType /\ us[n].up.at \in Nat
  <2>1. \A n \in D : us[n] \in UpdateType
    BY ElementOfSeq
  <2> QED  BY <2>1 DEF UpdateType, TaskUpdate
<1>3. ReplayOrder(us) = [k \in D |-> us[q[k]]]
  <2>1. ReplayOrder(us) = [k \in DOMAIN us |-> us[CHOOSE n \in DOMAIN us : place(n) = k]]
    BY <1>1 DEF ReplayOrder, Sooner
  <2> QED  BY <1>1, <2>1
<1> HIDE DEF D
<1>4. \A n, m \in D : n # m => Sooner(us, n, m) \/ Sooner(us, m, n)
  <2>1. \A n, m \in D : n \in Nat /\ m \in Nat
    BY <1>1
  <2> QED  BY <1>2, <2>1 DEF Sooner
<1>5. \A n, m, l \in D : Sooner(us, n, m) /\ Sooner(us, m, l) => Sooner(us, n, l)
  <2>1. \A n \in D : n \in Nat
    BY <1>1
  <2> QED  BY <1>2, <2>1 DEF Sooner
<1>6. \A n \in D : ~ Sooner(us, n, n)
  BY <1>1, <1>2 DEF Sooner
<1>7. \A n \in D : P(n) \subseteq D \ {n} /\ IsFiniteSet(P(n)) /\ Cardinality(P(n)) \in Nat
  BY <1>1, <1>6, FS_Subset, FS_CardinalityType
<1>8. ASSUME NEW n \in D PROVE place(n) \in D
  <2>1. Cardinality(D \ {n}) = Cardinality(D) - 1 /\ IsFiniteSet(D \ {n})
    BY <1>1, FS_RemoveElement
  <2>2. Cardinality(P(n)) <= Cardinality(D \ {n})
    BY <1>7, <2>1, FS_Subset
  <2>3. Cardinality(P(n)) \in Nat
    BY <1>7
  <2> HIDE DEF P
  <2> QED  BY <1>1, <2>1, <2>2, <2>3 DEF D
<1>9. ASSUME NEW n \in D, NEW m \in D, Sooner(us, n, m) PROVE place(n) < place(m)
  <2>1. P(n) \subseteq P(m) /\ n \in P(m) /\ n \notin P(n)
    BY <1>5, <1>6, <1>9
  <2>2. Cardinality(P(n)) <= Cardinality(P(m)) /\ Cardinality(P(n)) # Cardinality(P(m))
    BY <1>7, <2>1, FS_Subset
  <2>3. Cardinality(P(n)) \in Nat /\ Cardinality(P(m)) \in Nat
    BY <1>7
  <2> HIDE DEF P
  <2> QED  BY <2>2, <2>3
<1>10. \A n \in D : place(n) \in Nat
  BY <1>1, <1>8
<1> HIDE DEF place
<1>11. \A n, m \in D : place(n) = place(m) => n = m
  <2>1. \A n, m \in D : place(n) = place(m) => /\ ~ (place(n) < place(m))
                                               /\ ~ (place(m) < place(n))
    BY <1>10
  <2> QED  BY <1>4, <1>9, <2>1
<1>12. \A k \in D : \E n \in D : place(n) = k
  <2> DEFINE f == [n \in D |-> place(n)]
  <2>1. f \in Injection(D, D)
    BY <1>8, <1>11 DEF Injection, IsInjective
  <2>2. f \in Surjection(D, D)
    BY <1>1, <2>1, FS_Injection
  <2> QED  BY <2>2 DEF Surjection
<1>13. \A k \in D : q[k] \in D /\ place(q[k]) = k
  BY <1>12
<1>14. q \in [D -> D]
  BY <1>13
<1> HIDE DEF q
<1>15. \A n \in D : \E k \in D : q[k] = n
  BY <1>8, <1>11, <1>13
<1>16. ASSUME NEW k \in D, NEW l \in D, k < l PROVE Sooner(us, q[k], q[l])
  <2>1. k \in Nat /\ l \in Nat /\ ~ (l < k) /\ k # l
    BY <1>1, <1>16
  <2>2. q[k] \in D /\ q[l] \in D /\ place(q[k]) = k /\ place(q[l]) = l
    BY <1>13
  <2>3. ~ Sooner(us, q[l], q[k])
    BY <1>9, <2>1, <2>2
  <2> QED  BY <1>4, <2>1, <2>2, <2>3
<1>17. PICK rs : rs = [k \in D |-> us[q[k]]]
  OBVIOUS
<1>18. rs \in [D -> UpdateType] /\ \A k \in D : rs[k] = us[q[k]]
  BY <1>2, <1>13, <1>17
<1>19. rs \in Seq(UpdateType) /\ Len(rs) = Len(us)
  BY <1>1, <1>18, FunctionIsSeq DEF D
<1>20. InTime(us, rs, q)
  BY <1>14, <1>15, <1>16, <1>18, <1>19 DEF InTime, D
<1> QED  BY <1>3, <1>17, <1>20

----------------------------------------------------------------------------
(* Phase 2. *)

(* Who is shown wrote what is in its transcript.                           *)
LEMMA DiscoveredUpdates ==
    ASSUME IInv, NEW i \in DOMAIN Discovered
    PROVE  Discovered[i].updates = files[Discovered[i].file].updates
<1>1. PICK a, b : a = DiscoverSubagents(files) /\ b = DiscoverTeamSessions(files, Calls)
  OBVIOUS
<1>2. Discovered = a \o b
  BY <1>1 DEF Discovered, Discover
<1>3. \A j \in DOMAIN a : a[j].updates = files[a[j].file].updates
  BY <1>1 DEF DiscoverSubagents, Proc
<1>4. \A j \in DOMAIN b : b[j].updates = files[b[j].file].updates
  BY <1>1 DEF DiscoverTeamSessions, Proc
<1>5. /\ a \in Seq(ProcessType(Len(files))) /\ b \in Seq(ProcessType(Len(files)))
  BY <1>1, SubagentsIs, TeamSessionsIs DEF IInv, FilesInv, ProcsOk
<1> QED  BY <1>2, <1>3, <1>4, <1>5, ConcatProperties, LenProperties

(* Linking a process changes its parent, and its id to a teammate's.       *)
LEMMA LinkingKeeps ==
    ASSUME NEW n, NEW p \in ProcessType(n), NEW i, NEW links,
           NEW calls, \A c \in calls : c.name \in Name /\ c.team \in Team
    PROVE  LET x == Linked(p, i, calls, links) IN
           x.file = p.file /\ x.updates = p.updates /\ x.id \in AgentId
<1> DEFINE parents == {c \in calls : IF i \in Procs(links) THEN <<i, c.at>> \in links
                                                           ELSE c.at = p.parent}
<1>1. p.id \in AgentId
  BY DEF ProcessType
<1>2. CASE parents = {}
  <2>1. Linked(p, i, calls, links) = p
    BY <1>2 DEF Linked
  <2> QED  BY <1>1, <2>1
<1>3. CASE parents # {}
  <2>1. PICK c : c = CHOOSE x \in parents : TRUE
    OBVIOUS
  <2>2. c \in calls
    BY <1>3, <2>1
  <2>3. Member(c.name, c.team) \in AgentId
    BY <2>2 DEF AgentId, Member
  <2>4. PICK id : id = IF IsTeamTask(c) THEN Member(c.name, c.team) ELSE p.id
    OBVIOUS
  <2>5. Linked(p, i, calls, links) = [p EXCEPT !.parent = c.at, !.id = id]
    BY <1>3, <2>1, <2>4 DEF Linked
  <2>6. id \in AgentId
    BY <1>1, <2>3, <2>4
  <2> QED  BY <2>5, <2>6 DEF ProcessType
<1> QED  BY <1>2, <1>3

(* Who is shown, and what they wrote.                                      *)
LEMMA AgentsAre ==
    ASSUME IInv, Reading
    PROVE  /\ Len(Agents) \in Nat /\ DOMAIN Agents = 1 .. Len(Agents)
           /\ Len(files) \in Nat
           /\ \A i \in DOMAIN Agents :
                 /\ Agents[i].file \in 1 .. Len(files)
                 /\ Agents[i].id \in AgentId
                 /\ Agents[i].updates = files[Agents[i].file].updates
                 /\ Agents[i].updates \in Seq(TaskUpdate)
<1>1. PICK q, ps : q = Agents /\ ps = Discovered
  OBVIOUS
<1>2. PICK links : links = Links(Discovered, Calls, results)
  OBVIOUS
<1>3. q = [i \in DOMAIN ps |-> Linked(ps[i], i, Calls, links)]
  BY <1>1, <1>2 DEF Agents, ProcsOf, LinkSubagents, Discovered, Calls
<1>4. /\ ps \in Seq(ProcessType(Len(files))) /\ Len(files) \in Nat
      /\ DOMAIN ps = 1 .. Len(ps) /\ Len(ps) \in Nat
  BY <1>1, ProcessesAre, LenProperties
<1>5. \A c \in Calls : c.name \in Name /\ c.team \in Team
  <2>1. \A c \in Calls : c \in LeadCall /\ c.op = "spawn"
    BY CallsAre, LeadIs
  <2> QED  BY <2>1, CallIs
<1>6. ASSUME NEW i \in DOMAIN ps
      PROVE  /\ q[i].file \in 1 .. Len(files) /\ q[i].id \in AgentId
             /\ q[i].updates = files[q[i].file].updates
             /\ q[i].updates \in Seq(TaskUpdate)
  <2>1. ps[i] \in ProcessType(Len(files))
    BY <1>4, ElementOfSeq
  <2>2. q[i].file = ps[i].file /\ q[i].updates = ps[i].updates /\ q[i].id \in AgentId
    BY <1>3, <1>5, <2>1, LinkingKeeps
  <2>3. ps[i].file \in 1 .. Len(files) /\ ps[i].updates \in Seq(TaskUpdate)
    BY <2>1 DEF ProcessType
  <2>4. ps[i].updates = files[ps[i].file].updates
    BY <1>1, DiscoveredUpdates
  <2> QED  BY <2>2, <2>3, <2>4
<1>7. q = [i \in 1 .. Len(ps) |-> q[i]]
  BY <1>3, <1>4
<1>8. DOMAIN q = DOMAIN ps /\ Len(q) = Len(ps)
  BY <1>3, <1>4, <1>7
<1> QED  BY <1>1, <1>4, <1>6, <1>8

(* The teams the lead's calls create, before the updates.                  *)
Begun == Walk[view].teams

(* The teams and the lead's updates as phase 1 leaves them.                *)
LEMMA BegunIs ==
    ASSUME IInv, Reading
    PROVE  /\ view \in Nat /\ Walk[view] \in WalkType
           /\ Begun \in Seq(TeamType) /\ DOMAIN Begun = 1 .. Len(Begun) /\ Len(Begun) \in Nat
           /\ Named(Begun, view) /\ TasksLed(view, Begun) /\ MembersLed(view, Begun)
           /\ Walk[view].updates \in Seq(UpdateType) /\ UpdatesLed(view, Walk[view].updates)
<1>1. view \in Nat /\ LedOk(view, Walk[view])
  BY ChunksAre, WalkOk
<1> QED  BY <1>1, LenProperties DEF LedOk, WalkType, Begun

(* Agent j is a teammate of a team of this session.                        *)
Tells(j)  == IsMember(Agents[j].id) /\ FirstTeam(Agents[j].id.team, view) # 0
ToldBy(j) == {<<j, m>> : m \in {m \in DOMAIN Agents[j].updates : Tells(j)}}
Sites(n)  == LeadSites(view) \cup UNION {ToldBy(j) : j \in 1 .. n}

(* A worker's updates are its transcript's, for the first team of its      *)
(* name.                                                                   *)
LEMMA WorkerUpdatesAre ==
    ASSUME IInv, Reading, NEW j \in DOMAIN Agents
    PROVE  /\ WorkerUpdates(Begun, Agents[j]) \in Seq(UpdateType)
           /\ \E s : Sources(WorkerUpdates(Begun, Agents[j]), s, ToldBy(j))
<1>1. PICK w : w = Agents[j] /\ w.id \in AgentId /\ w.updates \in Seq(TaskUpdate)
               /\ w.file \in Nat /\ j \in Nat /\ j # 0
  BY AgentsAre
<1>2. PICK t : t = IF IsMember(w.id) THEN FindTeamIndex(Begun, w.id.team) ELSE 0
  OBVIOUS
<1>3. t = IF IsMember(w.id) THEN FirstTeam(w.id.team, view) ELSE 0
  BY <1>2, BegunIs, FirstTeamIs
<1>4. Tells(j) <=> t # 0
  BY <1>1, <1>3 DEF Tells
<1>5. CASE t = 0
  <2>1. WorkerUpdates(Begun, w) = <<>>
    BY <1>2, <1>5 DEF WorkerUpdates
  <2>2. ToldBy(j) = {}
    BY <1>4, <1>5 DEF ToldBy
  <2> QED  BY <1>1, <2>1, <2>2, NoSources, EmptySeq
<1>6. CASE t # 0
  <2>1. t \in Nat /\ IsMember(w.id)
    BY <1>2, <1>6, BegunIs, FindIs
  <2>2. PICK ms : ms = w.updates /\ ms \in Seq(TaskUpdate)
    BY <1>1
  <2>3. /\ DOMAIN ms = 1 .. Len(ms) /\ Len(ms) \in Nat
        /\ \A n \in DOMAIN ms : ms[n] \in TaskUpdate
    BY <2>2, LenProperties, ElementOfSeq
  <2>4. PICK us : us = [n \in DOMAIN ms |-> [team |-> t, by |-> w.file, fallback |-> w.id.name,
                                            up |-> ms[n]]]
    OBVIOUS
  <2>5. WorkerUpdates(Begun, w) = us
    BY <1>2, <1>6, <2>2, <2>4 DEF WorkerUpdates
  <2>6. w.id.name \in Name
    BY <1>1, <2>1 DEF AgentId, IsMember
  <2>7. us \in [1 .. Len(ms) -> UpdateType]
    <3>1. \A n \in DOMAIN ms : [team |-> t, by |-> w.file, fallback |-> w.id.name, up |-> ms[n]]
                                  \in UpdateType
      BY <1>1, <2>1, <2>3, <2>6 DEF UpdateType
    <3> QED  BY <2>3, <2>4, <3>1
  <2>8. us \in Seq(UpdateType) /\ Len(us) = Len(ms)
    BY <2>3, <2>7, FunctionIsSeq
  <2>9. PICK s : s = [n \in 1 .. Len(ms) |-> <<j, n>>]
    OBVIOUS
  <2>10. \A n \in 1 .. Len(ms) : s[n] = <<j, n>> /\ s[n][1] = j /\ s[n][2] = n
    BY <2>9
  <2>11. ToldBy(j) = {<<j, n>> : n \in 1 .. Len(ms)}
    BY <1>1, <1>4, <1>6, <2>2, <2>3 DEF ToldBy
  <2>12. \A n \in 1 .. Len(ms) : us[n] = UpdateAt(s[n])
    <3>1. \A n \in 1 .. Len(ms) : us[n] = [team |-> t, by |-> w.file, fallback |-> w.id.name,
                                          up |-> ms[n]]
      BY <2>3, <2>4
    <3>2. t = FirstTeam(w.id.team, view)
      BY <1>3, <2>1
    <3> QED  BY <1>1, <2>2, <2>10, <3>1, <3>2 DEF UpdateAt
  <2>13. s \in [1 .. Len(us) -> ToldBy(j)]
    <3>1. \A n \in 1 .. Len(ms) : s[n] \in ToldBy(j)
      BY <2>10, <2>11
    <3> QED  BY <2>8, <2>9, <3>1
  <2>14. \A x \in ToldBy(j) : \E n \in 1 .. Len(us) : s[n] = x
    BY <2>8, <2>10, <2>11
  <2>15. \A m, n \in 1 .. Len(us) : m < n => Before(s[m], s[n])
    BY <2>8, <2>10 DEF Before
  <2>16. Sources(us, s, ToldBy(j))
    BY <2>8, <2>12, <2>13, <2>14, <2>15 DEF Sources
  <2> QED  BY <1>1, <2>5, <2>8, <2>16
<1> QED  BY <1>5, <1>6

Gather == Gathered(Walk[view], Agents)

(* The lead's updates and behind them the workers'.                        *)
LEMMA GatherIs ==
    ASSUME IInv, Reading
    PROVE  /\ Gather[0] = Walk[view].updates
           /\ \A n \in 1 .. Len(Agents) :
                 Gather[n] = Gather[n - 1] \o WorkerUpdates(Begun, Agents[n])
<1>1. PICK N, start, S : N = Len(Agents) /\ start = Walk[view].updates /\ S = Seq(UpdateType)
  OBVIOUS
<1>2. /\ N \in Nat /\ start \in S
      /\ \A n \in 1 .. N : WorkerUpdates(Begun, Agents[n]) \in S
  BY <1>1, AgentsAre, BegunIs, WorkerUpdatesAre
<1> DEFINE F == [y \in S \X (1 .. N) |-> y[1] \o WorkerUpdates(Begun, Agents[y[2]])]
           Is(f) == f = [n \in 0 .. N |-> IF n = 0 THEN start
                               ELSE f[n - 1] \o WorkerUpdates(Begun, Agents[n])]
<1>3. F \in [S \X (1 .. N) -> S]
  <2>1. \A us \in S, n \in 1 .. N : us \o WorkerUpdates(Begun, Agents[n]) \in S
    BY <1>1, <1>2, ConcatProperties
  <2> QED  BY <2>1
<1>4. \A us \in S, n \in 1 .. N : F[<<us, n>>] = us \o WorkerUpdates(Begun, Agents[n])
  OBVIOUS
<1> HIDE DEF F
<1>5. PICK f : Iterate(f, N, S, start, F)
  BY <1>2, <1>3, Iterates DEF StepOf
<1>6. Is(f)
  <2>0. /\ f \in [0 .. N -> S] /\ f[0] = start
        /\ \A n \in 1 .. N : f[n] = F[<<f[n - 1], n>>]
    BY <1>5 DEF Iterate
  <2>1. ASSUME NEW n \in 0 .. N
        PROVE  f[n] = IF n = 0 THEN start ELSE f[n - 1] \o WorkerUpdates(Begun, Agents[n])
    <3>1. CASE n = 0
      BY <2>0, <3>1
    <3>2. CASE n # 0
      <4>1. n \in 1 .. N /\ n - 1 \in 0 .. N
        BY <1>2, <3>2
      <4>2. f[n - 1] \in S
        BY <2>0, <4>1
      <4> QED  BY <1>4, <2>0, <3>2, <4>1, <4>2
    <3> QED  BY <3>1, <3>2
  <2> QED  BY <2>0, <2>1
<1>7. PICK g : g = Gather /\ Is(g)
  <2>1. Gather = CHOOSE g : Is(g)
    BY <1>1 DEF Gather, Gathered, Begun
  <2> QED  BY <1>6, <2>1
<1>8. \A n \in 0 .. N : g[n] = IF n = 0 THEN start
                               ELSE g[n - 1] \o WorkerUpdates(Begun, Agents[n])
  BY <1>7
<1>9. 0 \in 0 .. N /\ \A n \in 1 .. N : n \in 0 .. N /\ n # 0
  BY <1>2
<1> QED  BY <1>1, <1>7, <1>8, <1>9

(* The updates of the lead and of the first n agents.                      *)
LEMMA GatherOk ==
    ASSUME IInv, Reading
    PROVE  \A n \in 0 .. Len(Agents) : \E s : Sources(Gather[n], s, Sites(n))
<1> DEFINE Ok(n) == \E s : Sources(Gather[n], s, Sites(n))
           T == {n \in Nat : n <= Len(Agents) /\ ~ Ok(n)}
<1>1. Len(Agents) \in Nat /\ DOMAIN Agents = 1 .. Len(Agents)
  BY AgentsAre
<1>2. Ok(0)
  <2>1. UNION {ToldBy(j) : j \in 1 .. 0} = {}
    OBVIOUS
  <2>2. Sites(0) = LeadSites(view)
    BY <2>1 DEF Sites
  <2> QED  BY <2>2, GatherIs, BegunIs DEF UpdatesLed
<1>3. ASSUME NEW n \in Nat, n + 1 <= Len(Agents), Ok(n) PROVE Ok(n + 1)
  <2>1. n + 1 \in 1 .. Len(Agents) /\ n + 1 \in DOMAIN Agents /\ (n + 1) - 1 = n
    BY <1>1, <1>3
  <2>2. PICK us, vs : us = Gather[n] /\ vs = WorkerUpdates(Begun, Agents[n + 1])
    OBVIOUS
  <2>3. Gather[n + 1] = us \o vs
    BY <2>1, <2>2, GatherIs
  <2>4. PICK s : Sources(us, s, Sites(n))
    BY <1>3, <2>2
  <2>5. PICK r : Sources(vs, r, ToldBy(n + 1))
    BY <2>1, <2>2, WorkerUpdatesAre
  <2>6. \A x \in LeadSites(view) : x[1] = 0
    BY DEF LeadSites
  <2>7. \A j : \A x \in ToldBy(j) : x[1] = j
    BY DEF ToldBy
  <2>8. \A x \in Sites(n) : x[1] \in 0 .. n
    BY <2>6, <2>7 DEF Sites
  <2>9. \A x \in Sites(n), y \in ToldBy(n + 1) : Before(x, y)
    BY <2>7, <2>8 DEF Before
  <2>10. PICK q : Sources(us \o vs, q, Sites(n) \cup ToldBy(n + 1))
    BY <2>4, <2>5, <2>9, SourcesJoin
  <2>11. Sites(n) \cup ToldBy(n + 1) = Sites(n + 1)
    <3>1. 1 .. n + 1 = (1 .. n) \cup {n + 1}
      OBVIOUS
    <3> QED  BY <3>1 DEF Sites
  <2> QED  BY <2>3, <2>10, <2>11
<1> HIDE DEF Ok
<1>4. 0 \notin T /\ T \in SUBSET Nat /\ \A n \in Nat : n \notin T => n + 1 \notin T
  <2>1. \A n \in Nat : n + 1 <= Len(Agents) => n <= Len(Agents)
    BY <1>1
  <2> QED  BY <1>2, <1>3, <2>1
<1> HIDE DEF T
<1>5. T = {}
  BY <1>4, NoLeast
<1> QED  BY <1>1, <1>5 DEF T, Ok
----------------------------------------------------------------------------
(* Phase 3. *)

(* What an update makes of the task it names.                              *)
TaskAfter(task, u) ==
    [status |-> IF u.up.status THEN <<u.up.at, u.by>> ELSE task.status,
     owner  |-> IF u.up.owner # None THEN u.up.owner
                ELSE IF task.owner = None THEN u.fallback ELSE task.owner]

Touches(u, t, k) == u.team = t /\ u.up.task = k

(* Teams b are teams a but for the task that u touches.                    *)
Applied(a, b, u) ==
    /\ b \in Seq(TeamType) /\ Len(b) = Len(a)
    /\ \A t \in DOMAIN a :
          /\ b[t].name = a[t].name /\ b[t].members = a[t].members
          /\ Len(b[t].tasks) = Len(a[t].tasks)
          /\ \A k \in DOMAIN a[t].tasks :
                b[t].tasks[k] = IF Touches(u, t, k) THEN TaskAfter(a[t].tasks[k], u)
                                ELSE a[t].tasks[k]

(* The parts of an update, of a task after it and of the teams after it.   *)
LEMMA UpdateParts ==
    ASSUME NEW u \in UpdateType
    PROVE  /\ u.team \in Nat /\ u.by \in Nat /\ u.fallback \in Name \cup {None}
           /\ u.up \in TaskUpdate /\ u.up.task \in Nat /\ u.up.at \in Nat
           /\ u.up.status \in BOOLEAN /\ u.up.owner \in Owner
<1>1. u.up \in TaskUpdate
  BY DEF UpdateType
<1> QED  BY <1>1 DEF UpdateType, TaskUpdate

LEMMA TaskAfterIs ==
    ASSUME NEW u \in UpdateType, NEW task \in TaskType
    PROVE  TaskAfter(task, u) \in TaskType
<1>1. /\ u.by \in Nat /\ u.fallback \in Name \cup {None} /\ u.up.at \in Nat
      /\ u.up.owner \in Owner
  BY UpdateParts
<1>2. task.status \in Nat \X Nat /\ task.owner \in Owner \cup Name
  BY DEF TaskType
<1>3. None \in Owner
  BY AgentViewAssumption
<1>4. PICK st : st = IF u.up.status THEN <<u.up.at, u.by>> ELSE task.status
  OBVIOUS
<1>5. PICK ow : ow = IF u.up.owner # None THEN u.up.owner
                     ELSE IF task.owner = None THEN u.fallback ELSE task.owner
  OBVIOUS
<1>6. st \in Nat \X Nat
  BY <1>1, <1>2, <1>4
<1>7. ow \in Owner \cup Name
  BY <1>1, <1>2, <1>3, <1>5
<1>8. TaskAfter(task, u) = [status |-> st, owner |-> ow]
  BY <1>4, <1>5 DEF TaskAfter
<1> QED  BY <1>6, <1>7, <1>8 DEF TaskType

LEMMA ApplyIs ==
    ASSUME NEW a \in Seq(TeamType), NEW u \in UpdateType, u.team \in DOMAIN a
    PROVE  Applied(a, ApplyTaskUpdate(a, u), u)
<1>1. PICK t, k : t = u.team /\ k = u.up.task
  OBVIOUS
<1>2. t \in DOMAIN a /\ a[t] \in TeamType /\ a[t].tasks \in Seq(TaskType)
  BY <1>1, TeamIs
<1>3. CASE k \notin DOMAIN a[t].tasks
  <2>1. ApplyTaskUpdate(a, u) = a
    BY <1>1, <1>3 DEF ApplyTaskUpdate
  <2>2. \A s \in DOMAIN a : \A l \in DOMAIN a[s].tasks : ~ Touches(u, s, l)
    BY <1>1, <1>3 DEF Touches
  <2> QED  BY <2>1, <2>2 DEF Applied
<1>4. CASE k \in DOMAIN a[t].tasks
  <2>1. PICK q, task : q = a[t].tasks /\ task = q[k] /\ task \in TaskType
    BY <1>2, <1>4, LenProperties, ElementOfSeq
  <2>2. PICK x : x = TaskAfter(task, u) /\ x \in TaskType
    BY <2>1, TaskAfterIs
  <2>3. PICK r : r = [q EXCEPT ![k] = x]
    OBVIOUS
  <2>4. /\ r \in Seq(TaskType) /\ Len(r) = Len(q) /\ q \in Seq(TaskType)
        /\ \A l \in DOMAIN q : r[l] = IF l = k THEN x ELSE q[l]
    <3>1. q \in Seq(TaskType) /\ DOMAIN q = 1 .. Len(q) /\ k \in 1 .. Len(q)
      BY <1>2, <1>4, <2>1, LenProperties
    <3> QED  BY <2>2, <2>3, <3>1, ExceptSeq
  <2>5. PICK team : team = [a[t] EXCEPT !.tasks = r]
    OBVIOUS
  <2>6. /\ team \in TeamType /\ team.name = a[t].name /\ team.members = a[t].members
        /\ team.tasks = r
    BY <1>2, <2>4, <2>5 DEF TeamType
  <2>7. PICK b : b = [a EXCEPT ![t] = team]
    OBVIOUS
  <2>8. /\ b \in Seq(TeamType) /\ Len(b) = Len(a)
        /\ \A s \in DOMAIN a : b[s] = IF s = t THEN team ELSE a[s]
    BY <1>2, <2>6, <2>7, TeamChanges
  <2>9. ApplyTaskUpdate(a, u) = b
    <3>1. x = [status |-> IF u.up.status THEN <<u.up.at, u.by>> ELSE task.status,
               owner |-> CASE u.up.owner # None -> u.up.owner
                           [] u.up.owner = None /\ task.owner = None -> u.fallback
                           [] OTHER -> task.owner]
      BY <2>2 DEF TaskAfter
    <3>2. ApplyTaskUpdate(a, u) = [a EXCEPT ![t].tasks[k] =
             [status |-> IF u.up.status THEN <<u.up.at, u.by>> ELSE @.status,
              owner  |-> CASE u.up.owner # None -> u.up.owner
                           [] u.up.owner = None /\ @.owner = None -> u.fallback
                           [] OTHER -> @.owner]]
      BY <1>1, <1>4 DEF ApplyTaskUpdate
    <3>3. ApplyTaskUpdate(a, u) = [a EXCEPT ![t].tasks[k] =
             [status |-> IF u.up.status THEN <<u.up.at, u.by>> ELSE task.status,
              owner  |-> CASE u.up.owner # None -> u.up.owner
                           [] u.up.owner = None /\ task.owner = None -> u.fallback
                           [] OTHER -> task.owner]]
      BY <2>1, <3>2
    <3>4. ApplyTaskUpdate(a, u) = [a EXCEPT ![t].tasks[k] = x]
      BY <3>1, <3>3
    <3> QED  BY <2>1, <2>3, <2>5, <2>7, <3>4
  <2>10. ASSUME NEW s \in DOMAIN a
         PROVE  /\ b[s].name = a[s].name /\ b[s].members = a[s].members
                /\ Len(b[s].tasks) = Len(a[s].tasks)
                /\ \A l \in DOMAIN a[s].tasks :
                      b[s].tasks[l] = IF Touches(u, s, l) THEN TaskAfter(a[s].tasks[l], u)
                                      ELSE a[s].tasks[l]
    <3>1. CASE s = t
      <4>1. b[s] = team /\ b[s].tasks = r /\ a[s].tasks = q
        BY <2>1, <2>6, <2>8, <3>1
      <4>2. \A l \in DOMAIN q : Touches(u, s, l) <=> l = k
        BY <1>1, <3>1 DEF Touches
      <4>3. \A l \in DOMAIN q : r[l] = IF Touches(u, s, l) THEN TaskAfter(q[l], u) ELSE q[l]
        BY <2>1, <2>2, <2>4, <4>2
      <4> QED  BY <2>4, <2>6, <3>1, <4>1, <4>3
    <3>2. CASE s # t
      <4>1. b[s] = a[s] /\ \A l \in DOMAIN a[s].tasks : ~ Touches(u, s, l)
        BY <1>1, <2>8, <3>2 DEF Touches
      <4> QED  BY <4>1
    <3> QED  BY <3>1, <3>2
  <2> QED  BY <2>8, <2>9, <2>10 DEF Applied
<1> QED  BY <1>3, <1>4

(* All updates, in the order of their times.                               *)
Updates == Gather[Len(Agents)]
Ordered == ReplayOrder(Updates)
Replay  == Replayed(Begun, Ordered)

AllSites == Sites(Len(Agents))

(* Every update is of a team the lead's calls created.                     *)
LEMMA SitesAtHome ==
    ASSUME IInv, Reading, NEW x \in AllSites
    PROVE  UpdateAt(x).team \in DOMAIN Begun
<1>1. /\ view \in Nat /\ Begun \in Seq(TeamType) /\ DOMAIN Begun = 1 .. Len(Begun)
      /\ Len(Begun) \in Nat /\ Named(Begun, view) /\ Len(Begun) = Cardinality(Creates(view))
  BY BegunIs DEF Named
<1>2. CASE x \in LeadSites(view)
  <2>1. PICK i \in 1 .. view : x = <<0, i>> /\ ActiveAt(i) # 0
    BY <1>2 DEF LeadSites
  <2>2. UpdateAt(x).team = ActiveAt(i)
    BY <2>1 DEF UpdateAt, LeadsUpdate
  <2>3. i \in Nat /\ i # 0 /\ i - 1 \in Nat /\ i - 1 <= view
    BY <1>1
  <2>4. Cardinality(Creates(i - 1)) <= Cardinality(Creates(view))
    BY <1>1, <2>3, CreatesGrow
  <2>5. ActiveAt(i) \in 0 .. Cardinality(Creates(i - 1)) /\ Cardinality(Creates(i - 1)) \in Nat
    BY <2>3, ActiveBound, CreatesAre
  <2> QED  BY <1>1, <2>1, <2>2, <2>4, <2>5
<1>3. CASE \E j \in 1 .. Len(Agents) : x \in ToldBy(j)
  <2>1. PICK j \in 1 .. Len(Agents) : x[1] = j /\ Tells(j)
    BY <1>3 DEF ToldBy
  <2>2. UpdateAt(x).team = FirstTeam(Agents[j].id.team, view)
    BY <2>1 DEF UpdateAt
  <2>3. UpdateAt(x).team = FindTeamIndex(Begun, Agents[j].id.team) /\ UpdateAt(x).team # 0
    BY <1>1, <2>1, <2>2, FirstTeamIs DEF Tells
  <2> QED  BY <1>1, <2>3, FindIs
<1> QED  BY <1>2, <1>3 DEF AllSites, Sites

(* The m-th update of the replay is the one at g[m]; the replay has them   *)
(* all, the later at the later place.                                      *)
Placed(rs, g) ==
    /\ rs \in Seq(UpdateType) /\ g \in [1 .. Len(rs) -> AllSites]
    /\ \A x \in AllSites : \E m \in 1 .. Len(rs) : g[m] = x
    /\ \A m \in 1 .. Len(rs) : rs[m] = UpdateAt(g[m])
    /\ \A m, n \in 1 .. Len(rs) : m < n =>
          \/ rs[m].up.at < rs[n].up.at
          \/ rs[m].up.at = rs[n].up.at /\ Before(g[m], g[n])

(* The replay applies every update that some transcript made, in order.    *)
LEMMA OrderedIs ==
    ASSUME IInv, Reading
    PROVE  \E g : Placed(Ordered, g)
<1>1. PICK us, rs : us = Updates /\ rs = Ordered
  OBVIOUS
<1>2. PICK s : Sources(us, s, AllSites)
  <2>1. Len(Agents) \in 0 .. Len(Agents)
    BY AgentsAre
  <2> QED  BY <1>1, <2>1, GatherOk DEF Updates, AllSites
<1>3. us \in Seq(UpdateType)
  BY <1>2 DEF Sources
<1>4. PICK q : InTime(us, rs, q)
  BY <1>1, <1>3, ReplayOrderIs DEF Ordered
<1>5. PICK N : N = Len(us) /\ N = Len(rs) /\ N \in Nat
  BY <1>3, <1>4, LenProperties DEF InTime
<1>6. /\ s \in [1 .. N -> AllSites] /\ \A x \in AllSites : \E m \in 1 .. N : s[m] = x
      /\ \A m \in 1 .. N : us[m] = UpdateAt(s[m])
      /\ \A m, n \in 1 .. N : m < n => Before(s[m], s[n])
  BY <1>2, <1>5 DEF Sources
<1>7. /\ rs \in Seq(UpdateType) /\ q \in [1 .. N -> 1 .. N]
      /\ \A n \in 1 .. N : \E k \in 1 .. N : q[k] = n
      /\ \A k \in 1 .. N : rs[k] = us[q[k]]
      /\ \A k, l \in 1 .. N : k < l => Sooner(us, q[k], q[l])
  BY <1>4, <1>5 DEF InTime
<1>8. PICK g : g = [m \in 1 .. N |-> s[q[m]]]
  OBVIOUS
<1>9. \A m \in 1 .. N : g[m] = s[q[m]] /\ q[m] \in 1 .. N
  BY <1>7, <1>8
<1>10. g \in [1 .. N -> AllSites]
  <2>1. \A m \in 1 .. N : g[m] \in AllSites
    BY <1>6, <1>9
  <2>2. DOMAIN g = 1 .. N /\ g = [m \in 1 .. N |-> g[m]]
    BY <1>8
  <2> QED  BY <2>1, <2>2
<1>11. ASSUME NEW x \in AllSites PROVE \E m \in 1 .. N : g[m] = x
  <2>1. PICK n \in 1 .. N : s[n] = x
    BY <1>6
  <2>2. PICK k \in 1 .. N : q[k] = n
    BY <1>7
  <2> QED  BY <1>9, <2>1, <2>2
<1>12. \A m \in 1 .. N : rs[m] = UpdateAt(g[m])
  BY <1>6, <1>7, <1>9
<1>13. ASSUME NEW m \in 1 .. N, NEW n \in 1 .. N, m < n
       PROVE  \/ rs[m].up.at < rs[n].up.at
              \/ rs[m].up.at = rs[n].up.at /\ Before(g[m], g[n])
  <2>1. Sooner(us, q[m], q[n])
    BY <1>7, <1>13
  <2>2. rs[m] = us[q[m]] /\ rs[n] = us[q[n]]
    BY <1>7
  <2>3. q[m] < q[n] => Before(g[m], g[n])
    BY <1>6, <1>9
  <2> QED  BY <2>1, <2>2, <2>3 DEF Sooner
<1>14. rs \in Seq(UpdateType)
  BY <1>7
<1>15. Placed(rs, g)
  BY <1>5, <1>10, <1>11, <1>12, <1>13, <1>14 DEF Placed
<1> QED  BY <1>1, <1>15

(* Teams that are those the lead created, but for what has become of their *)
(* tasks.                                                                  *)
Boards == {T \in Seq(TeamType) : /\ Len(T) = Len(Begun)
                                 /\ \A t \in DOMAIN Begun :
                                       /\ T[t].name = Begun[t].name
                                       /\ T[t].members = Begun[t].members
                                       /\ Len(T[t].tasks) = Len(Begun[t].tasks)}

(* An update changes neither the teams, nor their names, members or        *)
(* numbers of tasks.                                                       *)
LEMMA ApplyKeeps ==
    ASSUME IInv, Reading, NEW T \in Boards, NEW u \in UpdateType, u.team \in DOMAIN Begun
    PROVE  ApplyTaskUpdate(T, u) \in Boards /\ Applied(T, ApplyTaskUpdate(T, u), u)
<1>1. T \in Seq(TeamType) /\ DOMAIN T = DOMAIN Begun
  BY BegunIs, LenProperties DEF Boards
<1>2. PICK U : U = ApplyTaskUpdate(T, u) /\ Applied(T, U, u)
  BY <1>1, ApplyIs
<1>3. /\ U \in Seq(TeamType) /\ Len(U) = Len(T)
      /\ \A t \in DOMAIN T : /\ U[t].name = T[t].name /\ U[t].members = T[t].members
                             /\ Len(U[t].tasks) = Len(T[t].tasks)
  BY <1>2 DEF Applied
<1>4. U \in Boards
  BY <1>1, <1>3 DEF Boards
<1> QED  BY <1>2, <1>4

LEMMA OrderedAtHome ==
    ASSUME IInv, Reading
    PROVE  /\ Ordered \in Seq(UpdateType) /\ Len(Ordered) \in Nat
           /\ \A n \in 1 .. Len(Ordered) :
                 Ordered[n] \in UpdateType /\ Ordered[n].team \in DOMAIN Begun
<1>1. PICK g : Placed(Ordered, g)
  BY OrderedIs
<1>2. Ordered \in Seq(UpdateType)
  BY <1>1 DEF Placed
<1>3. \A n \in 1 .. Len(Ordered) : g[n] \in AllSites /\ Ordered[n] = UpdateAt(g[n])
  BY <1>1 DEF Placed
<1>4. \A n \in 1 .. Len(Ordered) : Ordered[n].team \in DOMAIN Begun
  BY <1>3, SitesAtHome
<1>5. \A n \in 1 .. Len(Ordered) : Ordered[n] \in UpdateType
  BY <1>2, ElementOfSeq
<1> QED  BY <1>2, <1>4, <1>5, LenProperties

LEMMA ReplayIs ==
    ASSUME IInv, Reading
    PROVE  /\ Replay[0] = Begun
           /\ \A n \in 1 .. Len(Ordered) : Applied(Replay[n - 1], Replay[n], Ordered[n])
           /\ \A n \in 0 .. Len(Ordered) : Replay[n] \in Boards
<1>1. PICK N, rs : rs = Ordered /\ N = Len(rs)
  OBVIOUS
<1>2. N \in Nat /\ \A n \in 1 .. N : rs[n] \in UpdateType /\ rs[n].team \in DOMAIN Begun
  BY <1>1, OrderedAtHome
<1>3. Begun \in Boards
  BY BegunIs DEF Boards
<1>4. \A T \in Boards, n \in 1 .. N : /\ ApplyTaskUpdate(T, rs[n]) \in Boards
                                      /\ Applied(T, ApplyTaskUpdate(T, rs[n]), rs[n])
  BY <1>2, ApplyKeeps
<1> DEFINE F == [y \in Boards \X (1 .. N) |-> ApplyTaskUpdate(y[1], rs[y[2]])]
           Is(f) == f = [n \in 0 .. N |-> IF n = 0 THEN Begun
                                          ELSE ApplyTaskUpdate(f[n - 1], rs[n])]
<1>5. F \in [Boards \X (1 .. N) -> Boards]
  BY <1>4
<1>6. \A T \in Boards, n \in 1 .. N : F[<<T, n>>] = ApplyTaskUpdate(T, rs[n])
  OBVIOUS
<1> HIDE DEF F
<1>7. PICK f : Iterate(f, N, Boards, Begun, F)
  BY <1>2, <1>3, <1>5, Iterates DEF StepOf
<1>8. Is(f)
  <2>0. /\ f \in [0 .. N -> Boards] /\ f[0] = Begun
        /\ \A n \in 1 .. N : f[n] = F[<<f[n - 1], n>>]
    BY <1>7 DEF Iterate
  <2>1. ASSUME NEW n \in 0 .. N
        PROVE  f[n] = IF n = 0 THEN Begun ELSE ApplyTaskUpdate(f[n - 1], rs[n])
    <3>1. CASE n = 0
      BY <2>0, <3>1
    <3>2. CASE n # 0
      <4>1. n \in 1 .. N /\ n - 1 \in 0 .. N
        BY <1>2, <3>2
      <4>2. f[n - 1] \in Boards
        BY <2>0, <4>1
      <4> QED  BY <1>6, <2>0, <3>2, <4>1, <4>2
    <3> QED  BY <3>1, <3>2
  <2> QED  BY <2>0, <2>1
<1>9. PICK h : h = Replay /\ Is(h)
  <2>1. Replay = CHOOSE h : Is(h)
    BY <1>1 DEF Replay, Replayed
  <2> QED  BY <1>8, <2>1
<1>10. \A n \in 0 .. N : h[n] = IF n = 0 THEN Begun ELSE ApplyTaskUpdate(h[n - 1], rs[n])
  BY <1>9
<1>11. h[0] = Begun /\ \A n \in 1 .. N : h[n] = ApplyTaskUpdate(h[n - 1], rs[n])
  <2>1. 0 \in 0 .. N /\ \A n \in 1 .. N : n \in 0 .. N /\ n # 0
    BY <1>2
  <2> QED  BY <1>10, <2>1
<1>12. \A n \in 0 .. N : h[n] \in Boards
  <2>1. \A n \in 1 .. N : h[n - 1] \in Boards => h[n] \in Boards
    BY <1>4, <1>11
  <2> HIDE DEF Is
  <2> QED  BY <1>2, <1>3, <1>11, <2>1, StaysIn
<1>13. \A n \in 1 .. N : Applied(h[n - 1], h[n], rs[n])
  <2>1. \A n \in 1 .. N : n - 1 \in 0 .. N
    BY <1>2
  <2> QED  BY <1>4, <1>11, <1>12, <2>1
<1> QED  BY <1>1, <1>9, <1>11, <1>12, <1>13

(* Of the first n updates, those of task k of team t that set a status,    *)
(* that name an owner, and that a teammate wrote.                          *)
Setters(n, t, k) == {m \in 1 .. n : Touches(Ordered[m], t, k) /\ Ordered[m].up.status}
Namers(n, t, k)  == {m \in 1 .. n : Touches(Ordered[m], t, k) /\ Ordered[m].up.owner # None}
Fallers(n, t, k) == {m \in 1 .. n : Touches(Ordered[m], t, k) /\ Ordered[m].fallback # None}

Top(S, m)    == m \in S /\ \A l \in S : l <= m
Bottom(S, m) == m \in S /\ \A l \in S : m <= l

StatusIs(n, t, k, task) ==
    \/ Setters(n, t, k) = {} /\ task.status = Pending
    \/ \E m : Top(Setters(n, t, k), m) /\ task.status = <<Ordered[m].up.at, Ordered[m].by>>

OwnerIs(n, t, k, task) ==
    \/ \E m : Top(Namers(n, t, k), m) /\ task.owner = Ordered[m].up.owner
    \/ /\ Namers(n, t, k) = {}
       /\ \E m : Bottom(Fallers(n, t, k), m) /\ task.owner = Ordered[m].fallback
    \/ Namers(n, t, k) = {} /\ Fallers(n, t, k) = {} /\ task.owner = None

(* One number more.                                                        *)
LEMMA NumbersGrow ==
    ASSUME NEW n \in Nat, n # 0
    PROVE  /\ \A m \in 1 .. n : m = n \/ m \in 1 .. n - 1
           /\ \A m \in 1 .. n - 1 : m \in 1 .. n /\ m <= n /\ ~ (n <= m)
           /\ n \in 1 .. n /\ n <= n /\ n \notin 1 .. n - 1
  OBVIOUS

(* StatusIs and OwnerIs are kept by every update of the replay.            *)
LEMMA StatusStep ==
    ASSUME NEW n \in Nat, n # 0, NEW t, NEW k, NEW task, NEW after,
           after.status = IF Touches(Ordered[n], t, k) /\ Ordered[n].up.status
                          THEN <<Ordered[n].up.at, Ordered[n].by>> ELSE task.status,
           StatusIs(n - 1, t, k, task)
    PROVE  StatusIs(n, t, k, after)
<1>1. CASE Touches(Ordered[n], t, k) /\ Ordered[n].up.status
  <2>1. Top(Setters(n, t, k), n)
    BY <1>1, NumbersGrow DEF Setters, Top
  <2> QED  BY <1>1, <2>1 DEF StatusIs
<1>2. CASE ~ (Touches(Ordered[n], t, k) /\ Ordered[n].up.status)
  <2>1. Setters(n, t, k) = Setters(n - 1, t, k)
    BY <1>2, NumbersGrow DEF Setters
  <2>2. after.status = task.status
    BY <1>2
  <2> QED  BY <2>1, <2>2 DEF StatusIs
<1> QED  BY <1>1, <1>2

LEMMA OwnerStep ==
    ASSUME NEW n \in Nat, n # 0, NEW t, NEW k, NEW task, NEW after,
           after.owner = IF ~ Touches(Ordered[n], t, k) THEN task.owner
                         ELSE IF Ordered[n].up.owner # None THEN Ordered[n].up.owner
                         ELSE IF task.owner = None THEN Ordered[n].fallback ELSE task.owner,
           OwnerIs(n - 1, t, k, task)
    PROVE  OwnerIs(n, t, k, after)
<1>1. CASE ~ Touches(Ordered[n], t, k)
  <2>1. Namers(n, t, k) = Namers(n - 1, t, k) /\ Fallers(n, t, k) = Fallers(n - 1, t, k)
    BY <1>1, NumbersGrow DEF Namers, Fallers
  <2>2. after.owner = task.owner
    BY <1>1
  <2> QED  BY <2>1, <2>2 DEF OwnerIs
<1>2. CASE Touches(Ordered[n], t, k) /\ Ordered[n].up.owner # None
  <2>1. Top(Namers(n, t, k), n)
    BY <1>2, NumbersGrow DEF Namers, Top
  <2>2. after.owner = Ordered[n].up.owner
    BY <1>2
  <2> QED  BY <2>1, <2>2 DEF OwnerIs
<1>3. CASE Touches(Ordered[n], t, k) /\ Ordered[n].up.owner = None
  <2>1. Namers(n, t, k) = Namers(n - 1, t, k)
    BY <1>3, NumbersGrow DEF Namers
  <2>2. after.owner = IF task.owner = None THEN Ordered[n].fallback ELSE task.owner
    BY <1>3
  <2>3. ASSUME NEW m, Top(Namers(n - 1, t, k), m), task.owner = Ordered[m].up.owner
        PROVE  OwnerIs(n, t, k, after)
    <3>1. Ordered[m].up.owner # None
      BY <2>3 DEF Top, Namers
    <3>2. after.owner = Ordered[m].up.owner
      BY <2>2, <2>3, <3>1
    <3> QED  BY <2>1, <2>3, <3>2 DEF OwnerIs
  <2>4. ASSUME NEW m, Namers(n - 1, t, k) = {}, Bottom(Fallers(n - 1, t, k), m),
               task.owner = Ordered[m].fallback
        PROVE  OwnerIs(n, t, k, after)
    <3>1. Ordered[m].fallback # None /\ m \in 1 .. n - 1
      BY <2>4 DEF Bottom, Fallers
    <3>2. after.owner = Ordered[m].fallback
      BY <2>2, <2>4, <3>1
    <3>3. Fallers(n, t, k) \subseteq Fallers(n - 1, t, k) \cup {n}
      BY NumbersGrow DEF Fallers
    <3>4. Fallers(n - 1, t, k) \subseteq Fallers(n, t, k)
      BY NumbersGrow DEF Fallers
    <3>5. m <= n
      BY <3>1
    <3>6. Bottom(Fallers(n, t, k), m)
      BY <2>4, <3>3, <3>4, <3>5 DEF Bottom
    <3> QED  BY <2>1, <2>4, <3>2, <3>6 DEF OwnerIs
  <2>5. ASSUME Namers(n - 1, t, k) = {}, Fallers(n - 1, t, k) = {}, task.owner = None
        PROVE  OwnerIs(n, t, k, after)
    <3>1. after.owner = Ordered[n].fallback
      BY <2>2, <2>5
    <3>2. \A m \in 1 .. n - 1 : m \notin Fallers(n, t, k)
      BY <2>5, NumbersGrow DEF Fallers
    <3>3. \A m \in Fallers(n, t, k) : m = n
      BY <3>2, NumbersGrow DEF Fallers
    <3>4. CASE Ordered[n].fallback # None
      <4>1. n \in Fallers(n, t, k) /\ n <= n
        BY <1>3, <3>4, NumbersGrow DEF Fallers
      <4>2. Bottom(Fallers(n, t, k), n)
        BY <3>3, <4>1 DEF Bottom
      <4> QED  BY <2>1, <2>5, <3>1, <4>2 DEF OwnerIs
    <3>5. CASE Ordered[n].fallback = None
      <4>1. n \notin Fallers(n, t, k)
        BY <3>5 DEF Fallers
      <4>2. Fallers(n, t, k) = {}
        BY <3>3, <4>1
      <4> QED  BY <2>1, <2>5, <3>1, <3>5, <4>2 DEF OwnerIs
    <3> QED  BY <3>4, <3>5
  <2> QED  BY <2>3, <2>4, <2>5 DEF OwnerIs
<1> QED  BY <1>1, <1>2, <1>3

(* A task, once the first n updates were replayed.                         *)
LEMMA ReplayOk ==
    ASSUME IInv, Reading, NEW t \in DOMAIN Begun, NEW k \in DOMAIN Begun[t].tasks
    PROVE  \A n \in 0 .. Len(Ordered) : /\ StatusIs(n, t, k, Replay[n][t].tasks[k])
                                        /\ OwnerIs(n, t, k, Replay[n][t].tasks[k])
<1> DEFINE Task(n) == Replay[n][t].tasks[k]
           Ok(n) == StatusIs(n, t, k, Task(n)) /\ OwnerIs(n, t, k, Task(n))
           T == {n \in Nat : n <= Len(Ordered) /\ ~ Ok(n)}
<1>1. Len(Ordered) \in Nat
  BY OrderedAtHome
<1>2. Ok(0)
  <2>1. Task(0) = NewTask
    BY ReplayIs, BegunIs DEF TasksLed
  <2>2. Task(0).status = Pending /\ Task(0).owner = None
    BY <2>1 DEF NewTask
  <2>3. Setters(0, t, k) = {} /\ Namers(0, t, k) = {} /\ Fallers(0, t, k) = {}
    BY DEF Setters, Namers, Fallers
  <2> HIDE DEF Task
  <2> QED  BY <2>2, <2>3 DEF StatusIs, OwnerIs
<1>3. ASSUME NEW n \in Nat, n + 1 <= Len(Ordered), Ok(n) PROVE Ok(n + 1)
  <2>1. PICK m \in Nat : m = n + 1 /\ m # 0 /\ m - 1 = n /\ m \in 1 .. Len(Ordered)
    BY <1>1, <1>3
  <2>2. PICK u, a, b : u = Ordered[m] /\ a = Replay[n] /\ b = Replay[m]
    OBVIOUS
  <2>3. Applied(a, b, u) /\ a \in Boards
    <3>1. n \in 0 .. Len(Ordered)
      BY <1>1, <1>3
    <3> QED  BY <2>1, <2>2, <3>1, ReplayIs
  <2>4. t \in DOMAIN a /\ k \in DOMAIN a[t].tasks
    <3>1. a \in Seq(TeamType) /\ Len(a) = Len(Begun) /\ Len(a[t].tasks) = Len(Begun[t].tasks)
      BY <2>3 DEF Boards
    <3>2. DOMAIN a = DOMAIN Begun
      BY <3>1, BegunIs, LenProperties
    <3>3. a[t].tasks \in Seq(TaskType) /\ Begun[t].tasks \in Seq(TaskType)
      BY <3>1, <3>2, BegunIs, TeamIs
    <3> QED  BY <3>1, <3>2, <3>3, LenProperties
  <2>5. PICK x, y : x = Task(n) /\ y = Task(m)
    OBVIOUS
  <2>6. y = IF Touches(u, t, k) THEN TaskAfter(x, u) ELSE x
    BY <2>2, <2>3, <2>4, <2>5 DEF Applied
  <2>7. /\ TaskAfter(x, u).status = IF u.up.status THEN <<u.up.at, u.by>> ELSE x.status
        /\ TaskAfter(x, u).owner = IF u.up.owner # None THEN u.up.owner
                                   ELSE IF x.owner = None THEN u.fallback ELSE x.owner
    BY DEF TaskAfter
  <2>8. y.status = IF Touches(u, t, k) /\ u.up.status THEN <<u.up.at, u.by>> ELSE x.status
    BY <2>6, <2>7
  <2>9. y.owner = IF ~ Touches(u, t, k) THEN x.owner
                  ELSE IF u.up.owner # None THEN u.up.owner
                  ELSE IF x.owner = None THEN u.fallback ELSE x.owner
    BY <2>6, <2>7
  <2>10. StatusIs(m - 1, t, k, x) /\ OwnerIs(m - 1, t, k, x)
    BY <1>3, <2>1, <2>5
  <2> HIDE DEF Task
  <2>11. StatusIs(m, t, k, y)
    BY <2>1, <2>2, <2>8, <2>10, StatusStep
  <2>12. OwnerIs(m, t, k, y)
    BY <2>1, <2>2, <2>9, <2>10, OwnerStep
  <2> QED  BY <2>1, <2>5, <2>11, <2>12
<1> HIDE DEF Ok
<1>4. 0 \notin T /\ T \in SUBSET Nat /\ \A n \in Nat : n \notin T => n + 1 \notin T
  <2>1. \A n \in Nat : n + 1 <= Len(Ordered) => n <= Len(Ordered)
    BY <1>1
  <2> QED  BY <1>2, <1>3, <2>1
<1> HIDE DEF T
<1>5. T = {}
  BY <1>4, NoLeast
<1> QED  BY <1>1, <1>5 DEF T, Ok
----------------------------------------------------------------------------
(* What the boards promise. *)

(* The update at x as the promise speaks of it.                            *)
Mention(x) ==
    [place |-> <<UpdateAt(x).up.at, x[1], x[2]>>, by |-> UpdateAt(x).by,
     fallback |-> UpdateAt(x).fallback, up |-> UpdateAt(x).up]

LeadTouching(t, k) ==
    {i \in 1 .. view : lead[i].op = "update" /\ ActiveAt(i) = t /\ lead[i].up.task = k}

AgentsOf(t) ==
    {i \in DOMAIN Agents : /\ IsMember(Agents[i].id)
                           /\ FirstTeam(Agents[i].id.team, view) = t}

AgentTouching(j, k) == {n \in DOMAIN Agents[j].updates : Agents[j].updates[n].task = k}

(* BoardExact's view of the updates: the ones at the same places.          *)
LEMMA LeadMention ==
    ASSUME NEW i
    PROVE  /\ Mention(<<0, i>>) = [place |-> <<lead[i].up.at, 0, i>>, by |-> 0,
                                   fallback |-> None, up |-> lead[i].up]
           /\ UpdateAt(<<0, i>>).team = ActiveAt(i) /\ UpdateAt(<<0, i>>).up = lead[i].up
<1>1. PICK x : x = <<0, i>> /\ x[1] = 0 /\ x[2] = i
  <2>1. <<0, i>>[1] = 0 /\ <<0, i>>[2] = i
    OBVIOUS
  <2> QED  BY <2>1
<1>2. UpdateAt(x) = [team |-> ActiveAt(i), by |-> 0, fallback |-> None, up |-> lead[i].up]
  BY <1>1 DEF UpdateAt, LeadsUpdate
<1>3. /\ UpdateAt(x).up = lead[i].up /\ UpdateAt(x).by = 0 /\ UpdateAt(x).fallback = None
      /\ UpdateAt(x).team = ActiveAt(i)
  BY <1>2
<1>4. Mention(x) = [place |-> <<lead[i].up.at, 0, i>>, by |-> 0,
                    fallback |-> None, up |-> lead[i].up]
  BY <1>1, <1>3 DEF Mention
<1> QED  BY <1>1, <1>3, <1>4

LEMMA AgentMention ==
    ASSUME NEW j, j # 0, NEW n
    PROVE  LET p == Agents[j] IN
           /\ Mention(<<j, n>>) = [place |-> <<p.updates[n].at, j, n>>, by |-> p.file,
                                   fallback |-> p.id.name, up |-> p.updates[n]]
           /\ UpdateAt(<<j, n>>).team = FirstTeam(p.id.team, view)
           /\ UpdateAt(<<j, n>>).up = p.updates[n]
<1>1. PICK x : x = <<j, n>> /\ x[1] = j /\ x[2] = n
  <2>1. <<j, n>>[1] = j /\ <<j, n>>[2] = n
    OBVIOUS
  <2> QED  BY <2>1
<1>2. PICK p : p = Agents[j]
  OBVIOUS
<1>3. UpdateAt(x) = [team |-> FirstTeam(p.id.team, view), by |-> p.file,
                     fallback |-> p.id.name, up |-> p.updates[n]]
  BY <1>1, <1>2 DEF UpdateAt
<1>4. /\ UpdateAt(x).up = p.updates[n] /\ UpdateAt(x).by = p.file
      /\ UpdateAt(x).fallback = p.id.name /\ UpdateAt(x).team = FirstTeam(p.id.team, view)
  BY <1>3
<1>5. Mention(x) = [place |-> <<p.updates[n].at, j, n>>, by |-> p.file,
                    fallback |-> p.id.name, up |-> p.updates[n]]
  BY <1>1, <1>4 DEF Mention
<1> QED  BY <1>1, <1>2, <1>4, <1>5

Touching(t, k) == {x \in AllSites : Touches(UpdateAt(x), t, k)}

LEMMA AddressedAre ==
    ASSUME IInv, Reading, NEW t, t # 0, NEW k
    PROVE  Addressed(t, k, Agents) = {Mention(x) : x \in Touching(t, k)}
<1> DEFINE A == {[place |-> <<lead[i].up.at, 0, i>>, by |-> 0, fallback |-> None,
                  up |-> lead[i].up] : i \in LeadTouching(t, k)}
           B(j) == {[place |-> <<Agents[j].updates[n].at, j, n>>, by |-> Agents[j].file,
                     fallback |-> Agents[j].id.name, up |-> Agents[j].updates[n]]
                        : n \in AgentTouching(j, k)}
           M == {Mention(x) : x \in Touching(t, k)}
<1>1. Addressed(t, k, Agents) = A \cup UNION {B(j) : j \in AgentsOf(t)}
  BY DEF Addressed, LeadTouching, AgentsOf, AgentTouching
<1>2. DOMAIN Agents = 1 .. Len(Agents) /\ Len(Agents) \in Nat
  BY AgentsAre
<1>3. A = {Mention(<<0, i>>) : i \in LeadTouching(t, k)}
  BY LeadMention
<1>4. ASSUME NEW j \in DOMAIN Agents
      PROVE  B(j) = {Mention(<<j, n>>) : n \in AgentTouching(j, k)}
  <2>1. j # 0
    BY <1>2
  <2>2. \A n : Mention(<<j, n>>) = [place |-> <<Agents[j].updates[n].at, j, n>>,
                                    by |-> Agents[j].file, fallback |-> Agents[j].id.name,
                                    up |-> Agents[j].updates[n]]
    BY <2>1, AgentMention
  <2> QED  BY <2>2
<1> HIDE DEF A, B
<1>5. ASSUME NEW i \in LeadTouching(t, k) PROVE <<0, i>> \in Touching(t, k)
  <2>1. i \in 1 .. view /\ lead[i].op = "update" /\ ActiveAt(i) = t /\ lead[i].up.task = k
    BY DEF LeadTouching
  <2>2. <<0, i>> \in AllSites
    BY <2>1 DEF AllSites, Sites, LeadSites
  <2>3. Touches(UpdateAt(<<0, i>>), t, k)
    BY <2>1, LeadMention DEF Touches
  <2> QED  BY <2>2, <2>3 DEF Touching
<1>6. ASSUME NEW j \in AgentsOf(t), NEW n \in AgentTouching(j, k)
      PROVE  <<j, n>> \in Touching(t, k)
  <2>1. /\ j \in 1 .. Len(Agents) /\ j # 0 /\ Tells(j)
        /\ FirstTeam(Agents[j].id.team, view) = t
    BY <1>2 DEF AgentsOf, Tells
  <2>2. n \in DOMAIN Agents[j].updates /\ Agents[j].updates[n].task = k
    BY DEF AgentTouching
  <2>3. <<j, n>> \in ToldBy(j)
    BY <2>1, <2>2 DEF ToldBy
  <2>4. <<j, n>> \in AllSites
    BY <2>1, <2>3 DEF AllSites, Sites
  <2>5. Touches(UpdateAt(<<j, n>>), t, k)
    BY <2>1, <2>2, AgentMention DEF Touches
  <2> QED  BY <2>4, <2>5 DEF Touching
<1>7. ASSUME NEW x \in Touching(t, k)
      PROVE  \/ \E i \in LeadTouching(t, k) : x = <<0, i>>
             \/ \E j \in AgentsOf(t) : \E n \in AgentTouching(j, k) : x = <<j, n>>
  <2>1. x \in AllSites /\ UpdateAt(x).team = t /\ UpdateAt(x).up.task = k
    BY DEF Touching, Touches
  <2>2. CASE x \in LeadSites(view)
    <3>1. PICK i \in 1 .. view : x = <<0, i>> /\ lead[i].op = "update"
      BY <2>2 DEF LeadSites
    <3>2. i \in LeadTouching(t, k)
      BY <2>1, <3>1, LeadMention DEF LeadTouching
    <3> QED  BY <3>1, <3>2
  <2>3. CASE \E j \in 1 .. Len(Agents) : x \in ToldBy(j)
    <3>1. PICK j \in 1 .. Len(Agents) : x \in ToldBy(j)
      BY <2>3
    <3>2. PICK n \in DOMAIN Agents[j].updates : x = <<j, n>> /\ Tells(j)
      BY <3>1 DEF ToldBy
    <3>3. j # 0 /\ j \in DOMAIN Agents
      BY <1>2
    <3>4. FirstTeam(Agents[j].id.team, view) = t /\ Agents[j].updates[n].task = k
      BY <2>1, <3>2, <3>3, AgentMention
    <3>5. j \in AgentsOf(t) /\ n \in AgentTouching(j, k)
      BY <3>2, <3>3, <3>4 DEF AgentsOf, AgentTouching, Tells
    <3> QED  BY <3>2, <3>5
  <2> QED  BY <2>1, <2>2, <2>3 DEF AllSites, Sites
<1>8. A \subseteq M
  BY <1>3, <1>5
<1>9. \A j \in AgentsOf(t) : j \in DOMAIN Agents
  BY DEF AgentsOf
<1>10. ASSUME NEW j \in AgentsOf(t) PROVE B(j) \subseteq M
  <2>1. B(j) = {Mention(<<j, n>>) : n \in AgentTouching(j, k)}
    BY <1>4, <1>9
  <2> QED  BY <1>6, <2>1
<1>11. ASSUME NEW x \in Touching(t, k)
       PROVE  Mention(x) \in A \/ \E j \in AgentsOf(t) : Mention(x) \in B(j)
  <2>1. CASE \E i \in LeadTouching(t, k) : x = <<0, i>>
    BY <1>3, <2>1
  <2>2. CASE \E j \in AgentsOf(t) : \E n \in AgentTouching(j, k) : x = <<j, n>>
    <3>1. PICK j \in AgentsOf(t) : \E n \in AgentTouching(j, k) : x = <<j, n>>
      BY <2>2
    <3>2. B(j) = {Mention(<<j, n>>) : n \in AgentTouching(j, k)}
      BY <1>4, <1>9
    <3> QED  BY <3>1, <3>2
  <2> QED  BY <1>7, <2>1, <2>2
<1> QED  BY <1>1, <1>8, <1>10, <1>11

(* The latest and the earliest of a set of mentions.                       *)
LEMMA LatestIs ==
    ASSUME NEW U, NEW top \in U,
           \A v \in U : NotAfter(v.place, top.place),
           \A v \in U : v # top => ~ NotAfter(top.place, v.place)
    PROVE  Latest(U) = top
<1>1. PICK u : u = CHOOSE x \in U : \A v \in U : NotAfter(v.place, x.place)
  OBVIOUS
<1>2. u \in U /\ \A v \in U : NotAfter(v.place, u.place)
  BY <1>1
<1>3. u = top
  BY <1>2
<1> QED  BY <1>1, <1>3 DEF Latest

LEMMA EarliestIs ==
    ASSUME NEW U, NEW low \in U,
           \A v \in U : NotAfter(low.place, v.place),
           \A v \in U : v # low => ~ NotAfter(v.place, low.place)
    PROVE  Earliest(U) = low
<1>1. PICK u : u = CHOOSE x \in U : \A v \in U : NotAfter(x.place, v.place)
  OBVIOUS
<1>2. u \in U /\ \A v \in U : NotAfter(u.place, v.place)
  BY <1>1
<1>3. u = low
  BY <1>2
<1> QED  BY <1>1, <1>3 DEF Earliest

(* A later update of the replay has a later place.                         *)
LEMMA PlacesGrow ==
    ASSUME IInv, Reading, NEW g, Placed(Ordered, g),
           NEW m \in 1 .. Len(Ordered), NEW n \in 1 .. Len(Ordered)
    PROVE  /\ NotAfter(Mention(g[m]).place, Mention(g[m]).place)
           /\ m < n => /\ NotAfter(Mention(g[m]).place, Mention(g[n]).place)
                       /\ ~ NotAfter(Mention(g[n]).place, Mention(g[m]).place)
<1>1. ASSUME NEW x \in AllSites PROVE x[1] \in Nat /\ x[2] \in Nat
  <2>1. CASE x \in LeadSites(view)
    BY <2>1, BegunIs DEF LeadSites
  <2>2. CASE \E j \in 1 .. Len(Agents) : x \in ToldBy(j)
    <3>1. PICK j \in 1 .. Len(Agents) : x \in ToldBy(j)
      BY <2>2
    <3>2. /\ DOMAIN Agents[j].updates = 1 .. Len(Agents[j].updates)
          /\ Len(Agents[j].updates) \in Nat
      BY AgentsAre, LenProperties
    <3> QED  BY <3>1, <3>2 DEF ToldBy
  <2> QED  BY <2>1, <2>2 DEF AllSites, Sites
<1>2. /\ g[m] \in AllSites /\ g[n] \in AllSites
      /\ Ordered[m] = UpdateAt(g[m]) /\ Ordered[n] = UpdateAt(g[n])
  BY DEF Placed
<1>3. Ordered[m].up.at \in Nat /\ Ordered[n].up.at \in Nat
  BY OrderedAtHome, UpdateParts
<1>4. PICK a, b, c, d, e, f : /\ a = Ordered[m].up.at /\ b = g[m][1] /\ c = g[m][2]
                              /\ d = Ordered[n].up.at /\ e = g[n][1] /\ f = g[n][2]
  OBVIOUS
<1>5. /\ a \in Nat /\ b \in Nat /\ c \in Nat /\ d \in Nat /\ e \in Nat /\ f \in Nat
  BY <1>1, <1>2, <1>3, <1>4
<1>6. Mention(g[m]).place = <<a, b, c>> /\ Mention(g[n]).place = <<d, e, f>>
  BY <1>2, <1>4 DEF Mention
<1>7. m < n => a < d \/ (a = d /\ (b < e \/ (b = e /\ c < f)))
  BY <1>4 DEF Placed, Before
<1>8. NotAfter(<<a, b, c>>, <<a, b, c>>)
  BY <1>5 DEF NotAfter
<1>9. m < n => NotAfter(<<a, b, c>>, <<d, e, f>>) /\ ~ NotAfter(<<d, e, f>>, <<a, b, c>>)
  BY <1>5, <1>7 DEF NotAfter
<1> QED  BY <1>6, <1>8, <1>9

(* Of some of the updates, the last replayed is the latest, the first the  *)
(* earliest.                                                               *)
LEMMA ChosenAre ==
    ASSUME IInv, Reading, NEW g, Placed(Ordered, g),
           NEW S \in SUBSET (1 .. Len(Ordered)), NEW m
    PROVE  /\ Top(S, m) => Latest({Mention(g[l]) : l \in S}) = Mention(g[m])
           /\ Bottom(S, m) => Earliest({Mention(g[l]) : l \in S}) = Mention(g[m])
<1> DEFINE U == {Mention(g[l]) : l \in S}
           M(l) == Mention(g[l])
<1>1. \A l \in 1 .. Len(Ordered) : l \in Nat
  OBVIOUS
<1>2. \A l, n \in 1 .. Len(Ordered) :
         /\ NotAfter(M(l).place, M(l).place)
         /\ l < n => NotAfter(M(l).place, M(n).place) /\ ~ NotAfter(M(n).place, M(l).place)
  BY PlacesGrow
<1> HIDE DEF M
<1>3. ASSUME Top(S, m) PROVE Latest(U) = M(m)
  <2>1. m \in S /\ \A l \in S : l = m \/ l < m
    BY <1>1, <1>3 DEF Top
  <2>2. M(m) \in U
    BY <2>1 DEF M
  <2>3. \A v \in U : \E l \in S : v = M(l)
    BY DEF M
  <2>4. ASSUME NEW v \in U
        PROVE  /\ NotAfter(v.place, M(m).place)
               /\ v # M(m) => ~ NotAfter(M(m).place, v.place)
    BY <1>2, <2>1, <2>3
  <2> HIDE DEF U
  <2> QED  BY <2>2, <2>4, LatestIs
<1>4. ASSUME Bottom(S, m) PROVE Earliest(U) = M(m)
  <2>1. m \in S /\ \A l \in S : l = m \/ m < l
    BY <1>1, <1>4 DEF Bottom
  <2>2. M(m) \in U
    BY <2>1 DEF M
  <2>3. \A v \in U : \E l \in S : v = M(l)
    BY DEF M
  <2>4. ASSUME NEW v \in U
        PROVE  /\ NotAfter(M(m).place, v.place)
               /\ v # M(m) => ~ NotAfter(v.place, M(m).place)
    BY <1>2, <2>1, <2>3
  <2> HIDE DEF U
  <2> QED  BY <2>2, <2>4, EarliestIs
<1> QED  BY <1>3, <1>4 DEF M

(* The boards are the teams once all updates were replayed.                *)
Final == Replay[Len(Ordered)]

(* The boards are the teams after the whole replay.                        *)
LEMMA FinalIs ==
    ASSUME IInv, Reading
    PROVE  /\ BoardsOf(view) = Final /\ Final \in Boards
           /\ DOMAIN Final = DOMAIN Begun /\ Len(Final) = Cardinality(Creates(view))
           /\ \A t \in DOMAIN Begun :
                 /\ Len(Final[t].tasks) = Cardinality(TasksOf(view, t))
                 /\ DOMAIN Final[t].tasks = DOMAIN Begun[t].tasks
                 /\ Final[t].name = Begun[t].name /\ Final[t].members = Begun[t].members
<1>1. BoardsOf(view) = Final
  <2>1. Walked(Chunks)[Len(Chunks)] = Walk[view]
    BY ChunksAre DEF Walk
  <2>2. Gathered(Walk[view], Agents)[Len(Agents)] = Updates
    BY DEF Updates, Gather
  <2>3. ReconstructTeams(Chunks, Agents) =
           Replayed(Walk[view].teams, ReplayOrder(Updates))[Len(ReplayOrder(Updates))]
    BY <2>1, <2>2 DEF ReconstructTeams
  <2> QED  BY <2>3 DEF BoardsOf, Chunks, Agents, Final, Replay, Ordered, Begun
<1>2. Final \in Boards
  <2>1. Len(Ordered) \in 0 .. Len(Ordered)
    BY OrderedAtHome
  <2> QED  BY <2>1, ReplayIs DEF Final
<1>3. PICK F : F = Final
  OBVIOUS
<1>4. /\ F \in Seq(TeamType) /\ Len(F) = Len(Begun)
      /\ \A t \in DOMAIN Begun : /\ F[t].name = Begun[t].name
                                 /\ F[t].members = Begun[t].members
                                 /\ Len(F[t].tasks) = Len(Begun[t].tasks)
  BY <1>2, <1>3 DEF Boards
<1>5. DOMAIN F = DOMAIN Begun
  BY <1>4, BegunIs, LenProperties
<1>6. ASSUME NEW t \in DOMAIN Begun PROVE DOMAIN F[t].tasks = DOMAIN Begun[t].tasks
  <2>1. F[t].tasks \in Seq(TaskType) /\ Begun[t].tasks \in Seq(TaskType)
    BY <1>4, <1>5, BegunIs, TeamIs
  <2> QED  BY <1>4, <2>1, LenProperties
<1>7. \A t \in DOMAIN Begun : Len(F[t].tasks) = Cardinality(TasksOf(view, t))
  BY <1>4, BegunIs DEF TasksLed
<1>8. Len(F) = Cardinality(Creates(view))
  BY <1>4, BegunIs DEF Named
<1> QED  BY <1>1, <1>2, <1>3, <1>4, <1>5, <1>6, <1>7, <1>8

(* The id of a teammate names its team.                                    *)
LEMMA MembersOfTeams ==
    ASSUME IInv, Reading, NEW i \in DOMAIN Agents, IsMember(Agents[i].id)
    PROVE  Agents[i].id.team # None
<1>1. PICK q, ps : q = Agents /\ ps = Discovered
  OBVIOUS
<1>2. PICK links : links = Links(Discovered, Calls, results)
  OBVIOUS
<1>3. q = [j \in DOMAIN ps |-> Linked(ps[j], j, Calls, links)]
  BY <1>1, <1>2 DEF Agents, ProcsOf, LinkSubagents, Discovered, Calls
<1>4. i \in DOMAIN ps
  BY <1>1, <1>3
<1>5. PICK p, f : p = ps[i] /\ f = files[p.file]
  OBVIOUS
<1>6. Shows(p, f) /\ TrueOf(f, lead) /\ f.of # 0
  BY <1>1, <1>4, <1>5, ProcessesAre
<1>7. p \in ProcessType(Len(files))
  <2>1. ps \in Seq(ProcessType(Len(files)))
    BY <1>1, ProcessesAre
  <2> QED  BY <1>4, <1>5, <2>1, LenProperties, ElementOfSeq
<1>8. ASSUME IsMember(p.id) PROVE p.id.team # None
  <2>1. p.id = f.member /\ f.dir = "project"
    BY <1>6, <1>8 DEF Shows, Hex, IsMember
  <2>2. PICK c : c = lead[f.of] /\ f.member = Member(c.name, c.team) /\ IsTeamTask(c)
    BY <1>6, <2>1 DEF TrueOf
  <2> QED  BY <2>1, <2>2 DEF Member, IsTeamTask
<1> DEFINE parents == {c \in Calls : IF i \in Procs(links) THEN <<i, c.at>> \in links
                                                           ELSE c.at = p.parent}
<1>9. q[i] = Linked(p, i, Calls, links)
  BY <1>3, <1>4, <1>5
<1>10. CASE parents = {}
  <2>1. q[i] = p
    BY <1>9, <1>10 DEF Linked
  <2> QED  BY <1>1, <1>8, <2>1
<1>11. CASE parents # {}
  <2>1. PICK c : c = CHOOSE x \in parents : TRUE
    OBVIOUS
  <2>2. PICK id : id = IF IsTeamTask(c) THEN Member(c.name, c.team) ELSE p.id
    OBVIOUS
  <2>3. q[i] = [p EXCEPT !.parent = c.at, !.id = id]
    BY <1>9, <1>11, <2>1, <2>2 DEF Linked
  <2>4. q[i].id = id
    BY <1>7, <2>3 DEF ProcessType
  <2>5. IsTeamTask(c) => Member(c.name, c.team).team # None
    BY DEF Member, IsTeamTask
  <2> QED  BY <1>1, <1>8, <2>2, <2>4, <2>5
<1> QED  BY <1>10, <1>11

(* The boards are exact: the members, then the tasks.                      *)
LEMMA ShowsWorkers == IInv => WorkersAreMembers
<1> SUFFICES ASSUME IInv, Reading PROVE WorkersAreMembers
  BY DEF WorkersAreMembers
<1>1. PICK teams : teams = BoardsOf(view)
  OBVIOUS
<1>2. /\ DOMAIN teams = DOMAIN Begun
      /\ \A t \in DOMAIN Begun : /\ teams[t].name = Begun[t].name
                                 /\ teams[t].members = Begun[t].members
  BY <1>1, FinalIs
<1>3. /\ \A t \in DOMAIN Begun : IsInjective(Begun[t].members)
      /\ \A i \in 1 .. view : Joining(i) => JoinedBy(i, Begun)
  BY BegunIs DEF MembersLed
<1>4. ASSUME NEW p \in Range(Agents), IsMember(p.id),
             NEW c \in Calls, Member(c.name, c.team) = p.id, FirstTeam(c.team, c.at) # 0
      PROVE  \E t \in DOMAIN teams : /\ teams[t].name = p.id.team
                                     /\ p.id.name \in Range(teams[t].members)
  <2>1. PICK j \in DOMAIN Agents : p = Agents[j]
    BY DEF Range
  <2>2. p.id.team # None
    BY <1>4, <2>1, MembersOfTeams
  <2>3. p.id.team = c.team /\ p.id.name = c.name
    BY <1>4 DEF Member
  <2>4. PICK i \in 1 .. view : i = c.at /\ c = lead[i] /\ c.op = "spawn"
    BY CallsAre
  <2>5. Joining(i)
    BY <1>4, <2>2, <2>3, <2>4 DEF Joining, IsTeamTask
  <2>6. PICK t \in DOMAIN Begun : /\ Begun[t].name = lead[i].team
                                  /\ lead[i].name \in Range(Begun[t].members)
    BY <1>3, <2>5 DEF JoinedBy
  <2> QED  BY <1>2, <2>3, <2>4, <2>6
<1>5. \A t \in DOMAIN teams : IsInjective(teams[t].members)
  BY <1>2, <1>3
<1> QED  BY <1>1, <1>4, <1>5 DEF WorkersAreMembers, Agents, Calls

(* The mentions of a task are those of the updates that touch it, and each *)
(* is found among its kind by its place in the replay.                     *)
LEMMA MentionsAre ==
    ASSUME IInv, Reading, NEW g, Placed(Ordered, g), NEW t \in DOMAIN Begun, NEW k
    PROVE  LET all == Addressed(t, k, Agents)
               N   == Len(Ordered)
           IN  /\ {u \in all : u.up.status} = {Mention(g[l]) : l \in Setters(N, t, k)}
               /\ {u \in all : u.up.owner # None} = {Mention(g[l]) : l \in Namers(N, t, k)}
               /\ {u \in all : u.fallback # None} = {Mention(g[l]) : l \in Fallers(N, t, k)}
<1> DEFINE D == 1 .. Len(Ordered)
           all == Addressed(t, k, Agents)
<1>1. t # 0
  BY BegunIs
<1>2. all = {Mention(x) : x \in Touching(t, k)}
  BY <1>1, AddressedAre
<1> HIDE DEF all
<1>3. /\ \A l \in D : g[l] \in AllSites /\ Ordered[l] = UpdateAt(g[l])
      /\ \A x \in AllSites : \E l \in D : g[l] = x
  BY DEF Placed
<1>4. ASSUME NEW l \in D
      PROVE  /\ Mention(g[l]).up = Ordered[l].up
             /\ Mention(g[l]).fallback = Ordered[l].fallback
             /\ g[l] \in Touching(t, k) <=> Touches(Ordered[l], t, k)
  BY <1>3 DEF Mention, Touching
<1>5. \A l \in D : Touches(Ordered[l], t, k) => Mention(g[l]) \in all
  BY <1>2, <1>4
<1>6. ASSUME NEW u \in all PROVE \E l \in D : u = Mention(g[l]) /\ Touches(Ordered[l], t, k)
  <2>1. PICK x \in Touching(t, k) : u = Mention(x)
    BY <1>2
  <2>2. PICK l \in D : g[l] = x
    BY <1>3 DEF Touching
  <2> QED  BY <1>4, <2>1, <2>2
<1>7. {u \in all : u.up.status} = {Mention(g[l]) : l \in Setters(Len(Ordered), t, k)}
  <2>1. \A l \in Setters(Len(Ordered), t, k) :
           /\ l \in D /\ Mention(g[l]) \in all /\ Mention(g[l]).up.status
    BY <1>4, <1>5 DEF Setters
  <2>2. ASSUME NEW u \in all, u.up.status
        PROVE  \E l \in Setters(Len(Ordered), t, k) : u = Mention(g[l])
    BY <1>4, <1>6, <2>2 DEF Setters
  <2> QED  BY <2>1, <2>2
<1>8. {u \in all : u.up.owner # None} = {Mention(g[l]) : l \in Namers(Len(Ordered), t, k)}
  <2>1. \A l \in Namers(Len(Ordered), t, k) :
           /\ l \in D /\ Mention(g[l]) \in all /\ Mention(g[l]).up.owner # None
    BY <1>4, <1>5 DEF Namers
  <2>2. ASSUME NEW u \in all, u.up.owner # None
        PROVE  \E l \in Namers(Len(Ordered), t, k) : u = Mention(g[l])
    BY <1>4, <1>6, <2>2 DEF Namers
  <2> QED  BY <2>1, <2>2
<1>9. {u \in all : u.fallback # None} = {Mention(g[l]) : l \in Fallers(Len(Ordered), t, k)}
  <2>1. \A l \in Fallers(Len(Ordered), t, k) :
           /\ l \in D /\ Mention(g[l]) \in all /\ Mention(g[l]).fallback # None
    BY <1>4, <1>5 DEF Fallers
  <2>2. ASSUME NEW u \in all, u.fallback # None
        PROVE  \E l \in Fallers(Len(Ordered), t, k) : u = Mention(g[l])
    BY <1>4, <1>6, <2>2 DEF Fallers
  <2> QED  BY <2>1, <2>2
<1> QED  BY <1>7, <1>8, <1>9 DEF all

(* The status and the owner of a task, as promised.                        *)
LEMMA FinalTask ==
    ASSUME IInv, Reading, NEW t \in DOMAIN Begun, NEW k \in DOMAIN Begun[t].tasks
    PROVE  LET all    == Addressed(t, k, Agents)
               states == {u \in all : u.up.status}
               named  == {u \in all : u.up.owner # None}
               others == {u \in all : u.fallback # None}
           IN  /\ Final[t].tasks[k].status =
                     IF states = {} THEN Pending
                     ELSE <<Latest(states).up.at, Latest(states).by>>
               /\ Final[t].tasks[k].owner =
                     IF named # {} THEN Latest(named).up.owner
                     ELSE IF others # {} THEN Earliest(others).fallback ELSE None
<1> DEFINE all    == Addressed(t, k, Agents)
           states == {u \in all : u.up.status}
           named  == {u \in all : u.up.owner # None}
           others == {u \in all : u.fallback # None}
<1>1. PICK g : Placed(Ordered, g)
  BY OrderedIs
<1>2. PICK N, task : N = Len(Ordered) /\ task = Final[t].tasks[k]
  OBVIOUS
<1>3. /\ states = {Mention(g[l]) : l \in Setters(N, t, k)}
      /\ named = {Mention(g[l]) : l \in Namers(N, t, k)}
      /\ others = {Mention(g[l]) : l \in Fallers(N, t, k)}
  BY <1>1, <1>2, MentionsAre
<1>4. StatusIs(N, t, k, task) /\ OwnerIs(N, t, k, task)
  <2>1. N \in 0 .. N
    BY <1>2, OrderedAtHome
  <2> QED  BY <1>2, <2>1, ReplayOk DEF Final
<1>5. \A l \in 1 .. N : /\ Mention(g[l]).up = Ordered[l].up /\ Mention(g[l]).by = Ordered[l].by
                        /\ Mention(g[l]).fallback = Ordered[l].fallback
  BY <1>1, <1>2 DEF Placed, Mention
<1> HIDE DEF states, named, others
<1>6. ASSUME NEW S \in SUBSET (1 .. N), NEW m
      PROVE  /\ Top(S, m) => Latest({Mention(g[l]) : l \in S}) = Mention(g[m])
             /\ Bottom(S, m) => Earliest({Mention(g[l]) : l \in S}) = Mention(g[m])
  BY <1>1, <1>2, ChosenAre
<1>7. /\ Setters(N, t, k) \in SUBSET (1 .. N) /\ Namers(N, t, k) \in SUBSET (1 .. N)
      /\ Fallers(N, t, k) \in SUBSET (1 .. N)
  BY DEF Setters, Namers, Fallers
<1>8. task.status = IF states = {} THEN Pending
                    ELSE <<Latest(states).up.at, Latest(states).by>>
  <2>1. CASE Setters(N, t, k) = {} /\ task.status = Pending
    BY <1>3, <2>1
  <2>2. ASSUME NEW m, Top(Setters(N, t, k), m),
               task.status = <<Ordered[m].up.at, Ordered[m].by>>
        PROVE  states # {} /\ task.status = <<Latest(states).up.at, Latest(states).by>>
    <3>1. m \in Setters(N, t, k) /\ m \in 1 .. N
      BY <1>7, <2>2 DEF Top
    <3>2. Latest(states) = Mention(g[m])
      BY <1>3, <1>6, <1>7, <2>2
    <3>3. Mention(g[m]) \in states
      BY <1>3, <3>1
    <3> QED  BY <1>5, <2>2, <3>1, <3>2, <3>3
  <2> QED  BY <1>4, <2>1, <2>2 DEF StatusIs
<1>9. task.owner = IF named # {} THEN Latest(named).up.owner
                   ELSE IF others # {} THEN Earliest(others).fallback ELSE None
  <2>1. ASSUME NEW m, Top(Namers(N, t, k), m), task.owner = Ordered[m].up.owner
        PROVE  named # {} /\ task.owner = Latest(named).up.owner
    <3>1. m \in Namers(N, t, k) /\ m \in 1 .. N
      BY <1>7, <2>1 DEF Top
    <3>2. Latest(named) = Mention(g[m])
      BY <1>3, <1>6, <1>7, <2>1
    <3>3. Mention(g[m]) \in named
      BY <1>3, <3>1
    <3> QED  BY <1>5, <2>1, <3>1, <3>2, <3>3
  <2>2. ASSUME NEW m, Bottom(Fallers(N, t, k), m), task.owner = Ordered[m].fallback
        PROVE  others # {} /\ task.owner = Earliest(others).fallback
    <3>1. m \in Fallers(N, t, k) /\ m \in 1 .. N
      BY <1>7, <2>2 DEF Bottom
    <3>2. Earliest(others) = Mention(g[m])
      BY <1>3, <1>6, <1>7, <2>2
    <3>3. Mention(g[m]) \in others
      BY <1>3, <3>1
    <3> QED  BY <1>5, <2>2, <3>1, <3>2, <3>3
  <2>3. Namers(N, t, k) = {} => named = {}
    BY <1>3
  <2>4. Fallers(N, t, k) = {} => others = {}
    BY <1>3
  <2> QED  BY <1>4, <2>1, <2>2, <2>3, <2>4 DEF OwnerIs
<1> QED  BY <1>2, <1>8, <1>9 DEF states, named, others

(* What is shown at a refresh are the exact boards.                        *)
LEMMA ShowsBoards == IInv => BoardExact
<1> SUFFICES ASSUME IInv PROVE BoardExact
  OBVIOUS
<1>1. WorkersAreMembers
  BY ShowsWorkers
<1>2. ASSUME Reading
      PROVE  LET procs == ProcsOf(view)
                 teams == BoardsOf(view)
             IN  /\ Len(teams) = Cardinality(Creates(view))
                 /\ \A t \in DOMAIN teams :
                       /\ Len(teams[t].tasks) =
                             Cardinality({i \in 1 .. view :
                                          lead[i].op = "task" /\ ActiveAt(i) = t})
                       /\ \A k \in DOMAIN teams[t].tasks :
                             LET all    == Addressed(t, k, procs)
                                 states == {u \in all : u.up.status}
                                 named  == {u \in all : u.up.owner # None}
                                 others == {u \in all : u.fallback # None}
                             IN  /\ teams[t].tasks[k].status =
                                       IF states = {} THEN Pending
                                       ELSE <<Latest(states).up.at, Latest(states).by>>
                                 /\ teams[t].tasks[k].owner =
                                       IF named # {} THEN Latest(named).up.owner
                                       ELSE IF others # {} THEN Earliest(others).fallback
                                       ELSE None
  <2>1. PICK procs, teams : procs = Agents /\ teams = Final
    OBVIOUS
  <2>2. ProcsOf(view) = procs /\ BoardsOf(view) = teams
    BY <1>2, <2>1, FinalIs DEF Agents
  <2>3. /\ DOMAIN teams = DOMAIN Begun /\ Len(teams) = Cardinality(Creates(view))
        /\ \A t \in DOMAIN Begun : /\ Len(teams[t].tasks) = Cardinality(TasksOf(view, t))
                                   /\ DOMAIN teams[t].tasks = DOMAIN Begun[t].tasks
    BY <1>2, <2>1, FinalIs
  <2>4. ASSUME NEW t \in DOMAIN Begun
        PROVE  Len(teams[t].tasks) =
                  Cardinality({i \in 1 .. view : lead[i].op = "task" /\ ActiveAt(i) = t})
    BY <2>3 DEF TasksOf
  <2>5. ASSUME NEW t \in DOMAIN Begun, NEW k \in DOMAIN Begun[t].tasks
        PROVE  LET all    == Addressed(t, k, procs)
                   states == {u \in all : u.up.status}
                   named  == {u \in all : u.up.owner # None}
                   others == {u \in all : u.fallback # None}
               IN  /\ teams[t].tasks[k].status =
                         IF states = {} THEN Pending
                         ELSE <<Latest(states).up.at, Latest(states).by>>
                   /\ teams[t].tasks[k].owner =
                         IF named # {} THEN Latest(named).up.owner
                         ELSE IF others # {} THEN Earliest(others).fallback ELSE None
    BY <1>2, <2>1, FinalTask
  <2> QED  BY <2>2, <2>3, <2>4, <2>5
<1> QED  BY <1>1, <1>2 DEF BoardExact

(* The boards a refresh reconstructs are exact: a task for every           *)
(* TaskCreate, the status set last in time, the owner named last or else   *)
(* the first teammate, the members all there once.                         *)
THEOREM BoardsAreExact == Spec => []BoardExact
<1>1. IInv => BoardExact
  BY ShowsBoards
<1> QED  BY <1>1, Invariant, PTL

----------------------------------------------------------------------------
(* The times that are shown. *)

(* No update is of a time to come, and no task shows one.                   *)
TimesInv ==
    /\ \A i \in DOMAIN lead : lead[i].op = "update" => lead[i].up.at <= now
    /\ \A k \in DOMAIN files : \A n \in DOMAIN files[k].updates : files[k].updates[n].at <= now

Stated(teams, time, count) ==
    \A t \in DOMAIN teams : \A task \in Range(teams[t].tasks) :
        task.status \in (0 .. time) \X (0 .. count)

(* TimesInv is inductive.                                                  *)
LEMMA InitTimes == Init => TimesInv /\ Stated(boards, now, Len(files))
<1> SUFFICES ASSUME Init PROVE TimesInv /\ Stated(boards, now, Len(files))
  OBVIOUS
<1>1. PICK s \in Start : lead = s.lead /\ files = s.files /\ now = 0 /\ boards = <<>>
  BY DEF Init
<1>2. \A i \in DOMAIN lead : lead[i].op = "update" => lead[i].up.at = 0
  BY <1>1, StartAssumption
<1>3. \A k \in DOMAIN files : \A n \in DOMAIN files[k].updates : files[k].updates[n].at = 0
  BY <1>1, StartAssumption
<1>4. TimesInv
  BY <1>1, <1>2, <1>3 DEF TimesInv
<1>5. Stated(boards, now, Len(files))
  BY <1>1 DEF Stated
<1> QED  BY <1>4, <1>5

(* Time goes on, and transcripts become more.                               *)
LEMMA StatedLater ==
    ASSUME NEW teams, NEW n \in Nat, NEW m \in Nat, NEW c \in Nat, NEW d \in Nat,
           n <= m, c <= d, Stated(teams, n, c)
    PROVE  Stated(teams, m, d)
<1>1. 0 .. n \subseteq 0 .. m /\ 0 .. c \subseteq 0 .. d
  OBVIOUS
<1> QED  BY <1>1 DEF Stated

(* A call more, of no time to come.                                         *)
LEMMA CallTimes ==
    ASSUME IInv, TimesInv, NEW e \in LeadCall, lead' = Append(lead, e),
           e.op = "update" => e.up.at <= now', now' \in Nat, now <= now', UNCHANGED files
    PROVE  TimesInv'
<1>1. /\ lead \in Seq(LeadCall) /\ Len(lead) \in Nat /\ DOMAIN lead = 1 .. Len(lead)
      /\ \A i \in 1 .. Len(lead) : lead[i] \in LeadCall
  BY LeadIs
<1>2. /\ DOMAIN lead' = 1 .. Len(lead) + 1 /\ lead'[Len(lead) + 1] = e
      /\ \A i \in 1 .. Len(lead) : lead'[i] = lead[i]
  BY <1>1, AppendProperties, LenProperties
<1>3. \A i \in 1 .. Len(lead) + 1 : i = Len(lead) + 1 \/ i \in 1 .. Len(lead)
  BY <1>1
<1>4. \A i \in 1 .. Len(lead) : lead[i].op = "update" => lead[i].up.at \in Nat
  BY <1>1, CallIs DEF TaskUpdate
<1>5. \A k \in DOMAIN files : \A n \in DOMAIN files[k].updates : files[k].updates[n].at \in Nat
  <2>1. \A k \in DOMAIN files : files[k] \in Transcript
    BY LenProperties, ElementOfSeq DEF IInv, FilesInv
  <2>2. \A k \in DOMAIN files : files[k].updates \in Seq(TaskUpdate)
    BY <2>1 DEF Transcript
  <2>3. \A k \in DOMAIN files : \A n \in DOMAIN files[k].updates :
           files[k].updates[n] \in TaskUpdate
    BY <2>2, LenProperties, ElementOfSeq
  <2> QED  BY <2>3 DEF TaskUpdate
<1>6. now \in Nat
  BY DEF IInv, LeadInv
<1>7. \A i \in 1 .. Len(lead) : lead[i].op = "update" => lead[i].up.at <= now'
  BY <1>1, <1>4, <1>6 DEF TimesInv
<1>8. \A i \in DOMAIN lead' : lead'[i].op = "update" => lead'[i].up.at <= now'
  BY <1>2, <1>3, <1>7
<1>9. \A k \in DOMAIN files : \A n \in DOMAIN files[k].updates : files[k].updates[n].at <= now'
  BY <1>5, <1>6 DEF TimesInv
<1> QED  BY <1>8, <1>9 DEF TimesInv

(* A transcript more without updates, or another with one of this time.     *)
LEMMA FileTimes ==
    ASSUME IInv, TimesInv, now' \in Nat, now <= now', UNCHANGED lead,
           \A k \in DOMAIN files' :
              \A n \in DOMAIN files'[k].updates :
                 \/ files'[k].updates[n].at = now'
                 \/ /\ k \in DOMAIN files /\ n \in DOMAIN files[k].updates
                    /\ files'[k].updates[n] = files[k].updates[n]
    PROVE  TimesInv'
<1>1. now \in Nat
  BY DEF IInv, LeadInv
<1>2. \A k \in DOMAIN files : \A n \in DOMAIN files[k].updates : files[k].updates[n].at \in Nat
  <2>1. \A k \in DOMAIN files : files[k] \in Transcript
    BY LenProperties, ElementOfSeq DEF IInv, FilesInv
  <2>2. \A k \in DOMAIN files : files[k].updates \in Seq(TaskUpdate)
    BY <2>1 DEF Transcript
  <2>3. \A k \in DOMAIN files : \A n \in DOMAIN files[k].updates :
           files[k].updates[n] \in TaskUpdate
    BY <2>2, LenProperties, ElementOfSeq
  <2> QED  BY <2>3 DEF TaskUpdate
<1>3. \A i \in DOMAIN lead : lead[i].op = "update" => lead[i].up.at \in Nat
  BY LeadIs, CallIs DEF TaskUpdate
<1>4. \A k \in DOMAIN files : \A n \in DOMAIN files[k].updates : files[k].updates[n].at <= now'
  BY <1>1, <1>2 DEF TimesInv
<1>5. \A i \in DOMAIN lead : lead[i].op = "update" => lead[i].up.at <= now'
  BY <1>1, <1>3 DEF TimesInv
<1>6. now' <= now'
  OBVIOUS
<1>7. \A k \in DOMAIN files' : \A n \in DOMAIN files'[k].updates :
         files'[k].updates[n].at <= now'
  BY <1>4, <1>6
<1> QED  BY <1>5, <1>7 DEF TimesInv

LEMMA NextTimes == IInv /\ TimesInv /\ [Next]_vars => TimesInv'
<1> SUFFICES ASSUME IInv, TimesInv, [Next]_vars PROVE TimesInv'
  OBVIOUS
<1>0. now \in Nat /\ Len(lead) \in Nat /\ now <= now
  BY LeadIs DEF IInv, LeadInv
<1>1. ASSUME NEW s \in Spawn, SpawnCall(s) PROVE TimesInv'
  <2>1. PICK e : e = [op |-> "spawn", at |-> Len(lead) + 1,
                      name |-> s.name, team |-> s.team, desc |-> s.desc]
    OBVIOUS
  <2>2. e \in LeadCall /\ e.op = "spawn"
    BY <1>0, <2>1, SpawnKinds DEF LeadCall
  <2>3. lead' = Append(lead, e) /\ UNCHANGED <<files, now>>
    BY <1>1, <2>1 DEF SpawnCall, Call
  <2> QED  BY <1>0, <2>2, <2>3, CallTimes
<1>2. ASSUME NEW e \in LeadCall, e.op # "update", TeamOp(e) PROVE TimesInv'
  BY <1>0, <1>2, CallTimes DEF TeamOp, Call
<1>3. ASSUME NEW t \in {s.team : s \in Spawn} \ {None}, TeamCreate(t) PROVE TimesInv'
  BY <1>2, <1>3 DEF TeamCreate, LeadCall, Team
<1>4. ASSUME TaskCreate PROVE TimesInv'
  BY <1>2, <1>4 DEF TaskCreate, LeadCall
<1>5. ASSUME TeamDelete PROVE TimesInv'
  BY <1>2, <1>5 DEF TeamDelete, LeadCall
<1>6. ASSUME NEW up \in Update, Stamped(up)
      PROVE  now' \in Nat /\ now <= now' /\ up.at = now'
  BY <1>0, <1>6 DEF Stamped
<1>7. ASSUME NEW up \in Update, LeadUpdate(up) PROVE TimesInv'
  <2>1. PICK e : e = [op |-> "update", up |-> up]
    OBVIOUS
  <2>2. e \in LeadCall /\ e.up = up
    BY <2>1, UpdateIs DEF LeadCall
  <2>3. /\ lead' = Append(lead, e) /\ UNCHANGED files
        /\ now' \in Nat /\ now <= now' /\ up.at = now' /\ up.at <= now'
    BY <1>6, <1>7, <2>1 DEF LeadUpdate, Call
  <2> QED  BY <2>2, <2>3, CallTimes
<1>8. /\ files \in Seq(Transcript) /\ Len(files) \in Nat /\ DOMAIN files = 1 .. Len(files)
      /\ \A k \in DOMAIN files : files[k] \in Transcript
  BY LenProperties, ElementOfSeq DEF IInv, FilesInv
<1>9. ASSUME NEW k \in DOMAIN files, NEW up \in Update, WorkerUpdate(k, up) PROVE TimesInv'
  <2>1. PICK f, q : f = [files[k] EXCEPT !.updates = Append(@, up)] /\ q = files[k].updates
    OBVIOUS
  <2>2. /\ files' = [files EXCEPT ![k] = f] /\ UNCHANGED lead
        /\ now' \in Nat /\ now <= now' /\ up.at = now'
    BY <1>6, <1>9, <2>1 DEF WorkerUpdate
  <2>3. q \in Seq(TaskUpdate) /\ up \in TaskUpdate /\ f.updates = Append(q, up)
    BY <1>8, <2>1, UpdateIs DEF Transcript
  <2>4. /\ DOMAIN q = 1 .. Len(q) /\ DOMAIN f.updates = 1 .. Len(q) + 1
        /\ f.updates[Len(q) + 1] = up /\ \A n \in 1 .. Len(q) : f.updates[n] = q[n]
    BY <2>3, AppendProperties, LenProperties
  <2>5. \A n \in DOMAIN f.updates : n = Len(q) + 1 \/ n \in 1 .. Len(q)
    BY <2>3, <2>4, LenProperties
  <2>6. \A l \in DOMAIN files' : l \in DOMAIN files /\ files'[l] = IF l = k THEN f ELSE files[l]
    BY <2>2
  <2>7. \A n \in DOMAIN f.updates : \/ f.updates[n].at = now'
                                    \/ n \in DOMAIN q /\ f.updates[n] = q[n]
    BY <2>2, <2>4, <2>5
  <2> QED  BY <2>1, <2>2, <2>6, <2>7, FileTimes
<1>10. ASSUME NEW k \in DOMAIN files, WriteSidecar(k) PROVE TimesInv'
  <2>1. PICK f : f = [files[k] EXCEPT !.sidecar = TRUE]
    OBVIOUS
  <2>2. files' = [files EXCEPT ![k] = f] /\ UNCHANGED <<lead, now>>
    BY <1>10, <2>1 DEF WriteSidecar
  <2>3. f.updates = files[k].updates
    BY <1>8, <2>1 DEF Transcript
  <2>4. \A l \in DOMAIN files' : l \in DOMAIN files /\ files'[l].updates = files[l].updates
    BY <2>2, <2>3
  <2> QED  BY <1>0, <2>2, <2>4, FileTimes
<1>11. ASSUME NEW c \in SpawnCalls(Len(lead)), NEW dir \in {"subagents", "project"},
              NEW s \in {None, c.desc}, StartTranscript(c, dir, s)
       PROVE  TimesInv'
  <2>1. IInv'
    BY <1>11, StartKeeps
  <2> DEFINE none == <<>>
  <2> HIDE DEF none
  <2>2. PICK f : f = [of |-> c.at, dir |-> dir, sidecar |-> FALSE, summary |-> s,
                      member |-> Member(c.name, c.team), near |-> TRUE, updates |-> none]
    OBVIOUS
  <2>3. files' = Append(files, f) /\ UNCHANGED <<lead, now>>
    BY <1>11, <2>2 DEF StartTranscript, none
  <2>4. f \in Transcript
    <3>1. /\ files' \in Seq(Transcript) /\ Len(files') = Len(files) + 1
          /\ files'[Len(files) + 1] = f
      BY <1>8, <2>1, <2>3 DEF IInv, FilesInv
    <3> QED  BY <1>8, <3>1, ElementOfSeq
  <2>5. /\ DOMAIN files' = 1 .. Len(files) + 1 /\ files'[Len(files) + 1] = f
        /\ \A k \in 1 .. Len(files) : files'[k] = files[k]
    BY <1>8, <2>3, <2>4, AppendProperties, LenProperties
  <2>6. \A k \in DOMAIN files' : k = Len(files) + 1 \/ k \in DOMAIN files
    BY <1>8, <2>5
  <2>7. DOMAIN f.updates = {}
    <3>1. f.updates = none
      BY <2>2
    <3> QED  BY <3>1 DEF none
  <2>8. ASSUME NEW k \in DOMAIN files', NEW n \in DOMAIN files'[k].updates
        PROVE  /\ k \in DOMAIN files /\ n \in DOMAIN files[k].updates
               /\ files'[k].updates[n] = files[k].updates[n]
    BY <1>8, <2>5, <2>6, <2>7
  <2> QED  BY <1>0, <2>3, <2>8, FileTimes
<1>12. ASSUME UNCHANGED <<lead, files, now>> PROVE TimesInv'
  BY <1>12 DEF TimesInv
<1>13. ASSUME NEW c \in SpawnCalls(Len(lead)), ToolResult(c) PROVE TimesInv'
  BY <1>12, <1>13 DEF ToolResult
<1>14. ASSUME ReadChunks \/ Link \/ UNCHANGED vars PROVE TimesInv'
  BY <1>12, <1>14 DEF ReadChunks, Link, vars, written
<1> QED
  BY <1>1, <1>3, <1>4, <1>5, <1>7, <1>9, <1>10, <1>11, <1>13, <1>14 DEF Next

(* The update at a place is of no time to come, and of a transcript there. *)
LEMMA UpdateTimes ==
    ASSUME IInv, Reading, TimesInv, NEW x \in AllSites
    PROVE  UpdateAt(x).up.at <= now /\ UpdateAt(x).by \in 0 .. Len(files)
<1>1. CASE x \in LeadSites(view)
  <2>1. PICK i \in 1 .. view : x = <<0, i>> /\ lead[i].op = "update"
    BY <1>1 DEF LeadSites
  <2>2. i \in DOMAIN lead
    BY CallsAre, LeadIs
  <2>3. UpdateAt(x).up = lead[i].up /\ UpdateAt(x).by = 0
    BY <2>1 DEF UpdateAt, LeadsUpdate
  <2>4. 0 \in 0 .. Len(files)
    BY AgentsAre
  <2> QED  BY <2>1, <2>2, <2>3, <2>4 DEF TimesInv
<1>2. CASE \E j \in 1 .. Len(Agents) : x \in ToldBy(j)
  <2>1. PICK j \in 1 .. Len(Agents) : x \in ToldBy(j)
    BY <1>2
  <2>2. PICK n \in DOMAIN Agents[j].updates : x = <<j, n>>
    BY <2>1 DEF ToldBy
  <2>3. PICK p : p = Agents[j]
    OBVIOUS
  <2>4. /\ p.file \in 1 .. Len(files) /\ p.updates = files[p.file].updates /\ j # 0
        /\ Len(files) \in Nat
    BY <2>3, AgentsAre
  <2>5. x[1] = j /\ x[2] = n
    BY <2>2
  <2>6. UpdateAt(x).up = p.updates[n] /\ UpdateAt(x).by = p.file
    BY <2>3, <2>4, <2>5 DEF UpdateAt
  <2>7. p.file \in DOMAIN files
    BY <2>4, LenProperties DEF IInv, FilesInv
  <2>8. p.updates[n].at <= now
    BY <2>2, <2>3, <2>4, <2>7 DEF TimesInv
  <2> QED  BY <2>4, <2>6, <2>8
<1> QED  BY <1>1, <1>2 DEF AllSites, Sites

(* The boards of a refresh name times and transcripts that are there.      *)
LEMMA FinalTimes ==
    ASSUME IInv, Reading, TimesInv
    PROVE  Stated(BoardsOf(view), now, Len(files))
<1>1. PICK g : Placed(Ordered, g)
  BY OrderedIs
<1>2. now \in Nat /\ Len(files) \in Nat
  BY AgentsAre DEF IInv, LeadInv
<1>3. ASSUME NEW t \in DOMAIN Begun, NEW k \in DOMAIN Begun[t].tasks
      PROVE  Final[t].tasks[k].status \in (0 .. now) \X (0 .. Len(files))
  <2>1. PICK task, N : task = Final[t].tasks[k] /\ N = Len(Ordered)
    OBVIOUS
  <2>2. StatusIs(N, t, k, task)
    <3>1. N \in 0 .. N
      BY <2>1, OrderedAtHome
    <3> QED  BY <2>1, <3>1, ReplayOk DEF Final
  <2>3. CASE task.status = Pending
    <3>1. 0 \in 0 .. now /\ 0 \in 0 .. Len(files)
      BY <1>2
    <3> QED  BY <2>1, <2>3, <3>1 DEF Pending
  <2>4. CASE \E m : /\ Top(Setters(N, t, k), m)
                    /\ task.status = <<Ordered[m].up.at, Ordered[m].by>>
    <3>1. PICK m \in 1 .. N : task.status = <<Ordered[m].up.at, Ordered[m].by>>
      BY <2>4 DEF Top, Setters
    <3>2. g[m] \in AllSites /\ Ordered[m] = UpdateAt(g[m])
      BY <1>1, <2>1 DEF Placed
    <3>3. Ordered[m].up.at \in Nat
      BY <2>1, OrderedAtHome, UpdateParts
    <3>4. Ordered[m].up.at <= now /\ Ordered[m].by \in 0 .. Len(files)
      BY <3>2, UpdateTimes
    <3>5. Ordered[m].up.at \in 0 .. now
      BY <1>2, <3>3, <3>4
    <3> QED  BY <2>1, <3>1, <3>4, <3>5
  <2> QED  BY <2>2, <2>3, <2>4 DEF StatusIs
<1>4. PICK F : F = Final
  OBVIOUS
<1>5. ASSUME NEW t \in DOMAIN F, NEW task \in Range(F[t].tasks)
      PROVE  task.status \in (0 .. now) \X (0 .. Len(files))
  <2>1. t \in DOMAIN Begun /\ DOMAIN F[t].tasks = DOMAIN Begun[t].tasks
    BY <1>4, FinalIs
  <2>2. PICK k \in DOMAIN F[t].tasks : task = F[t].tasks[k]
    BY DEF Range
  <2> QED  BY <1>3, <1>4, <2>1, <2>2
<1>6. BoardsOf(view) = F
  BY <1>4, FinalIs
<1> QED  BY <1>5, <1>6 DEF Stated

(* Between two refreshes time and transcripts only grow.                   *)
LEMMA Grows ==
    ASSUME IInv, IInv', [Next]_vars
    PROVE  Link \/ (UNCHANGED boards /\ now <= now' /\ Len(files) <= Len(files'))
<1> DEFINE P == UNCHANGED boards /\ now <= now' /\ Len(files) <= Len(files')
<1>1. /\ now \in Nat /\ Len(files) \in Nat /\ now <= now /\ Len(files) <= Len(files)
      /\ DOMAIN files = 1 .. Len(files) /\ DOMAIN files' = 1 .. Len(files')
      /\ Len(files') \in Nat
  BY LenProperties DEF IInv, LeadInv, FilesInv
<1>2. ASSUME NEW e, Call(e), now <= now' PROVE P
  BY <1>1, <1>2 DEF Call, shown
<1>3. ASSUME NEW up, Stamped(up) PROVE now <= now'
  BY <1>1, <1>3 DEF Stamped
<1>4. ASSUME NEW k \in DOMAIN files, NEW f, files' = [files EXCEPT ![k] = f]
      PROVE  Len(files) <= Len(files')
  <2>1. DOMAIN files' = DOMAIN files
    BY <1>4
  <2>2. Len(files) = 0 \/ Len(files) \in 1 .. Len(files)
    BY <1>1
  <2>3. Len(files) = 0 \/ Len(files) \in 1 .. Len(files')
    BY <1>1, <2>1, <2>2
  <2> QED  BY <1>1, <2>3
<1>5. ASSUME NEW s \in Spawn, SpawnCall(s) PROVE P
  BY <1>1, <1>2, <1>5 DEF SpawnCall
<1>6. ASSUME NEW e, TeamOp(e) PROVE P
  BY <1>1, <1>2, <1>6 DEF TeamOp
<1>7. ASSUME NEW up, LeadUpdate(up) PROVE P
  BY <1>2, <1>3, <1>7 DEF LeadUpdate
<1>8. ASSUME NEW k \in DOMAIN files, WriteSidecar(k) PROVE P
  <2>1. PICK f : f = [files[k] EXCEPT !.sidecar = TRUE]
    OBVIOUS
  <2>2. files' = [files EXCEPT ![k] = f] /\ UNCHANGED <<now, boards>>
    BY <1>8, <2>1 DEF WriteSidecar, shown
  <2> QED  BY <1>1, <1>4, <2>2
<1>9. ASSUME NEW k \in DOMAIN files, NEW up, WorkerUpdate(k, up) PROVE P
  <2>1. PICK f : f = [files[k] EXCEPT !.updates = Append(@, up)]
    OBVIOUS
  <2>2. files' = [files EXCEPT ![k] = f] /\ UNCHANGED boards /\ Stamped(up)
    BY <1>9, <2>1 DEF WorkerUpdate, shown
  <2> QED  BY <1>3, <1>4, <2>2
<1>10. ASSUME NEW c, NEW dir, NEW s, StartTranscript(c, dir, s) PROVE P
  <2>1. PICK f : files' = Append(files, f)
    BY <1>10 DEF StartTranscript
  <2>2. Len(files') = Len(files) + 1
    BY <2>1, AppendProperties DEF IInv, FilesInv
  <2>3. UNCHANGED <<now, boards>>
    BY <1>10 DEF StartTranscript, shown
  <2> QED  BY <1>1, <2>2, <2>3
<1>11. ASSUME NEW c, ToolResult(c) PROVE P
  BY <1>1, <1>11 DEF ToolResult, shown
<1>12. ASSUME ReadChunks \/ UNCHANGED vars PROVE P
  BY <1>1, <1>12 DEF ReadChunks, vars, written, shown
<1>13. ASSUME NEW t, TeamCreate(t) PROVE P
  BY <1>6, <1>13 DEF TeamCreate
<1>14. ASSUME TaskCreate \/ TeamDelete PROVE P
  BY <1>6, <1>14 DEF TaskCreate, TeamDelete
<1> HIDE DEF P
<1>15. Link \/ P
  BY <1>5, <1>7, <1>8, <1>9, <1>10, <1>11, <1>12, <1>13, <1>14 DEF Next
<1> QED  BY <1>15 DEF P

TInv == IInv /\ TimesInv /\ Stated(boards, now, Len(files))

(* TInv is inductive, and implies the types.                               *)
LEMMA NextTInv == TInv /\ [Next]_vars => TInv'
<1> SUFFICES ASSUME TInv, [Next]_vars PROVE TInv'
  OBVIOUS
<1>1. IInv /\ TimesInv /\ Stated(boards, now, Len(files)) /\ IInv' /\ TimesInv'
  BY NextIInv, NextTimes DEF TInv
<1>2. /\ now \in Nat /\ Len(files) \in Nat /\ now' \in Nat /\ Len(files') \in Nat
      /\ DOMAIN files = 1 .. Len(files) /\ files \in Seq(Transcript)
  BY <1>1, LenProperties DEF IInv, LeadInv, FilesInv
<1>3. ASSUME UNCHANGED boards, now <= now', Len(files) <= Len(files')
      PROVE  Stated(boards, now, Len(files))'
  BY <1>1, <1>2, <1>3, StatedLater
<1>4. ASSUME Link PROVE Stated(boards, now, Len(files))'
  <2>1. Reading /\ boards' = BoardsOf(view) /\ UNCHANGED <<now, files>>
    BY <1>4 DEF Link, Reading, written
  <2> QED  BY <1>1, <2>1, FinalTimes
<1>5. Link \/ (UNCHANGED boards /\ now <= now' /\ Len(files) <= Len(files'))
  BY <1>1, Grows
<1>6. ~ Link => Stated(boards, now, Len(files))'
  BY <1>3, <1>5
<1> QED  BY <1>1, <1>4, <1>6 DEF TInv

LEMMA ShowsTypes == TInv => TypeOK
<1> SUFFICES ASSUME TInv PROVE TypeOK
  OBVIOUS
<1>1. IInv /\ Stated(boards, now, Len(files))
  BY DEF TInv
<1>2. \A k \in DOMAIN files : files[k].of \in 0 .. Len(lead)
  <2>1. ASSUME NEW k \in DOMAIN files PROVE files[k].of \in 0 .. Len(lead)
    BY <1>1, LeadIs DEF IInv, FilesInv, TrueOf
  <2> QED  BY <2>1
<1>3. ASSUME Reading, NEW p \in Range(ProcsOf(view))
      PROVE  files[p.file].of # 0 /\ p.parent \in 0 .. Len(lead)
  <2>1. PICK i \in DOMAIN Agents : p = Agents[i]
    BY DEF Range, Agents
  <2>2. PICK ps : ps = Discovered /\ i \in DOMAIN ps /\ p.file = ps[i].file
    BY <1>1, <1>3, <2>1, ShownAre DEF Agents
  <2>3. PICK f : f = files[ps[i].file] /\ f.of # 0 /\ f.of \in 1 .. Len(lead)
    BY <1>1, <2>2, ProcessesAre
  <2>4. p.parent \in Ids(Calls) \/ p.parent = ps[i].parent
    BY <1>1, <1>3, <2>1, <2>2, ShownAre DEF Agents
  <2>5. Ids(Calls) \subseteq 1 .. Len(lead)
    BY <1>1, <1>3, CallsAre DEF Ids
  <2>6. ps[i].parent \in {0, f.of}
    BY <1>1, <1>3, <2>2, <2>3, SidecarWins
  <2>7. Len(lead) \in Nat
    BY <1>1, LeadIs
  <2> QED  BY <2>2, <2>3, <2>4, <2>5, <2>6, <2>7
<1> QED  BY <1>1, <1>2, <1>3 DEF TypeOK, IInv, Stated

(* What is shown are agents of this session, and a task's status is one    *)
(* that some transcript there had set by then.                             *)
THEOREM TypeCorrect == Spec => []TypeOK
<1>1. Init => TInv
  BY InitIInv, InitTimes DEF TInv
<1>2. TInv /\ [Next]_vars => TInv'
  BY NextTInv
<1>3. TInv => TypeOK
  BY ShowsTypes
<1> QED  BY <1>1, <1>2, <1>3, PTL DEF Spec

----------------------------------------------------------------------------
(* What linking makes of an agent's id. *)

(* The id is a teammate's if the parent is a teammate's call, else what it  *)
(* was.                                                                    *)
LEMMA LinkedId ==
    ASSUME NEW n, NEW p \in ProcessType(n), NEW i, NEW calls, NEW links,
           \A l \in links : l[1] = i => l = <<i, l[2]>> /\ l[2] \in Ids(calls)
    PROVE  LET x == Linked(p, i, calls, links) IN
           \/ \E c \in calls :
                 /\ c.at = x.parent
                 /\ x.id = IF IsTeamTask(c) THEN Member(c.name, c.team) ELSE p.id
                 /\ IF i \in Procs(links) THEN <<i, c.at>> \in links ELSE c.at = p.parent
           \/ i \notin Procs(links) /\ p.parent \notin Ids(calls) /\ x.id = p.id
<1> DEFINE parents == {c \in calls : IF i \in Procs(links) THEN <<i, c.at>> \in links
                                                           ELSE c.at = p.parent}
<1>1. CASE parents = {}
  <2>1. Linked(p, i, calls, links) = p
    BY <1>1 DEF Linked
  <2>2. ASSUME i \in Procs(links) PROVE FALSE
    <3>1. PICK l \in links : l[1] = i
      BY <2>2 DEF Procs
    <3>2. PICK c \in calls : c.at = l[2] /\ l = <<i, l[2]>>
      BY <3>1 DEF Ids
    <3>3. c \in parents
      BY <2>2, <3>1, <3>2
    <3> QED  BY <1>1, <3>3
  <2>3. ASSUME NEW c \in calls, c.at = p.parent PROVE FALSE
    <3>1. c \in parents
      BY <2>2, <2>3
    <3> QED  BY <1>1, <3>1
  <2> QED  BY <2>1, <2>2, <2>3 DEF Ids
<1>2. CASE parents # {}
  <2>1. PICK c : c = CHOOSE x \in parents : TRUE
    OBVIOUS
  <2>2. /\ c \in calls
        /\ IF i \in Procs(links) THEN <<i, c.at>> \in links ELSE c.at = p.parent
    BY <1>2, <2>1
  <2>3. PICK id : id = IF IsTeamTask(c) THEN Member(c.name, c.team) ELSE p.id
    OBVIOUS
  <2>4. Linked(p, i, calls, links) = [p EXCEPT !.parent = c.at, !.id = id]
    BY <1>2, <2>1, <2>3 DEF Linked
  <2>5. Linked(p, i, calls, links).parent = c.at /\ Linked(p, i, calls, links).id = id
    BY <2>4 DEF ProcessType
  <2> QED  BY <2>2, <2>3, <2>5
<1> QED  BY <1>1, <1>2

(* The same of what a refresh shows.                                       *)
LEMMA AgentIds ==
    ASSUME IInv, Reading, NEW i \in DOMAIN Discovered
    PROVE  \/ \E c \in Calls :
                 /\ Agents[i].id = IF IsTeamTask(c) THEN Member(c.name, c.team)
                                   ELSE Discovered[i].id
                 /\ IF i \in Procs(Made) THEN <<i, c.at>> \in Made
                    ELSE c.at = Discovered[i].parent
           \/ /\ i \notin Procs(Made) /\ Discovered[i].parent \notin Ids(Calls)
              /\ Agents[i].id = Discovered[i].id
<1>1. PICK p, links : p = Discovered[i] /\ links = Made
  OBVIOUS
<1>2. Agents = [k \in DOMAIN Discovered |-> Linked(Discovered[k], k, Calls, links)]
  BY <1>1 DEF Agents, ProcsOf, LinkSubagents, Discovered, Calls, Made
<1>3. p \in ProcessType(Len(files))
  BY <1>1, ProcessesAre, ElementOfSeq, LenProperties
<1>4. \A l \in links : l[1] = i => l = <<i, l[2]>> /\ l[2] \in Ids(Calls)
  BY <1>1, ShownAre
<1>5. Agents[i] = Linked(p, i, Calls, links)
  BY <1>1, <1>2
<1>6. PICK x : x = Linked(p, i, Calls, links)
  OBVIOUS
<1>7. \/ \E c \in Calls :
            /\ c.at = x.parent /\ x.id = IF IsTeamTask(c) THEN Member(c.name, c.team) ELSE p.id
            /\ IF i \in Procs(links) THEN <<i, c.at>> \in links ELSE c.at = p.parent
      \/ i \notin Procs(links) /\ p.parent \notin Ids(Calls) /\ x.id = p.id
  BY <1>3, <1>4, <1>6, LinkedId
<1> QED  BY <1>1, <1>5, <1>6, <1>7

(* Ids of plain agents and of teammates are apart.                         *)
LEMMA IdsApart ==
    /\ \A a : ~ IsMember(Hex(a))
    /\ \A a, b : IsMember(Member(a, b)) /\ Member(a, b).team = b /\ Member(a, b).name = a
    /\ \A a, b, c : Hex(a) # Member(b, c)
<1>1. \A a : DOMAIN Hex(a) = {"agent"}
  BY DEF Hex
<1>2. \A a, b : DOMAIN Member(a, b) = {"name", "team"}
  BY DEF Member
<1>3. \A a, b : Member(a, b).team = b /\ Member(a, b).name = a
  BY DEF Member
<1>4. \A a, b, c : Hex(a) # Member(b, c)
  <2> SUFFICES ASSUME NEW a, NEW b, NEW c, Hex(a) = Member(b, c) PROVE FALSE
    OBVIOUS
  <2>1. DOMAIN Hex(a) = DOMAIN Member(b, c)
    OBVIOUS
  <2> QED  BY <1>1, <1>2, <2>1
<1> QED  BY <1>1, <1>2, <1>3, <1>4 DEF IsMember

(* A result that names an id names the call that spawned its agent.        *)
LEMMA ResultIs ==
    ASSUME IInv, NEW id, NEW x, x = AgentToToolID(results, id), x # 0
    PROVE  /\ x \in 1 .. Len(lead)
           /\ id = IF IsTeamTask(lead[x]) THEN Member(lead[x].name, lead[x].team) ELSE Hex(x)
<1>1. ResultsInv
  BY DEF IInv
<1>2. PICK n \in DOMAIN results : results[n].agent = id /\ results[n].call = x
  BY <1>1, ToolIs
<1> QED  BY <1>1, <1>2 DEF ResultsInv, Names

LEMMA SpawnedIs ==
    ASSUME IInv, NEW x \in 1 .. Len(lead), lead[x].op = "spawn"
    PROVE  lead[x] \in SpawnCalls(Len(lead)) /\ lead[x].at = x
<1>1. x \in DOMAIN lead
  BY LeadIs
<1> QED  BY <1>1 DEF SpawnCalls, IInv, LeadInv

(* Transcript f tells that its agent is a teammate: as a session of the     *)
(* project, by its sidecar or by its summary.                              *)
Told(f) ==
    /\ f.of # 0 /\ IsTeamTask(lead[f.of])
    /\ f.dir = "project" \/ f.sidecar \/ f.summary # None

(* Who is shown as a teammate is one that is told, and of that team: only   *)
(* its summary can give it another's call, which is of the same team.      *)
LEMMA AgentTeam ==
    ASSUME IInv, Reading, ~ SharedBrief, NEW i \in DOMAIN Discovered, IsMember(Agents[i].id)
    PROVE  LET f == files[Agents[i].file] IN
           Told(f) /\ Agents[i].id.team = lead[f.of].team
<1>1. PICK p, f, a : p = Discovered[i] /\ f = files[p.file] /\ a = Agents[i].id
  OBVIOUS
<1>2. /\ Shows(p, f) /\ TrueOf(f, lead) /\ f.of # 0 /\ f.of \in 1 .. Len(lead)
      /\ lead[f.of].op = "spawn" /\ Agents[i].file = p.file
  BY <1>1, ProcessesAre, ShownAre DEF Agents
<1>3. p.parent = IF f.sidecar THEN f.of ELSE 0
  BY <1>1, SidecarWins
<1>4. \A c \in Calls : c.at # 0 /\ c = lead[c.at] /\ c.at \in 1 .. Len(lead) /\ c.op = "spawn"
  BY CallsAre
<1>5. lead[f.of] \in SpawnCalls(Len(lead))
  BY <1>2, SpawnedIs
<1>6. \A c \in Calls : <<i, c.at>> \in Made =>
         \/ p.parent = c.at
         \/ c.at = AgentToToolID(results, p.id)
         \/ c.desc # None /\ c.desc = p.summary
         \/ ~ IsMember(p.id) /\ ~ IsTeamTask(c)
  <2> SUFFICES ASSUME NEW c \in Calls, <<i, c.at>> \in Made
               PROVE  \/ p.parent = c.at
                      \/ c.at = AgentToToolID(results, p.id)
                      \/ c.desc # None /\ c.desc = p.summary
                      \/ ~ IsMember(p.id) /\ ~ IsTeamTask(c)
    OBVIOUS
  <2>1. PICK l : l = <<i, c.at>> /\ l[1] = i /\ l[2] = c.at
    OBVIOUS
  <2>2. \/ BySidecar(l, Discovered) \/ ByResult(l, Discovered, results)
        \/ BySummary(l, Discovered, Calls) \/ ByPosition(l, Discovered, Calls)
    BY <2>1, ShownAre
  <2>3. \A e \in Calls : e.at = c.at => e = c
    BY <1>4
  <2> QED  BY <1>1, <2>1, <2>2, <2>3 DEF BySidecar, ByResult, BySummary, ByPosition
<1>7. \/ \E c \in Calls : /\ a = IF IsTeamTask(c) THEN Member(c.name, c.team) ELSE p.id
                          /\ c.at = p.parent \/ <<i, c.at>> \in Made
      \/ a = p.id
  BY <1>1, AgentIds
<1>8. CASE f.dir = "project" /\ p.id = f.member
  <2>1. /\ f.member = Member(lead[f.of].name, lead[f.of].team) /\ IsTeamTask(lead[f.of])
        /\ ~ f.sidecar
    BY <1>2, <1>8 DEF TrueOf
  <2>2. IsMember(p.id) /\ p.id.team = lead[f.of].team /\ Told(f)
    BY <1>2, <1>8, <2>1, IdsApart DEF Told
  <2>3. p.parent = 0 /\ p.summary = None
    <3>1. f.dir # "subagents"
      BY <1>8
    <3> QED  BY <1>2, <3>1 DEF Shows
  <2>4. CASE a = p.id
    BY <1>1, <1>2, <2>2, <2>4
  <2>5. ASSUME NEW c \in Calls, a # p.id,
               a = IF IsTeamTask(c) THEN Member(c.name, c.team) ELSE p.id,
               c.at = p.parent \/ <<i, c.at>> \in Made
        PROVE  FALSE
    <3>1. c.at = AgentToToolID(results, p.id)
      BY <1>4, <1>6, <2>2, <2>3, <2>5
    <3>2. p.id = IF IsTeamTask(c) THEN Member(c.name, c.team) ELSE Hex(c.at)
      BY <1>4, <3>1, ResultIs
    <3> QED  BY <2>5, <3>2
  <2> QED  BY <1>7, <2>4, <2>5
<1>9. CASE f.dir = "subagents" /\ p.id = Hex(f.of) /\ p.summary = f.summary
  <2>1. ~ IsMember(p.id) /\ IsMember(a)
    BY <1>1, <1>9, IdsApart
  <2>2. PICK c \in Calls : /\ a = IF IsTeamTask(c) THEN Member(c.name, c.team) ELSE p.id
                           /\ c.at = p.parent \/ <<i, c.at>> \in Made
    BY <1>7, <2>1
  <2>3. IsTeamTask(c) /\ a.team = c.team
    BY <2>1, <2>2, IdsApart
  <2>4. CASE c.at = p.parent
    <3>1. f.sidecar /\ c = lead[f.of]
      BY <1>3, <1>4, <2>4
    <3> QED  BY <1>1, <1>2, <2>3, <3>1 DEF Told
  <2>5. CASE c.at = AgentToToolID(results, p.id)
    <3>1. p.id = Member(c.name, c.team)
      BY <1>4, <2>3, <2>5, ResultIs
    <3> QED  BY <2>1, <3>1, IdsApart
  <2>6. CASE c.desc # None /\ c.desc = p.summary
    <3>1. IsTeamTask(lead[f.of]) /\ f.summary = lead[f.of].desc /\ f.summary # None
      BY <1>2, <1>9, <2>6 DEF TrueOf
    <3>2. c \in SpawnCalls(Len(lead)) /\ c.desc = lead[f.of].desc
      BY <1>4, <1>9, <2>6, <3>1, SpawnedIs
    <3>3. c.team = lead[f.of].team
      BY <1>5, <2>3, <3>1, <3>2 DEF SharedBrief
    <3> QED  BY <1>1, <1>2, <2>3, <3>1, <3>3 DEF Told
  <2> QED  BY <1>6, <2>2, <2>3, <2>4, <2>5, <2>6
<1> QED  BY <1>2, <1>8, <1>9 DEF Shows

(* The sessions of the project that are looked at are found.               *)
LEMMA SessionFound ==
    ASSUME NEW trs \in Seq(Transcript), NEW calls, NEW k \in Wanted(trs, calls),
           \A l \in Wanted(trs, calls) : trs[l].member = trs[k].member => l <= k
    PROVE  \E i \in DOMAIN Discover(trs, calls) : Discover(trs, calls)[i].file = k
<1> DEFINE W == Wanted(trs, calls)
           S == {x \in W : \A l \in W : trs[l].member = trs[x].member => l <= x}
<1>1. PICK q : q = InOrder(S)
  OBVIOUS
<1>2. k \in S
  OBVIOUS
<1>3. PICK i \in DOMAIN q : q[i] = k
  <2>1. W \subseteq DOMAIN trs
    BY DEF Wanted
  <2>2. S \in SUBSET Nat /\ IsFiniteSet(S)
    BY <2>1, FilesFinite
  <2> HIDE DEF S
  <2> QED  BY <1>1, <1>2, <2>2, InOrderIs
<1>4. PICK a, b : a = DiscoverSubagents(trs) /\ b = DiscoverTeamSessions(trs, calls)
  OBVIOUS
<1>5. b = [x \in DOMAIN q |-> Proc(trs, q[x], trs[q[x]].member, 0, None)]
  BY <1>1, <1>4 DEF DiscoverTeamSessions
<1>6. i \in DOMAIN b /\ b[i].file = k
  BY <1>3, <1>5 DEF Proc
<1>7. a \in Seq(ProcessType(Len(trs))) /\ b \in Seq(ProcessType(Len(trs)))
  BY <1>4, SubagentsIs, TeamSessionsIs
<1>8. /\ DOMAIN a = 1 .. Len(a) /\ Len(a) \in Nat
      /\ DOMAIN b = 1 .. Len(b) /\ Len(b) \in Nat
  BY <1>7, LenProperties
<1>9. PICK n : n = Len(a) + i
  OBVIOUS
<1>10. n \in 1 .. Len(a) + Len(b) /\ ~ (n <= Len(a)) /\ n - Len(a) = i
  BY <1>6, <1>8, <1>9
<1>11. n \in DOMAIN (a \o b) /\ (a \o b)[n] = b[i]
  BY <1>7, <1>8, <1>10, ConcatProperties, LenProperties
<1> QED  BY <1>4, <1>6, <1>11 DEF Discover

(* The links of phases 0 and 1.                                            *)
Sure == First(Discovered, Calls)
           \cup ResultLinks(Discovered, Ids(Calls), results, First(Discovered, Calls))

LEMMA SureAre ==
    ASSUME IInv, Reading
    PROVE  /\ \A l \in Sure : /\ l[1] \in DOMAIN Discovered /\ l[1] \in Procs(Sure)
                              /\ BySidecar(l, Discovered) \/ ByResult(l, Discovered, results)
           /\ SummaryLinks(Discovered, Calls, Sure) \subseteq Made
<1>1. /\ Discovered \in Seq(ProcessType(Len(files))) /\ Len(files) \in Nat
      /\ CallsOk(Calls, view) /\ view \in Nat
  BY ProcessesAre, CallsAre
<1>2. PICK ids : ids = Ids(Calls)
  OBVIOUS
<1>3. \A l \in First(Discovered, Calls) :
         l \in (DOMAIN Discovered) \X ids /\ BySidecar(l, Discovered)
  BY <1>1, <1>2, SidecarLinksAre DEF First
<1>4. \A l \in ResultLinks(Discovered, ids, results, First(Discovered, Calls)) :
         l \in (DOMAIN Discovered) \X ids /\ ByResult(l, Discovered, results)
  BY <1>1, ResultLinksAre
<1>5. \A l \in Sure : l[1] \in Procs(Sure)
  BY DEF Procs
<1>6. Early(Discovered, Calls, results) = Sure \cup SummaryLinks(Discovered, Calls, Sure)
  BY DEF Early, Sure
<1>7. Early(Discovered, Calls, results) \subseteq Made
  BY <1>1, LinksAre DEF Made
<1>8. \A l \in Sure : /\ l \in (DOMAIN Discovered) \X ids
                      /\ BySidecar(l, Discovered) \/ ByResult(l, Discovered, results)
  BY <1>2, <1>3, <1>4 DEF Sure
<1> QED  BY <1>5, <1>6, <1>7, <1>8

(* A teammate's call that phases 0 and 1 gave away went to its own agent.  *)
LEMMA SureOwn ==
    ASSUME IInv, Reading, ~ Respawned, NEW l \in Sure, NEW x, l[2] = x,
           x \in 1 .. Len(lead), lead[x].op = "spawn", IsTeamTask(lead[x])
    PROVE  files[Discovered[l[1]].file].of = x
<1>1. PICK j, p, f : j = l[1] /\ p = Discovered[j] /\ f = files[p.file]
  OBVIOUS
<1>2. /\ j \in DOMAIN Discovered
      /\ BySidecar(l, Discovered) \/ ByResult(l, Discovered, results)
  BY <1>1, SureAre
<1>3. /\ Shows(p, f) /\ TrueOf(f, lead) /\ f.of # 0 /\ f.of \in 1 .. Len(lead)
      /\ lead[f.of].op = "spawn"
  BY <1>1, <1>2, ProcessesAre
<1>4. CASE BySidecar(l, Discovered)
  <2>1. p.parent = x /\ x # 0
    BY <1>1, <1>4 DEF BySidecar
  <2>2. p.parent = IF f.sidecar THEN f.of ELSE 0
    BY <1>1, <1>2, SidecarWins
  <2> QED  BY <1>1, <2>1, <2>2
<1>5. CASE ByResult(l, Discovered, results)
  <2>1. x = AgentToToolID(results, p.id) /\ x # 0
    BY <1>1, <1>5 DEF ByResult
  <2>2. p.id = Member(lead[x].name, lead[x].team)
    BY <2>1, ResultIs
  <2>3. f.dir = "project" /\ p.id = f.member
    BY <1>3, <2>2, IdsApart DEF Shows
  <2>4. p.id = Member(lead[f.of].name, lead[f.of].team) /\ IsTeamTask(lead[f.of])
    BY <1>3, <2>3 DEF TrueOf
  <2>5. lead[x].name = lead[f.of].name /\ lead[x].team = lead[f.of].team
    <3>1. PICK a, b, c, d : /\ a = lead[x].name /\ b = lead[x].team
                            /\ c = lead[f.of].name /\ d = lead[f.of].team
      OBVIOUS
    <3>2. Member(a, b) = Member(c, d)
      BY <2>2, <2>4, <3>1
    <3>3. a = c /\ b = d
      <4>1. Member(a, b).name = a /\ Member(c, d).name = c
        BY IdsApart
      <4>2. Member(a, b).team = b /\ Member(c, d).team = d
        BY IdsApart
      <4> QED  BY <3>2, <4>1, <4>2
    <3> QED  BY <3>1, <3>3
  <2>6. /\ lead[x] \in SpawnCalls(Len(lead)) /\ lead[x].at = x
        /\ lead[f.of] \in SpawnCalls(Len(lead)) /\ lead[f.of].at = f.of
    BY <1>3, SpawnedIs
  <2>7. lead[x] = lead[f.of]
    BY <2>4, <2>5, <2>6 DEF Respawned
  <2> QED  BY <1>1, <2>6, <2>7
<1> QED  BY <1>2, <1>4, <1>5

(* A teammate that its summary tells, whose call and those of all           *)
(* transcripts that started before it the chunks have, gets a call: of the  *)
(* calls of its description that are left at least as many as agents       *)
(* before it are still open.                                               *)
OpenFor(d) == {j \in (DOMAIN Discovered) \ Procs(Sure) : Discovered[j].summary = d}
AsksFor(d) ==
    {c.at : c \in {c \in Calls : IsTeamTask(c) /\ c.desc = d /\ c.at \notin Tools(Sure)}}

LEMMA OpenCall ==
    ASSUME IInv, Reading, ~ Respawned, NEW d \in Desc, d # None, NEW j \in OpenFor(d),
           files[Discovered[j].file].of <= view
    PROVE  files[Discovered[j].file].of \in AsksFor(d)
<1>1. PICK p, g, x : p = Discovered[j] /\ g = files[p.file] /\ x = g.of
  OBVIOUS
<1>2. j \in DOMAIN Discovered /\ j \notin Procs(Sure) /\ p.summary = d
  BY <1>1 DEF OpenFor
<1>3. /\ Shows(p, g) /\ TrueOf(g, lead) /\ x # 0 /\ x \in 1 .. Len(lead)
      /\ lead[x].op = "spawn"
  BY <1>1, <1>2, ProcessesAre
<1>4. g.summary = d
  BY <1>2, <1>3 DEF Shows
<1>5. IsTeamTask(lead[x]) /\ lead[x].desc = d
  BY <1>1, <1>3, <1>4 DEF TrueOf
<1>6. lead[x] \in Calls /\ lead[x].at = x
  <2>1. x \in 1 .. view
    BY <1>1, <1>3, CallsAre
  <2> QED  BY <1>3, <2>1, SpawnedIs DEF Calls, SpawnCalls
<1>7. x \notin Tools(Sure)
  <2> SUFFICES ASSUME x \in Tools(Sure) PROVE FALSE
    OBVIOUS
  <2>1. PICK l \in Sure : l[2] = x
    BY DEF Tools
  <2>2. files[Discovered[l[1]].file].of = x /\ l[1] \in DOMAIN Discovered
    BY <1>3, <1>5, <2>1, SureOwn, SureAre
  <2>3. l[1] = j
    BY <1>1, <1>2, <2>2, ProcessesAre
  <2> QED  BY <1>2, <2>1, <2>3, SureAre
<1> QED  BY <1>1, <1>5, <1>6, <1>7 DEF AsksFor

LEMMA OpenLinked ==
    ASSUME IInv, Reading, ~ Respawned, NEW d \in Desc, d # None, NEW i \in OpenFor(d),
           \A l \in 1 .. Discovered[i].file : files[l].of <= view
    PROVE  \E c \in Calls : IsTeamTask(c) /\ <<i, c.at>> \in Made
<1> DEFINE B == {j \in OpenFor(d) : j <= i}
<1>1. /\ DOMAIN Discovered = 1 .. Len(Discovered) /\ Len(Discovered) \in Nat
      /\ view \in Nat /\ i \in DOMAIN Discovered /\ i \in Nat
  BY ProcessesAre, CallsAre, LenProperties DEF OpenFor
<1>2. OpenFor(d) \in SUBSET Nat /\ IsFiniteSet(OpenFor(d))
  <2>1. OpenFor(d) \in SUBSET (1 .. Len(Discovered))
    BY <1>1 DEF OpenFor
  <2> QED  BY <1>1, <2>1, PlacesFinite
<1>3. AsksFor(d) \in SUBSET Nat /\ IsFiniteSet(AsksFor(d))
  <2>1. AsksFor(d) \in SUBSET (1 .. view)
    BY CallsAre DEF AsksFor
  <2> QED  BY <1>1, <2>1, PlacesFinite
<1>4. ASSUME NEW j \in B PROVE files[Discovered[j].file].of \in AsksFor(d)
  <2>1. j \in OpenFor(d) /\ j \in DOMAIN Discovered
    BY DEF OpenFor
  <2>2. \A k \in {i, j} : files[Discovered[k].file].dir = "subagents"
    <3> SUFFICES ASSUME NEW k \in OpenFor(d)
                 PROVE  files[Discovered[k].file].dir = "subagents"
      OBVIOUS
    <3>1. k \in DOMAIN Discovered /\ Discovered[k].summary = d
      BY DEF OpenFor
    <3> QED  BY <3>1, ProcessesAre DEF Shows
  <2>3. j = i \/ j < i
    BY <1>1, <2>1
  <2>4. Discovered[j].file = Discovered[i].file \/ Discovered[j].file < Discovered[i].file
    BY <1>1, <2>1, <2>2, <2>3, ProcessesAre DEF AllThere
  <2>5. /\ Discovered[j].file \in DOMAIN files /\ Discovered[i].file \in DOMAIN files
        /\ DOMAIN files = 1 .. Len(files) /\ Len(files) \in Nat
    BY <1>1, <2>1, ProcessesAre, LenProperties DEF IInv, FilesInv
  <2>6. Discovered[j].file \in 1 .. Discovered[i].file
    BY <2>4, <2>5
  <2> QED  BY <2>1, <2>6, OpenCall
<1> DEFINE h == [j \in B |-> files[Discovered[j].file].of]
<1>5. h \in Injection(B, AsksFor(d))
  <2>1. h \in [B -> AsksFor(d)]
    BY <1>4
  <2>2. \A j, k \in B : h[j] = h[k] => j = k
    <3>1. B \subseteq DOMAIN Discovered
      BY DEF OpenFor
    <3> QED  BY <3>1, ProcessesAre
  <2> QED  BY <2>1, <2>2 DEF Injection, IsInjective
<1>6. Cardinality(B) <= Cardinality(AsksFor(d))
  BY <1>3, <1>5, FS_Injection
<1>7. Rank(OpenFor(d), i) = Cardinality(B)
  BY DEF Rank
<1>8. PICK x \in AsksFor(d) : Rank(AsksFor(d), x) = Rank(OpenFor(d), i)
  <2>1. Rank(OpenFor(d), i) \in 1 .. Cardinality(OpenFor(d))
    BY <1>2, RankIs
  <2>2. /\ Cardinality(AsksFor(d)) \in Nat /\ Cardinality(OpenFor(d)) \in Nat
    BY <1>2, <1>3, FS_CardinalityType
  <2>3. Rank(OpenFor(d), i) \in 1 .. Cardinality(AsksFor(d))
    BY <1>6, <1>7, <2>1, <2>2
  <2> QED  BY <1>3, <2>3, RankOnto
<1>9. <<i, x>> \in Pairs(OpenFor(d), AsksFor(d))
  BY <1>8 DEF Pairs
<1>10. PICK c \in Calls : IsTeamTask(c) /\ c.desc = d /\ c.at = x
  BY DEF AsksFor
<1>11. <<i, x>> \in SummaryLinks(Discovered, Calls, Sure)
  <2>1. d \in {e.desc : e \in Calls} \ {None}
    BY <1>10
  <2>2. SummaryLinks(Discovered, Calls, Sure) =
           UNION {Pairs(OpenFor(e), AsksFor(e)) : e \in {e.desc : e \in Calls} \ {None}}
    BY DEF SummaryLinks, OpenFor, AsksFor
  <2> QED  BY <1>9, <2>1, <2>2
<1> QED  BY <1>10, <1>11, SureAre

(* A teammate's session of the project is looked at: no other is its.       *)
LEMMA SessionShown ==
    ASSUME IInv, Reading, ~ Respawned, NEW k \in DOMAIN files, Told(files[k]),
           files[k].dir = "project", files[k].of <= view
    PROVE  \E i \in DOMAIN Discovered : Discovered[i].file = k
<1>1. PICK f, x : f = files[k] /\ x = f.of
  OBVIOUS
<1>2. /\ f.of # 0 /\ TrueOf(f, lead) /\ IsTeamTask(lead[x]) /\ files \in Seq(Transcript)
      /\ DOMAIN files = 1 .. Len(files) /\ Len(files) \in Nat
  BY <1>1, LenProperties DEF IInv, FilesInv, Told
<1>3. /\ x \in 1 .. Len(lead) /\ lead[x].op = "spawn" /\ f.near
      /\ f.member = Member(lead[x].name, lead[x].team)
  BY <1>1, <1>2 DEF TrueOf
<1>4. lead[x] \in Calls
  <2>1. x \in 1 .. view
    BY <1>1, <1>3, CallsAre
  <2> QED  BY <1>3, <2>1 DEF Calls, SpawnCalls
<1>5. k \in Wanted(files, Calls)
  BY <1>1, <1>2, <1>3, <1>4 DEF Wanted
<1>6. ASSUME NEW l \in Wanted(files, Calls), files[l].member = f.member PROVE l = k
  <2>1. PICK g, y : g = files[l] /\ y = g.of
    OBVIOUS
  <2>2. l \in DOMAIN files /\ g.dir = "project" /\ g.near /\ TrueOf(g, lead)
    BY <2>1 DEF Wanted, IInv, FilesInv
  <2>3. g.of # 0
    BY <2>2 DEF TrueOf
  <2>4. /\ y \in 1 .. Len(lead) /\ lead[y].op = "spawn" /\ IsTeamTask(lead[y])
        /\ g.member = Member(lead[y].name, lead[y].team)
    BY <2>1, <2>2, <2>3 DEF TrueOf
  <2>5. lead[x].name = lead[y].name /\ lead[x].team = lead[y].team
    <3>1. PICK a, b, c, d : /\ a = lead[x].name /\ b = lead[x].team
                            /\ c = lead[y].name /\ d = lead[y].team
      OBVIOUS
    <3>2. Member(a, b) = Member(c, d)
      BY <1>3, <1>6, <2>1, <2>4, <3>1
    <3>3. a = c /\ b = d
      <4>1. Member(a, b).name = a /\ Member(c, d).name = c
        BY IdsApart
      <4>2. Member(a, b).team = b /\ Member(c, d).team = d
        BY IdsApart
      <4> QED  BY <3>2, <4>1, <4>2
    <3> QED  BY <3>1, <3>3
  <2>6. /\ lead[x] \in SpawnCalls(Len(lead)) /\ lead[x].at = x
        /\ lead[y] \in SpawnCalls(Len(lead)) /\ lead[y].at = y
    BY <1>3, <2>4, SpawnedIs
  <2>7. lead[x] = lead[y]
    BY <2>4, <2>5, <2>6 DEF Respawned
  <2>8. x = y
    BY <2>6, <2>7
  <2> QED  BY <1>1, <1>2, <2>1, <2>2, <2>8 DEF IInv, FilesInv, OneEach
<1>7. \A l \in Wanted(files, Calls) : files[l].member = files[k].member => l <= k
  <2>1. k <= k
    BY <1>2
  <2> QED  BY <1>1, <1>6, <2>1
<1> QED  BY <1>2, <1>5, <1>7, SessionFound DEF Discovered

(* A teammate that is told is shown as one, of its team, when the chunks   *)
(* have its call and those of all transcripts that started before its.     *)
LEMMA ToldShown ==
    ASSUME IInv, Reading, ~ Respawned, ~ SharedBrief, NEW k \in DOMAIN files, Told(files[k]),
           \A l \in 1 .. k : files[l].of <= view
    PROVE  \E j \in DOMAIN Agents : /\ Agents[j].file = k /\ IsMember(Agents[j].id)
                                    /\ Agents[j].id.team = lead[files[k].of].team
<1>1. PICK f, x : f = files[k] /\ x = f.of
  OBVIOUS
<1>2. /\ x # 0 /\ TrueOf(f, lead) /\ IsTeamTask(lead[x]) /\ f \in Transcript
      /\ f.dir = "project" \/ f.sidecar \/ f.summary # None
      /\ DOMAIN files = 1 .. Len(files) /\ Len(files) \in Nat
  BY <1>1, LenProperties, ElementOfSeq DEF IInv, FilesInv, Told
<1>3. f.of <= view /\ f.of # 0
  <2>1. k \in 1 .. k
    BY <1>2
  <2> QED  BY <1>1, <1>2, <2>1
<1>4. x \in Ids(Calls)
  <2>1. x \in 1 .. Len(lead) /\ lead[x].op = "spawn"
    BY <1>1, <1>2 DEF TrueOf
  <2>2. x \in 1 .. view
    BY <1>1, <1>3, <2>1, CallsAre
  <2> QED  BY <2>1, <2>2, CallsAre
<1>5. \A i \in DOMAIN Discovered : i \in DOMAIN Agents /\ Agents[i].file = Discovered[i].file
  BY ShownAre DEF Agents
<1>6. ASSUME NEW i \in DOMAIN Discovered, Discovered[i].file = k, IsMember(Agents[i].id)
      PROVE  \E j \in DOMAIN Agents : /\ Agents[j].file = k /\ IsMember(Agents[j].id)
                                      /\ Agents[j].id.team = lead[files[k].of].team
  BY <1>5, <1>6, AgentTeam
<1>7. ASSUME NEW i \in DOMAIN Discovered, NEW c \in Calls, IsTeamTask(c), <<i, c.at>> \in Made
      PROVE  IsMember(Agents[i].id)
  <2>1. PICK l \in Made : l = <<i, c.at>> /\ l[1] = i /\ l[2] = c.at
    BY <1>7
  <2>2. i \in Procs(Made)
    BY <2>1 DEF Procs
  <2>3. PICK e \in Calls : /\ Agents[i].id = IF IsTeamTask(e) THEN Member(e.name, e.team)
                                             ELSE Discovered[i].id
                           /\ <<i, e.at>> \in Made
    BY <2>2, AgentIds
  <2>4. e.at = c.at
    <3>1. PICK m \in Made : m = <<i, e.at>> /\ m[1] = i /\ m[2] = e.at
      BY <2>3
    <3>2. l = m
      BY <2>1, <3>1, ShownAre DEF OneToOne
    <3> QED  BY <2>1, <3>1, <3>2
  <2>5. e = c
    BY <2>4, CallsAre
  <2> QED  BY <1>7, <2>3, <2>5, IdsApart
<1>8. CASE f.dir = "project"
  <2>1. PICK i \in DOMAIN Discovered : Discovered[i].file = k
    BY <1>1, <1>3, <1>8, SessionShown
  <2>2. IsMember(Discovered[i].id)
    <3>1. Discovered[i].id = f.member
      BY <1>1, <1>8, <2>1, ProcessesAre DEF Shows
    <3>2. f.member = Member(lead[x].name, lead[x].team)
      BY <1>1, <1>2 DEF TrueOf
    <3> QED  BY <3>1, <3>2, IdsApart
  <2>3. IsMember(Agents[i].id)
    <3>1. \/ Agents[i].id = Discovered[i].id
          \/ \E c \in Calls : Agents[i].id = Member(c.name, c.team)
      BY <2>1, AgentIds
    <3> QED  BY <2>2, <3>1, IdsApart
  <2> QED  BY <1>6, <2>1, <2>3
<1>9. CASE f.dir = "subagents"
  <2>1. PICK i \in DOMAIN Discovered : Discovered[i].file = k
    BY <1>1, <1>9, ProcessesAre DEF AllThere
  <2>2. CASE f.sidecar
    <3>1. <<i, x>> \in Made
      <4>1. <<i, f.of>> \in First(Discovered, Calls)
        BY <1>1, <1>4, <2>1, <2>2, SidecarWins
      <4> QED  BY <1>1, <4>1, ShownAre
    <3>2. PICK c \in Calls : c.at = x
      BY <1>4 DEF Ids
    <3>3. c = lead[x]
      BY <3>2, CallsAre
    <3> QED  BY <1>2, <1>6, <1>7, <2>1, <3>1, <3>2, <3>3
  <2>3. CASE ~ f.sidecar
    <3>1. PICK p, d : p = Discovered[i] /\ d = f.summary
      OBVIOUS
    <3>2. /\ p.id = Hex(f.of) /\ p.parent = 0 /\ p.summary = d
          /\ d # None /\ d \in Desc
      BY <1>1, <1>2, <1>9, <2>1, <2>3, <3>1, ProcessesAre DEF Shows, Transcript
    <3>3. i \notin Procs(Sure)
      <4> SUFFICES ASSUME i \in Procs(Sure) PROVE FALSE
        OBVIOUS
      <4>1. PICK l \in Sure : l[1] = i
        BY DEF Procs
      <4>2. l[2] \in Ids(Calls) /\ l[2] # 0
        BY <4>1, ShownAre, CallsAre DEF Sure
      <4>3. l[2] = AgentToToolID(results, p.id)
        BY <3>1, <3>2, <4>1, <4>2, SureAre DEF BySidecar, ByResult
      <4>4. IsTeamTask(lead[l[2]]) <=> IsTeamTask(lead[f.of])
        BY <1>1, <2>1, <3>1, <4>2, <4>3, ResultsSay
      <4>5. p.id = Member(lead[l[2]].name, lead[l[2]].team)
        BY <1>1, <1>2, <4>2, <4>3, <4>4, ResultIs
      <4>6. \A b, c : Hex(f.of) # Member(b, c)
        BY IdsApart
      <4> QED  BY <3>2, <4>5, <4>6
    <3>4. i \in OpenFor(d)
      BY <3>1, <3>2, <3>3 DEF OpenFor
    <3>5. PICK c \in Calls : IsTeamTask(c) /\ <<i, c.at>> \in Made
      BY <2>1, <3>2, <3>4, OpenLinked
    <3> QED  BY <1>6, <1>7, <2>1, <3>5
  <2> QED  BY <2>2, <2>3
<1> QED  BY <1>2, <1>8, <1>9 DEF Transcript

----------------------------------------------------------------------------
(* What stands behind a status that is shown. *)

(* The first team of a name stays the first, and tasks become more.        *)
LEMMA FirstTeamStays ==
    ASSUME NEW m \in Nat, NEW n \in Nat, m <= n, NEW name, FirstTeam(name, m) # 0
    PROVE  FirstTeam(name, n) = FirstTeam(name, m)
<1> DEFINE A == {j \in Creates(m) : lead[j].team = name}
           B == {j \in Creates(n) : lead[j].team = name}
<1>1. /\ FirstTeam(name, m) = IF A = {} THEN 0 ELSE Cardinality(Creates(Min(A)))
      /\ FirstTeam(name, n) = IF B = {} THEN 0 ELSE Cardinality(Creates(Min(B)))
  BY DEF FirstTeam
<1>2. A # {} /\ A \subseteq B /\ A \in SUBSET Nat /\ B \in SUBSET Nat
  BY <1>1, CreatesGrow, CreatesAre
<1>3. \A j \in B : j \in Nat /\ (j <= m => j \in A)
  BY DEF Creates
<1>4. \A j \in A : j <= m
  BY DEF Creates
<1> HIDE DEF A, B
<1>5. PICK a : a = Min(A) /\ a \in A /\ \A k \in A : a <= k
  BY <1>2, LeastIs
<1>6. PICK b : b = Min(B) /\ b \in B /\ \A k \in B : b <= k
  BY <1>2, LeastIs
<1>7. a \in Nat /\ b \in Nat /\ b <= a /\ a <= m
  BY <1>2, <1>4, <1>5, <1>6
<1>8. b \in A
  BY <1>3, <1>6, <1>7
<1>9. a = b
  BY <1>5, <1>7, <1>8
<1> QED  BY <1>1, <1>2, <1>5, <1>6, <1>9

LEMMA TasksGrow ==
    ASSUME NEW m \in Nat, NEW n \in Nat, m <= n, NEW t
    PROVE  /\ Cardinality(TasksOf(m, t)) \in Nat /\ Cardinality(TasksOf(n, t)) \in Nat
           /\ Cardinality(TasksOf(m, t)) <= Cardinality(TasksOf(n, t))
<1>1. \A j \in 1 .. m : j \in 1 .. n
  OBVIOUS
<1>2. TasksOf(m, t) \subseteq TasksOf(n, t) /\ TasksOf(n, t) \in SUBSET (1 .. n)
  BY <1>1 DEF TasksOf
<1>3. IsFiniteSet(TasksOf(n, t))
  BY <1>2, PlacesFinite
<1> QED  BY <1>2, <1>3, FS_Subset, FS_CardinalityType

(* Update up sets the status of task k at that time.                       *)
Sets(up, k, at) == up.status /\ up.task = k /\ up.at = at

(* Some update of task k of team t on disk set its status at that time, and *)
(* chunks of n calls show who wrote it.                                    *)
LeadBacks(n, t, k, at) ==
    \E i \in 1 .. n : lead[i].op = "update" /\ ActiveAt(i) = t /\ Sets(lead[i].up, k, at)

FileBacks(n, t, k, at) ==
    \E f \in DOMAIN files :
        /\ Told(files[f]) /\ FirstTeam(lead[files[f].of].team, n) = t
        /\ \A l \in 1 .. f : files[l].of <= n
        /\ \E m \in DOMAIN files[f].updates : Sets(files[f].updates[m], k, at)

Backed(n, t, k, at) == at = 0 \/ LeadBacks(n, t, k, at) \/ FileBacks(n, t, k, at)

(* An update that is replayed is not overtaken by an older one.            *)
LEMMA SiteCounts ==
    ASSUME IInv, Reading, NEW t \in DOMAIN Begun, NEW k \in DOMAIN Begun[t].tasks,
           NEW x \in AllSites, NEW at, UpdateAt(x).team = t, Sets(UpdateAt(x).up, k, at)
    PROVE  Final[t].tasks[k].status[1] >= at
<1>1. PICK g : Placed(Ordered, g)
  BY OrderedIs
<1>2. PICK task, N : task = Final[t].tasks[k] /\ N = Len(Ordered) /\ N \in Nat
  BY OrderedAtHome
<1>3. StatusIs(N, t, k, task)
  <2>1. N \in 0 .. N
    BY <1>2
  <2> QED  BY <1>2, <2>1, ReplayOk DEF Final
<1>4. PICK m \in 1 .. N : g[m] = x /\ Ordered[m] = UpdateAt(x)
  BY <1>1, <1>2 DEF Placed
<1>5. m \in Setters(N, t, k) /\ Ordered[m].up.at = at
  BY <1>4 DEF Setters, Touches, Sets
<1>6. PICK l : /\ Top(Setters(N, t, k), l)
               /\ task.status = <<Ordered[l].up.at, Ordered[l].by>>
  BY <1>3, <1>5 DEF StatusIs
<1>7. l \in 1 .. N /\ m <= l
  BY <1>5, <1>6 DEF Top, Setters
<1>8. Ordered[l].up.at \in Nat /\ Ordered[m].up.at \in Nat
  BY <1>2, <1>7, OrderedAtHome, UpdateParts
<1>9. m = l \/ Ordered[m].up.at <= Ordered[l].up.at
  <2>1. m = l \/ m < l
    BY <1>7
  <2>2. m < l => Ordered[m].up.at < Ordered[l].up.at \/ Ordered[m].up.at = Ordered[l].up.at
    BY <1>1, <1>2, <1>7 DEF Placed
  <2> QED  BY <1>8, <2>1, <2>2
<1>10. task.status[1] = Ordered[l].up.at
  BY <1>6
<1> QED  BY <1>2, <1>5, <1>8, <1>9, <1>10

(* What has been shown once is shown again, or something newer.            *)
LEMMA BackedShown ==
    ASSUME IInv, Reading, ~ Respawned, ~ SharedBrief,
           NEW t \in DOMAIN Begun, NEW k \in DOMAIN Begun[t].tasks,
           NEW at, Backed(view, t, k, at)
    PROVE  Final[t].tasks[k].status[1] >= at
<1>1. t # 0 /\ view \in Nat
  BY BegunIs
<1>2. CASE at = 0
  <2>1. PICK task, N : task = Final[t].tasks[k] /\ N = Len(Ordered) /\ N \in Nat
    BY OrderedAtHome
  <2>2. StatusIs(N, t, k, task)
    <3>1. N \in 0 .. N
      BY <2>1
    <3> QED  BY <2>1, <3>1, ReplayOk DEF Final
  <2>3. CASE task.status = Pending
    BY <1>2, <2>1, <2>3 DEF Pending
  <2>4. ASSUME NEW m, Top(Setters(N, t, k), m),
               task.status = <<Ordered[m].up.at, Ordered[m].by>>
        PROVE  task.status[1] >= at
    <3>1. m \in 1 .. N
      BY <2>4 DEF Top, Setters
    <3>2. Ordered[m].up.at \in Nat
      BY <2>1, <3>1, OrderedAtHome, UpdateParts
    <3> QED  BY <1>2, <2>4, <3>2
  <2> QED  BY <2>1, <2>2, <2>3, <2>4 DEF StatusIs
<1>3. CASE LeadBacks(view, t, k, at)
  <2>1. PICK i \in 1 .. view : /\ lead[i].op = "update" /\ ActiveAt(i) = t
                               /\ Sets(lead[i].up, k, at)
    BY <1>3 DEF LeadBacks
  <2>2. PICK x : x = <<0, i>>
    OBVIOUS
  <2>3. x \in AllSites
    BY <1>1, <2>1, <2>2 DEF AllSites, Sites, LeadSites
  <2>4. UpdateAt(x).team = t /\ UpdateAt(x).up = lead[i].up
    BY <2>1, <2>2, LeadMention
  <2> QED  BY <2>1, <2>3, <2>4, SiteCounts
<1>4. CASE FileBacks(view, t, k, at)
  <2>1. PICK f \in DOMAIN files :
           /\ Told(files[f]) /\ FirstTeam(lead[files[f].of].team, view) = t
           /\ \A l \in 1 .. f : files[l].of <= view
           /\ \E m \in DOMAIN files[f].updates : Sets(files[f].updates[m], k, at)
    BY <1>4 DEF FileBacks
  <2>2. PICK m \in DOMAIN files[f].updates : Sets(files[f].updates[m], k, at)
    BY <2>1
  <2>3. PICK j \in DOMAIN Agents : /\ Agents[j].file = f /\ IsMember(Agents[j].id)
                                   /\ Agents[j].id.team = lead[files[f].of].team
    BY <2>1, ToldShown
  <2>4. PICK x : x = <<j, m>>
    OBVIOUS
  <2>5. /\ j \in 1 .. Len(Agents) /\ j # 0 /\ Agents[j].updates = files[f].updates
    BY <2>3, AgentsAre
  <2>6. Tells(j)
    BY <1>1, <2>1, <2>3 DEF Tells
  <2>7. x \in AllSites
    BY <2>2, <2>4, <2>5, <2>6 DEF AllSites, Sites, ToldBy
  <2>8. PICK p : p = Agents[j] /\ x[1] = j /\ x[2] = m
    BY <2>4
  <2>9. UpdateAt(x).team = FirstTeam(p.id.team, view) /\ UpdateAt(x).up = p.updates[m]
    BY <2>5, <2>8 DEF UpdateAt
  <2>10. UpdateAt(x).team = t /\ UpdateAt(x).up = files[f].updates[m]
    BY <2>1, <2>3, <2>5, <2>8, <2>9
  <2> QED  BY <2>2, <2>7, <2>10, SiteCounts
<1> QED  BY <1>2, <1>3, <1>4 DEF Backed

(* What a refresh shows is backed by what is on disk.                      *)
LEMMA FinalBacked ==
    ASSUME IInv, Reading, ~ SharedBrief,
           NEW t \in DOMAIN Begun, NEW k \in DOMAIN Begun[t].tasks
    PROVE  Backed(Len(lead), t, k, Final[t].tasks[k].status[1])
<1>1. PICK g : Placed(Ordered, g)
  BY OrderedIs
<1>2. PICK task, N : task = Final[t].tasks[k] /\ N = Len(Ordered) /\ N \in Nat
  BY OrderedAtHome
<1>3. StatusIs(N, t, k, task)
  <2>1. N \in 0 .. N
    BY <1>2
  <2> QED  BY <1>2, <2>1, ReplayOk DEF Final
<1>4. view \in Nat /\ view <= Len(lead) /\ Len(lead) \in Nat /\ t # 0
  BY CallsAre, BegunIs
<1>5. CASE task.status = Pending
  BY <1>2, <1>5 DEF Pending, Backed
<1>6. ASSUME NEW m, Top(Setters(N, t, k), m),
             task.status = <<Ordered[m].up.at, Ordered[m].by>>
      PROVE  Backed(Len(lead), t, k, task.status[1])
  <2>1. m \in 1 .. N /\ Touches(Ordered[m], t, k) /\ Ordered[m].up.status
    BY <1>6 DEF Top, Setters
  <2>2. PICK x : x = g[m] /\ x \in AllSites /\ Ordered[m] = UpdateAt(x)
    BY <1>1, <1>2, <2>1 DEF Placed
  <2>3. PICK at : at = task.status[1] /\ at = Ordered[m].up.at
    BY <1>6
  <2>4. UpdateAt(x).team = t /\ Sets(UpdateAt(x).up, k, at)
    BY <2>1, <2>2, <2>3 DEF Touches, Sets
  <2>5. CASE x \in LeadSites(view)
    <3>1. PICK i \in 1 .. view : x = <<0, i>> /\ lead[i].op = "update"
      BY <2>5 DEF LeadSites
    <3>2. UpdateAt(x).team = ActiveAt(i) /\ UpdateAt(x).up = lead[i].up
      BY <3>1, LeadMention
    <3>3. i \in 1 .. Len(lead)
      BY <1>4
    <3>4. LeadBacks(Len(lead), t, k, at)
      BY <2>4, <3>1, <3>2, <3>3 DEF LeadBacks
    <3> QED  BY <2>3, <3>4 DEF Backed
  <2>6. CASE \E j \in 1 .. Len(Agents) : x \in ToldBy(j)
    <3>1. PICK j \in 1 .. Len(Agents) : x \in ToldBy(j)
      BY <2>6
    <3>2. PICK n \in DOMAIN Agents[j].updates : x = <<j, n>> /\ Tells(j)
      BY <3>1 DEF ToldBy
    <3>3. PICK f : f = Agents[j].file
      OBVIOUS
    <3>4. /\ f \in 1 .. Len(files) /\ Agents[j].updates = files[f].updates /\ j # 0
          /\ j \in DOMAIN Agents /\ Len(files) \in Nat /\ f \in DOMAIN files
          /\ DOMAIN files = 1 .. Len(files)
      BY <3>3, AgentsAre, LenProperties DEF IInv, FilesInv
    <3>5. UpdateAt(x).team = FirstTeam(Agents[j].id.team, view)
          /\ UpdateAt(x).up = files[f].updates[n]
      <4>1. PICK p : p = Agents[j] /\ x[1] = j /\ x[2] = n
        BY <3>2
      <4>2. UpdateAt(x).team = FirstTeam(p.id.team, view) /\ UpdateAt(x).up = p.updates[n]
        BY <3>4, <4>1 DEF UpdateAt
      <4> QED  BY <3>4, <4>1, <4>2
    <3>6. Told(files[f]) /\ Agents[j].id.team = lead[files[f].of].team
      <4>1. j \in DOMAIN Discovered
        BY <3>4, ShownAre DEF Agents
      <4> QED  BY <3>2, <3>3, <4>1, AgentTeam DEF Tells
    <3>7. FirstTeam(lead[files[f].of].team, Len(lead)) = t
      BY <1>4, <2>4, <3>5, <3>6, FirstTeamStays
    <3>8. \A l \in 1 .. f : files[l].of <= Len(lead)
      <4> SUFFICES ASSUME NEW l \in 1 .. f PROVE files[l].of <= Len(lead)
        OBVIOUS
      <4>1. l \in DOMAIN files
        BY <3>4
      <4>2. files[l].of = 0 \/ files[l].of \in 1 .. Len(lead)
        BY <4>1 DEF IInv, FilesInv, TrueOf
      <4> QED  BY <1>4, <4>2
    <3>9. FileBacks(Len(lead), t, k, at)
      BY <2>4, <3>2, <3>4, <3>5, <3>6, <3>7, <3>8 DEF FileBacks
    <3> QED  BY <2>3, <3>9 DEF Backed
  <2> QED  BY <2>2, <2>5, <2>6 DEF AllSites, Sites
<1> QED  BY <1>2, <1>3, <1>5, <1>6 DEF StatusIs

----------------------------------------------------------------------------
(* What is written later leaves what was shown backed. *)

LEMMA LargestIs ==
    ASSUME NEW n \in Nat, NEW S \in SUBSET (1 .. n), S # {}
    PROVE  Max(S) \in S
<1>1. PICK T : T = {n - j : j \in S}
  OBVIOUS
<1>2. T \in SUBSET Nat /\ T # {}
  <2>1. \A j \in S : n - j \in Nat
    OBVIOUS
  <2> QED  BY <1>1, <2>1
<1>3. PICK m : m \in T /\ \A k \in T : m <= k
  BY <1>2, LeastIs
<1>4. PICK j \in S : m = n - j
  BY <1>1, <1>3
<1>5. \A k \in S : k <= j
  <2>1. ASSUME NEW k \in S PROVE k <= j
    <3>1. n - j <= n - k
      BY <1>1, <1>3, <1>4
    <3> QED  BY <3>1
  <2> QED  BY <2>1
<1>6. S \in SUBSET Nat
  OBVIOUS
<1>7. Max(S) = j
  BY <1>5, <1>6, GreatestIs
<1> QED  BY <1>7

(* Calls that are written stay as they are, and so do the teams and tasks  *)
(* they name.                                                              *)
LEMMA SamePrefix ==
    ASSUME NEW n \in Nat, \A i \in 1 .. n : lead'[i] = lead[i]
    PROVE  /\ Creates(n)' = Creates(n)
           /\ \A name : FirstTeam(name, n)' = FirstTeam(name, n)
           /\ \A i \in 1 .. n : ActiveAt(i)' = ActiveAt(i)
           /\ \A t : TasksOf(n, t)' = TasksOf(n, t)
<1>1. ASSUME NEW m \in 0 .. n PROVE Creates(m)' = Creates(m)
  <2>1. \A j \in 1 .. m : lead'[j] = lead[j]
    OBVIOUS
  <2> QED  BY <2>1 DEF Creates
<1>2. Creates(n)' = Creates(n)
  BY <1>1
<1>3. ASSUME NEW name PROVE FirstTeam(name, n)' = FirstTeam(name, n)
  <2>1. PICK A : A = {j \in Creates(n) : lead[j].team = name}
    OBVIOUS
  <2>2. A \in SUBSET Nat /\ A \in SUBSET (1 .. n)
    BY <2>1, CreatesAre
  <2>3. A = {j \in Creates(n)' : lead'[j].team = name}
    <3>1. \A j \in Creates(n) : lead'[j] = lead[j]
      BY CreatesAre
    <3> QED  BY <1>2, <2>1, <3>1
  <2>4. FirstTeam(name, n) = IF A = {} THEN 0 ELSE Cardinality(Creates(Min(A)))
    BY <2>1 DEF FirstTeam
  <2>5. FirstTeam(name, n)' = IF A = {} THEN 0 ELSE Cardinality(Creates(Min(A))')
    BY <2>3 DEF FirstTeam
  <2>6. A # {} => Creates(Min(A))' = Creates(Min(A))
    <3> SUFFICES ASSUME A # {} PROVE Creates(Min(A))' = Creates(Min(A))
      OBVIOUS
    <3>1. PICK a : a = Min(A) /\ a \in A
      BY <2>2, LeastIs
    <3>2. a \in 0 .. n
      BY <2>2, <3>1
    <3>3. Creates(a)' = Creates(a)
      BY <1>1, <3>2
    <3> QED  BY <3>1, <3>3
  <2> QED  BY <2>4, <2>5, <2>6
<1>4. ASSUME NEW i \in 1 .. n PROVE ActiveAt(i)' = ActiveAt(i)
  <2>1. PICK O : O = {j \in 1 .. i - 1 : lead[j].op \in {"create", "delete"}}
    OBVIOUS
  <2>2. \A j \in 1 .. i - 1 : lead'[j] = lead[j]
    OBVIOUS
  <2>3. O = {j \in 1 .. i - 1 : lead'[j].op \in {"create", "delete"}}
    BY <2>1, <2>2
  <2>4. i - 1 \in 0 .. n /\ i - 1 \in Nat
    OBVIOUS
  <2>5. O # {} => lead'[Max(O)] = lead[Max(O)]
    <3>1. O # {} => Max(O) \in O
      BY <2>1, <2>4, LargestIs
    <3> QED  BY <2>1, <2>2, <3>1
  <2>6. Creates(i - 1)' = Creates(i - 1)
    BY <1>1, <2>4
  <2>7. ActiveAt(i) = IF O = {} \/ lead[Max(O)].op = "delete" THEN 0
                      ELSE Cardinality(Creates(i - 1))
    BY <2>1 DEF ActiveAt
  <2>8. ActiveAt(i)' = IF O = {} \/ lead'[Max(O)].op = "delete" THEN 0
                       ELSE Cardinality(Creates(i - 1)')
    BY <2>3 DEF ActiveAt
  <2> QED  BY <2>5, <2>6, <2>7, <2>8
<1>5. ASSUME NEW t PROVE TasksOf(n, t)' = TasksOf(n, t)
  BY <1>4 DEF TasksOf
<1> QED  BY <1>2, <1>3, <1>4, <1>5

(* A transcript keeps its agent, its place and its summary; a sidecar and  *)
(* further updates may come.                                               *)
More(f, g) ==
    /\ g.of = f.of /\ g.dir = f.dir /\ g.summary = f.summary
    /\ f.sidecar => g.sidecar
    /\ \A m \in DOMAIN f.updates : m \in DOMAIN g.updates /\ g.updates[m] = f.updates[m]

Grown ==
    /\ \A i \in 1 .. Len(lead) : lead'[i] = lead[i]
    /\ Len(lead) <= Len(lead')
    /\ \A f \in DOMAIN files : f \in DOMAIN files' /\ More(files[f], files'[f])

LEMMA BackedStays ==
    ASSUME IInv, Grown, NEW n \in 0 .. Len(lead), NEW t, NEW k, NEW at, Backed(n, t, k, at)
    PROVE  Backed(n, t, k, at)'
<1>1. n \in Nat /\ Len(lead) \in Nat /\ n <= Len(lead)
  BY LeadIs
<1>2. \A i \in 1 .. Len(lead) : lead'[i] = lead[i]
  BY DEF Grown
<1>3. \A i \in 1 .. n : i \in 1 .. Len(lead) /\ lead'[i] = lead[i]
  BY <1>1, <1>2
<1>4. CASE at = 0
  BY <1>4 DEF Backed
<1>5. CASE LeadBacks(n, t, k, at)
  <2>1. PICK i \in 1 .. n : /\ lead[i].op = "update" /\ ActiveAt(i) = t
                            /\ Sets(lead[i].up, k, at)
    BY <1>5 DEF LeadBacks
  <2>2. ActiveAt(i)' = t /\ lead'[i] = lead[i]
    BY <1>1, <1>3, <2>1, SamePrefix
  <2>3. LeadBacks(n, t, k, at)'
    BY <2>1, <2>2 DEF LeadBacks
  <2> QED  BY <2>3 DEF Backed
<1>6. CASE FileBacks(n, t, k, at)
  <2>1. PICK f \in DOMAIN files :
           /\ Told(files[f]) /\ FirstTeam(lead[files[f].of].team, n) = t
           /\ \A l \in 1 .. f : files[l].of <= n
           /\ \E m \in DOMAIN files[f].updates : Sets(files[f].updates[m], k, at)
    BY <1>6 DEF FileBacks
  <2>2. PICK m \in DOMAIN files[f].updates : Sets(files[f].updates[m], k, at)
    BY <2>1
  <2>3. \A l \in DOMAIN files : l \in DOMAIN files' /\ More(files[l], files'[l])
    BY DEF Grown
  <2>4. PICK o : o = files[f].of /\ o \in 1 .. Len(lead) /\ lead'[o] = lead[o]
    BY <1>2, <2>1 DEF Told, IInv, FilesInv, TrueOf
  <2>5. PICK c : c = lead[o]
    OBVIOUS
  <2>6. files'[f].of = o /\ lead'[o] = c /\ f \in DOMAIN files'
    BY <2>3, <2>4, <2>5 DEF More
  <2>7. Told(files[f])'
    BY <2>1, <2>3, <2>4, <2>5, <2>6 DEF Told, More
  <2>8. FirstTeam(c.team, n)' = t
    BY <1>1, <1>3, <2>1, <2>4, <2>5, SamePrefix
  <2>9. \A l \in 1 .. f : files'[l].of <= n
    <3>1. DOMAIN files = 1 .. Len(files) /\ Len(files) \in Nat
      BY LenProperties DEF IInv, FilesInv
    <3>2. \A l \in 1 .. f : l \in DOMAIN files
      BY <3>1
    <3> QED  BY <2>1, <2>3, <3>2 DEF More
  <2>10. m \in DOMAIN files'[f].updates /\ Sets(files'[f].updates[m], k, at)
    BY <2>2, <2>3 DEF More
  <2>11. FileBacks(n, t, k, at)'
    BY <2>5, <2>6, <2>7, <2>8, <2>9, <2>10 DEF FileBacks
  <2> QED  BY <2>11 DEF Backed
<1> QED  BY <1>4, <1>5, <1>6 DEF Backed

LEMMA BackedLater ==
    ASSUME IInv, NEW m \in Nat, NEW n \in Nat, m <= n, NEW t, t # 0,
           NEW k, NEW at, Backed(m, t, k, at)
    PROVE  Backed(n, t, k, at)
<1>1. CASE at = 0
  BY <1>1 DEF Backed
<1>2. CASE LeadBacks(m, t, k, at)
  <2>1. \A i \in 1 .. m : i \in 1 .. n
    OBVIOUS
  <2>2. LeadBacks(n, t, k, at)
    BY <1>2, <2>1 DEF LeadBacks
  <2> QED  BY <2>2 DEF Backed
<1>3. CASE FileBacks(m, t, k, at)
  <2>1. PICK f \in DOMAIN files :
           /\ Told(files[f]) /\ FirstTeam(lead[files[f].of].team, m) = t
           /\ \A l \in 1 .. f : files[l].of <= m
           /\ \E i \in DOMAIN files[f].updates : Sets(files[f].updates[i], k, at)
    BY <1>3 DEF FileBacks
  <2>2. FirstTeam(lead[files[f].of].team, n) = t
    BY <2>1, FirstTeamStays
  <2>3. \A l \in 1 .. f : files[l].of <= n
    <3> SUFFICES ASSUME NEW l \in 1 .. f PROVE files[l].of <= n
      OBVIOUS
    <3>1. files \in Seq(Transcript) /\ DOMAIN files = 1 .. Len(files) /\ Len(files) \in Nat
      BY LenProperties DEF IInv, FilesInv
    <3>2. files[l] \in Transcript
      BY <3>1, ElementOfSeq
    <3>3. files[l].of \in Nat
      BY <3>2 DEF Transcript
    <3> QED  BY <2>1, <3>3
  <2>4. FileBacks(n, t, k, at)
    BY <2>1, <2>2, <2>3 DEF FileBacks
  <2> QED  BY <2>4 DEF Backed
<1> QED  BY <1>1, <1>2, <1>3 DEF Backed

(* Every task of boards bs is one of the first n calls', its status backed. *)
BackedAll(bs, n) ==
    \A t \in DOMAIN bs :
        /\ t \in 1 .. Cardinality(Creates(n))
        /\ \A k \in DOMAIN bs[t].tasks : /\ k \in 1 .. Cardinality(TasksOf(n, t))
                                         /\ Backed(n, t, k, bs[t].tasks[k].status[1])

LEMMA AllStay ==
    ASSUME IInv, Grown, NEW n \in 0 .. Len(lead), NEW bs, BackedAll(bs, n)
    PROVE  BackedAll(bs, n)'
<1>1. n \in Nat /\ \A i \in 1 .. n : lead'[i] = lead[i]
  BY LeadIs DEF Grown
<1>2. Creates(n)' = Creates(n) /\ \A t : TasksOf(n, t)' = TasksOf(n, t)
  BY <1>1, SamePrefix
<1>3. ASSUME NEW t \in DOMAIN bs, NEW k \in DOMAIN bs[t].tasks
      PROVE  Backed(n, t, k, bs[t].tasks[k].status[1])'
  BY BackedStays DEF BackedAll
<1> QED  BY <1>2, <1>3 DEF BackedAll

LaterOk ==
    \A bs : \A m, n \in Nat : m <= n /\ BackedAll(bs, m) => BackedAll(bs, n)

LEMMA AllLater == IInv => LaterOk
<1> SUFFICES ASSUME IInv, NEW bs, NEW m \in Nat, NEW n \in Nat, m <= n, BackedAll(bs, m)
             PROVE  BackedAll(bs, n)
  BY DEF LaterOk
<1>1. ASSUME NEW t \in DOMAIN bs PROVE t \in 1 .. Cardinality(Creates(n)) /\ t # 0
  <2>1. t \in 1 .. Cardinality(Creates(m))
    BY DEF BackedAll
  <2> QED  BY <2>1, CreatesGrow, CreatesAre
<1>2. ASSUME NEW t \in DOMAIN bs, NEW k \in DOMAIN bs[t].tasks
      PROVE  /\ k \in 1 .. Cardinality(TasksOf(n, t))
             /\ Backed(n, t, k, bs[t].tasks[k].status[1])
  <2>1. /\ k \in 1 .. Cardinality(TasksOf(m, t))
        /\ Backed(m, t, k, bs[t].tasks[k].status[1])
    BY DEF BackedAll
  <2>2. k \in 1 .. Cardinality(TasksOf(n, t))
    BY <2>1, TasksGrow
  <2> QED  BY <1>1, <2>1, <2>2, BackedLater
<1> QED  BY <1>1, <1>2 DEF BackedAll

LEMMA AllLaterOn == IInv' => LaterOk'
  BY AllLater, PTL

(* How many calls the chunks have that any later refresh reads, at least.  *)
Seen == IF Reading THEN view ELSE Len(lead)

LEMMA GrownSame ==
    ASSUME UNCHANGED <<lead, files>>, IInv
    PROVE  Grown
<1>1. Len(lead) \in Nat
  BY LeadIs
<1> QED  BY <1>1 DEF Grown, More

LEMMA CallGrows ==
    ASSUME IInv, NEW e, Call(e)
    PROVE  Grown /\ UNCHANGED boards /\ Seen <= Seen'
<1>1. lead' = Append(lead, e) /\ UNCHANGED <<files, view, boards>>
  BY DEF Call, shown
<1>2. /\ lead \in Seq(LeadCall) /\ Len(lead) \in Nat /\ Len(lead') = Len(lead) + 1
      /\ \A i \in 1 .. Len(lead) : lead'[i] = lead[i]
  BY <1>1, LeadIs, AppendProperties
<1>3. Grown
  BY <1>1, <1>2 DEF Grown, More
<1>4. view \in Int
  BY <1>2 DEF IInv, Idle
<1> QED  BY <1>1, <1>2, <1>3, <1>4 DEF Seen, Reading

LEMMA ChangeGrows ==
    ASSUME IInv, NEW k \in DOMAIN files, NEW g, files' = [files EXCEPT ![k] = g],
           More(files[k], g), UNCHANGED lead
    PROVE  Grown
<1>1. DOMAIN files' = DOMAIN files
  BY DEF IInv, FilesInv
<1>2. \A l \in DOMAIN files : files'[l] = IF l = k THEN g ELSE files[l]
  OBVIOUS
<1>3. \A l \in DOMAIN files : More(files[l], files[l])
  BY DEF More
<1>4. Len(lead) \in Nat
  BY LeadIs
<1> QED  BY <1>1, <1>2, <1>3, <1>4 DEF Grown

LEMMA StartGrows ==
    ASSUME IInv, NEW c, NEW dir, NEW s, StartTranscript(c, dir, s)
    PROVE  Grown
<1>1. PICK g : files' = Append(files, g)
  BY DEF StartTranscript
<1>2. UNCHANGED lead
  BY DEF StartTranscript
<1>3. files \in Seq(Transcript) /\ DOMAIN files = 1 .. Len(files) /\ Len(files) \in Nat
  BY LenProperties DEF IInv, FilesInv
<1>4. /\ DOMAIN files' = 1 .. Len(files) + 1
      /\ \A l \in 1 .. Len(files) : files'[l] = files[l] /\ l \in 1 .. Len(files) + 1
  BY <1>1, <1>3
<1>5. \A l \in DOMAIN files : More(files[l], files[l])
  BY DEF More
<1>6. Len(lead) \in Nat
  BY LeadIs
<1> QED  BY <1>2, <1>3, <1>4, <1>5, <1>6 DEF Grown

LEMMA SidecarGrows ==
    ASSUME IInv, NEW k \in DOMAIN files, WriteSidecar(k)
    PROVE  Grown
<1>1. PICK f, g : f = files[k] /\ g = [f EXCEPT !.sidecar = TRUE]
  OBVIOUS
<1>2. files' = [files EXCEPT ![k] = g] /\ UNCHANGED lead
  BY <1>1 DEF WriteSidecar
<1>3. f \in Transcript
  BY <1>1, ElementOfSeq DEF IInv, FilesInv
<1>4. More(f, g)
  BY <1>1, <1>3 DEF More, Transcript
<1> QED  BY <1>1, <1>2, <1>4, ChangeGrows

LEMMA WorkerGrows ==
    ASSUME IInv, NEW k \in DOMAIN files, NEW up \in Update, WorkerUpdate(k, up)
    PROVE  Grown
<1>1. PICK f, g, us : /\ f = files[k] /\ us = Append(f.updates, up)
                     /\ g = [f EXCEPT !.updates = us]
  OBVIOUS
<1>2. files' = [files EXCEPT ![k] = g] /\ UNCHANGED lead
  BY <1>1 DEF WorkerUpdate
<1>3. f \in Transcript
  BY <1>1, ElementOfSeq DEF IInv, FilesInv
<1>4. f.updates \in Seq(TaskUpdate) /\ up \in TaskUpdate
  BY <1>3, UpdateIs DEF Transcript
<1>5. \A m \in DOMAIN f.updates : m \in DOMAIN us /\ us[m] = f.updates[m]
  <2>1. /\ DOMAIN f.updates = 1 .. Len(f.updates) /\ Len(f.updates) \in Nat
        /\ DOMAIN us = 1 .. Len(f.updates) + 1
        /\ \A m \in 1 .. Len(f.updates) : us[m] = f.updates[m]
    BY <1>1, <1>4, AppendProperties, LenProperties
  <2> QED  BY <2>1
<1>6. /\ g.of = f.of /\ g.dir = f.dir /\ g.summary = f.summary /\ g.sidecar = f.sidecar
      /\ g.updates = us
  BY <1>1, <1>3 DEF Transcript
<1>7. More(f, g)
  BY <1>5, <1>6 DEF More
<1> QED  BY <1>1, <1>2, <1>7, ChangeGrows

(* Between two refreshes what is written and seen only grows.              *)
LEMMA GrowsOn ==
    ASSUME IInv, [Next]_vars
    PROVE  Grown /\ (Link \/ (UNCHANGED boards /\ Seen <= Seen'))
<1> DEFINE P == Grown /\ UNCHANGED boards /\ Seen <= Seen'
<1>1. Len(lead) \in Nat /\ view \in Int /\ Seen \in Int
  BY LeadIs DEF IInv, Idle, Seen, Reading
<1>2. UNCHANGED <<lead, view>> => Seen <= Seen'
  BY <1>1 DEF Seen, Reading
<1>3. ASSUME NEW s \in Spawn, SpawnCall(s) PROVE P
  BY <1>3, CallGrows DEF SpawnCall
<1>4. ASSUME NEW e, TeamOp(e) PROVE P
  BY <1>4, CallGrows DEF TeamOp
<1>5. ASSUME NEW up, LeadUpdate(up) PROVE P
  BY <1>5, CallGrows DEF LeadUpdate
<1>6. ASSUME NEW k \in DOMAIN files, WriteSidecar(k) PROVE P
  BY <1>2, <1>6, SidecarGrows DEF WriteSidecar, shown
<1>7. ASSUME NEW k \in DOMAIN files, NEW up \in Update, WorkerUpdate(k, up) PROVE P
  BY <1>2, <1>7, WorkerGrows DEF WorkerUpdate, shown
<1>8. ASSUME NEW c, NEW dir, NEW s, StartTranscript(c, dir, s) PROVE P
  <2>1. UNCHANGED <<lead, view, boards>>
    BY <1>8 DEF StartTranscript, shown
  <2> QED  BY <1>2, <1>8, <2>1, StartGrows
<1>9. ASSUME NEW c, ToolResult(c) PROVE P
  BY <1>2, <1>9, GrownSame DEF ToolResult, shown
<1>10. ASSUME UNCHANGED vars PROVE P
  BY <1>2, <1>10, GrownSame DEF vars, written, shown
<1>11. ASSUME ReadChunks PROVE P
  <2>1. UNCHANGED <<lead, files, boards>> /\ view = Idle /\ view' = Len(lead)
    BY <1>11 DEF ReadChunks, written
  <2> QED  BY <1>1, <2>1, GrownSame DEF Seen, Reading, Idle
<1>12. ASSUME NEW t, TeamCreate(t) PROVE P
  BY <1>4, <1>12 DEF TeamCreate
<1>13. ASSUME TaskCreate \/ TeamDelete PROVE P
  BY <1>4, <1>13 DEF TaskCreate, TeamDelete
<1>14. ASSUME Link PROVE Grown
  BY <1>14, GrownSame DEF Link, written
<1> HIDE DEF P
<1>15. Link \/ P
  BY <1>3, <1>5, <1>6, <1>7, <1>8, <1>9, <1>10, <1>11, <1>12, <1>13 DEF Next
<1> QED  BY <1>14, <1>15 DEF P

----------------------------------------------------------------------------
(* What every refresh shows is backed until the next, and shown again. *)

LEMMA FinalParts ==
    ASSUME IInv, Reading
    PROVE  /\ DOMAIN Final = DOMAIN Begun /\ DOMAIN Final = 1 .. Cardinality(Creates(view))
           /\ \A t \in DOMAIN Begun :
                 /\ DOMAIN Final[t].tasks = DOMAIN Begun[t].tasks
                 /\ DOMAIN Final[t].tasks = 1 .. Cardinality(TasksOf(view, t))
<1>1. PICK F : F = Final
  OBVIOUS
<1>2. /\ F \in Seq(TeamType) /\ Len(F) = Cardinality(Creates(view)) /\ DOMAIN F = DOMAIN Begun
      /\ DOMAIN F = 1 .. Len(F)
  BY <1>1, FinalIs, LenProperties DEF Boards
<1>3. ASSUME NEW t \in DOMAIN Begun
      PROVE  /\ DOMAIN F[t].tasks = DOMAIN Begun[t].tasks
             /\ DOMAIN F[t].tasks = 1 .. Cardinality(TasksOf(view, t))
  <2>1. Len(F[t].tasks) = Cardinality(TasksOf(view, t))
        /\ DOMAIN F[t].tasks = DOMAIN Begun[t].tasks
    BY <1>1, FinalIs
  <2>2. F[t].tasks \in Seq(TaskType)
    BY <1>2, TeamIs
  <2> QED  BY <2>1, <2>2, LenProperties
<1> QED  BY <1>1, <1>2, <1>3

LEMMA AllBacked ==
    ASSUME IInv, Reading, ~ SharedBrief
    PROVE  BackedAll(Final, Len(lead))
<1>1. view \in Nat /\ view <= Len(lead) /\ Len(lead) \in Nat
  BY CallsAre
<1>2. PICK F : F = Final
  OBVIOUS
<1>3. ASSUME NEW t \in DOMAIN F PROVE t \in 1 .. Cardinality(Creates(Len(lead)))
  <2>1. t \in 1 .. Cardinality(Creates(view))
    BY <1>2, FinalParts
  <2> QED  BY <1>1, <2>1, CreatesGrow, CreatesAre
<1>4. ASSUME NEW t \in DOMAIN F, NEW k \in DOMAIN F[t].tasks
      PROVE  /\ k \in 1 .. Cardinality(TasksOf(Len(lead), t))
             /\ Backed(Len(lead), t, k, F[t].tasks[k].status[1])
  <2>1. /\ t \in DOMAIN Begun /\ k \in DOMAIN Begun[t].tasks
        /\ k \in 1 .. Cardinality(TasksOf(view, t))
    BY <1>2, FinalParts
  <2>2. k \in 1 .. Cardinality(TasksOf(Len(lead), t))
    BY <1>1, <2>1, TasksGrow
  <2> QED  BY <1>2, <2>1, <2>2, FinalBacked
<1>5. BackedAll(F, Len(lead))
  BY <1>3, <1>4 DEF BackedAll
<1> QED  BY <1>2, <1>5

LEMMA AllShown ==
    ASSUME IInv, Reading, ~ Respawned, ~ SharedBrief, NEW bs, BackedAll(bs, view),
           NEW t \in DOMAIN bs, NEW k \in DOMAIN bs[t].tasks
    PROVE  /\ t \in DOMAIN Final /\ k \in DOMAIN Final[t].tasks
           /\ Final[t].tasks[k].status[1] >= bs[t].tasks[k].status[1]
<1>1. PICK at : at = bs[t].tasks[k].status[1]
  OBVIOUS
<1>2. /\ t \in 1 .. Cardinality(Creates(view)) /\ k \in 1 .. Cardinality(TasksOf(view, t))
      /\ Backed(view, t, k, at)
  BY <1>1 DEF BackedAll
<1>3. t \in DOMAIN Begun /\ t \in DOMAIN Final
  BY <1>2, FinalParts
<1>4. k \in DOMAIN Begun[t].tasks /\ k \in DOMAIN Final[t].tasks
  BY <1>2, <1>3, FinalParts
<1>5. Final[t].tasks[k].status[1] >= at
  BY <1>2, <1>3, <1>4, BackedShown
<1> QED  BY <1>1, <1>3, <1>4, <1>5

(* What is shown is backed by the transcripts, as chunks of as many calls  *)
(* as will be read show them.                                              *)
ShownBacked == ~ Respawned /\ ~ SharedBrief => BackedAll(boards, Seen)

LEMMA InitShown == Init => ShownBacked
<1> SUFFICES ASSUME Init PROVE BackedAll(boards, Seen)
  BY DEF ShownBacked
<1>1. boards = <<>>
  BY DEF Init
<1>2. DOMAIN boards = {}
  BY <1>1
<1> QED  BY <1>2 DEF BackedAll

LEMMA CallsStay ==
    ASSUME IInv, Grown, ~ Respawned', ~ SharedBrief'
    PROVE  ~ Respawned /\ ~ SharedBrief
<1>1. /\ \A i \in 1 .. Len(lead) : i \in 1 .. Len(lead') /\ lead'[i] = lead[i]
  <2>1. Len(lead) <= Len(lead') /\ \A i \in 1 .. Len(lead) : lead'[i] = lead[i]
    BY DEF Grown
  <2>2. Len(lead) \in Nat
    BY LeadIs
  <2>3. \A i \in 1 .. Len(lead) : i \in 1 .. Len(lead')
    BY <2>1, <2>2
  <2> QED  BY <2>1, <2>3
<1>2. SpawnCalls(Len(lead)) \subseteq SpawnCalls(Len(lead))'
  BY <1>1 DEF SpawnCalls
<1> QED  BY <1>2 DEF Respawned, SharedBrief

LEMMA NextShown == IInv /\ ShownBacked /\ IInv' /\ [Next]_vars => ShownBacked'
<1> SUFFICES ASSUME IInv, ShownBacked, IInv', [Next]_vars, ~ Respawned', ~ SharedBrief'
             PROVE  BackedAll(boards, Seen)'
  BY DEF ShownBacked
<1>1. Grown /\ (Link \/ (UNCHANGED boards /\ Seen <= Seen'))
  BY GrowsOn
<1>2. ~ Respawned /\ ~ SharedBrief /\ BackedAll(boards, Seen)
  BY <1>1, CallsStay DEF ShownBacked
<1>3. /\ Len(lead) \in Nat /\ Seen \in 0 .. Len(lead) /\ Len(lead)' \in Nat /\ Seen' \in Nat
  <2>1. Len(lead) \in Nat /\ Len(lead') \in Nat
    BY LenProperties DEF IInv, LeadInv
  <2> QED  BY <2>1 DEF IInv, Seen, Reading, Idle
<1>4. PICK bs, n, l : bs = boards /\ n = Seen /\ l = Seen'
  OBVIOUS
<1>5. CASE UNCHANGED boards /\ Seen <= Seen'
  <2>1. BackedAll(bs, n)'
    BY <1>1, <1>2, <1>3, <1>4, AllStay
  <2>2. BackedAll(bs, l)'
    BY <1>3, <1>4, <1>5, <2>1, AllLaterOn DEF LaterOk
  <2>3. boards' = bs /\ Seen' = l
    BY <1>4, <1>5
  <2> QED  BY <2>2, <2>3 DEF BackedAll
<1>6. CASE Link
  <2>1. Reading /\ boards' = BoardsOf(view) /\ view' = Idle /\ UNCHANGED <<lead, files>>
    BY <1>6 DEF Link, Reading, written
  <2>2. PICK fs : fs = Final /\ boards' = fs
    BY <2>1, FinalIs
  <2>3. PICK m : m = Len(lead) /\ m \in 0 .. Len(lead) /\ Seen' = m
    BY <1>3, <2>1 DEF Seen, Reading
  <2>4. BackedAll(fs, m)
    BY <1>2, <2>1, <2>2, <2>3, AllBacked
  <2>5. BackedAll(fs, m)'
    BY <1>1, <2>3, <2>4, AllStay
  <2> QED  BY <2>2, <2>3, <2>5 DEF BackedAll
<1> QED  BY <1>1, <1>5, <1>6

(* From one refresh to the next the status of a task never goes back to an *)
(* older update, as long as no teammate is spawned twice and no two teams' *)
(* teammates share a description.                                          *)
THEOREM BoardsNeverGoBack == Spec => NoRegression
<1> DEFINE Stay ==
             ~ Respawned /\ ~ SharedBrief =>
                 \A t \in DOMAIN boards : \A k \in DOMAIN boards[t].tasks :
                     /\ t \in DOMAIN boards' /\ k \in DOMAIN boards'[t].tasks
                     /\ boards'[t].tasks[k].status[1] >= boards[t].tasks[k].status[1]
<1>1. Init => IInv /\ ShownBacked
  BY InitIInv, InitShown
<1>2. IInv /\ ShownBacked /\ [Next]_vars => IInv' /\ ShownBacked'
  BY NextIInv, NextShown
<1>3. IInv /\ ShownBacked /\ [Next]_vars => [Stay]_boards
  <2> SUFFICES ASSUME IInv, ShownBacked, [Next]_vars, boards' # boards,
                      ~ Respawned, ~ SharedBrief,
                      NEW t \in DOMAIN boards, NEW k \in DOMAIN boards[t].tasks
               PROVE  /\ t \in DOMAIN boards' /\ k \in DOMAIN boards'[t].tasks
                      /\ boards'[t].tasks[k].status[1] >= boards[t].tasks[k].status[1]
    OBVIOUS
  <2>1. Link
    BY GrowsOn
  <2>2. Reading /\ boards' = Final
    BY <2>1, FinalIs DEF Link, Reading
  <2>3. BackedAll(boards, view)
    BY <2>2 DEF ShownBacked, Seen
  <2> QED  BY <2>2, <2>3, AllShown
<1> QED  BY <1>1, <1>2, <1>3, PTL DEF Spec, NoRegression
=============================================================================
