----------------------------- MODULE Discovery -----------------------------
(***************************************************************************)
(* What a picker or a name argument sees of the sessions on a machine: the *)
(* lists of SessionCache, the names of Registry laid over them, name       *)
(* lookups, and discovery across providers, while sessions start, write,   *)
(* are renamed, end and are resumed.                                       *)
(***************************************************************************)
EXTENDS SessionCache, FiniteSets

CONSTANTS Stamp, Contains, Pid, NoFile, Limit, Wanted,
          Stamped,  \* the sessions a launcher started
          Long,     \* titles whose entry is longer than titleLineCap
          Rollout   \* Codex rollouts

ASSUME NamesAssumption ==
    /\ Stamp \in Title /\ Pid \subseteq Nat
    /\ Contains \subseteq Title \X Title /\ \A t \in Title : <<t, t>> \notin Contains

ASSUME NoFileAssumption ==
    NoFile \notin [pid : Pid, session : Session, name : Title \cup {NoTitle},
                   startedAt : Nat, updatedAt : Nat]

ASSUME DiscoveryAssumption ==
    /\ IsFiniteSet(Session) /\ IsFiniteSet(Rollout) /\ Limit \in Nat
    /\ Stamped \subseteq Session /\ Long \subseteq Title /\ Wanted \subseteq Title \cup {NoTitle}

VARIABLES running, files,
          phase, walked, refs, failed, found,
          rollouts,  \* the rollouts' modification times, or 0, and thread names
          given,     \* the name the user last gave a session
          called     \* the names it had since a listing began

INSTANCE Registry
INSTANCE Providers

processes == <<running, files>>
query     == <<phase, walked, refs, failed, found>>
vars      == <<cacheVars, processes, query, rollouts, given, called>>

Init ==
    /\ CacheInit /\ RegistryInit /\ QueryInit
    /\ rollouts = [r \in Rollout |-> [modTime |-> 0, title |-> NoTitle]]
    /\ given = [s \in Session |-> NoTitle]
    /\ called = [i \in Picker |-> [s \in Session |-> {}]]

local == <<cache, list, faults>>

----------------------------------------------------------------------------
(* Claude Code. *)

(* A new session may be named by Claude Code itself.                       *)
Start(p, s) ==
    /\ \A f \in Read : f.session = s => f.updatedAt < now
    /\ \E name \in IF \E f \in Read : f.session = s THEN {NoTitle, RegistryName(Read, s)}
                                                    ELSE {NoTitle} \cup (Title \ {Stamp}) :
          Launch(p, s, name, now)
    /\ UNCHANGED <<world, local, query, rollouts, given>>

Say(s, l) == Of(s) # {} /\ AppendTo(s, l) /\ UNCHANGED <<local, processes, query, rollouts>>

Speak(s) ==
    /\ \E l \in Line : l.kind # "custom" /\ Say(s, l)
    /\ UNCHANGED given

(* /rename: a title entry in the transcript and the name in the registry.  *)
Rename(p) ==
    /\ p \in running
    /\ \E name \in Title \ {Stamp} :
          LET s == files[p].session
          IN  /\ SetName(p, name, now)
              /\ AppendTo(s, [kind |-> "custom", title |-> name])
              /\ given' = [given EXCEPT ![s] = name]
    /\ UNCHANGED <<local, query, rollouts>>

(* A flush stamps the title of a launcher's session.                       *)
Flush(s) ==
    /\ s \in Stamped /\ Say(s, [kind |-> "custom", title |-> Stamp])
    /\ UNCHANGED given

Process(p) ==
    /\ Heartbeat(p, now) \/ Exit(p)
    /\ UNCHANGED <<world, local, query, rollouts, given>>

(* Codex writes to a rollout, or names its thread.                         *)
CodexWrites(r) ==
    /\ \/ rollouts' = [rollouts EXCEPT ![r] = [modTime |-> now, title |-> @.title]]
       \/ \E t \in Title : rollouts' = [rollouts EXCEPT ![r] = [modTime |-> @.modTime, title |-> t]]
    /\ UNCHANGED <<world, local, processes, query, given>>

----------------------------------------------------------------------------
(* The program. *)

Picking ==
    /\ \/ Tick \/ \E s \in Session : WorkflowWrite(s)
       \/ \E i \in Picker : List(i) \/ (\E s \in Session : GetOrScan(i, s)) \/ AddRow(i) \/ Return(i)
    /\ UNCHANGED <<processes, query, rollouts, given>>

ClaudeRefs ==
    {[session |-> s, modTime |-> mtime[s], title |-> BestTitle(ScanMetadata(lines[s]))] :
        s \in {t \in Session : mtime[t] > 0 /\ ScanMetadata(lines[t]).turns}}

Asking ==
    /\ \/ AskClaude(ClaudeRefs)
       \/ WalkRollouts({[session |-> r, modTime |-> rollouts[r].modTime] :
                           r \in {q \in Rollout : rollouts[q].modTime > 0}})
       \/ AskCodex({[session |-> w.session, modTime |-> w.modTime,
                     title |-> rollouts[w.session].title] : w \in walked})
       \/ Merge
    /\ UNCHANGED <<world, local, processes, rollouts, given>>

Claude ==
    \/ \E s \in Session : Speak(s) \/ Flush(s) \/ \E p \in Pid : Start(p, s)
    \/ \E p \in Pid : Rename(p) \/ Process(p)

Codex == \E r \in Rollout : CodexWrites(r)

(* The names since a listing began.                                        *)
Hear ==
    called' = [i \in Picker |-> [s \in Session |->
                  IF listed'[i] = <<>> THEN {} ELSE called[i][s] \cup {given'[s]}]]

Next == (Claude \/ Codex \/ Picking \/ Asking) /\ Witness /\ Hear

Spec == Init /\ [][Next]_vars

----------------------------------------------------------------------------
(* scanSessionTitle: title entries over titleLineCap are not seen.         *)
ShortTitle(d, k) ==
    LET I == {i \in 1 .. Len(d) : d[i].kind = k /\ d[i].title \notin Long}
    IN  IF I = {} THEN NoTitle ELSE d[CHOOSE i \in I : \A j \in I : j <= i].title

ScanTitle(s) ==
    BestTitle([customTitle |-> ShortTitle(lines[s], "custom"), aiTitle |-> ShortTitle(lines[s], "ai")])

Shown(s) == DisplayName(Read, s, BestTitle(ScanMetadata(lines[s])))

Find(q) ==
    Lookup({[session |-> s, title |-> ScanTitle(s)] : s \in {t \in Session : ScanTitle(t) # NoTitle}},
           Read, {s \in Session : mtime[s] > 0}, q)

(* Properties. *)

(* A session the user renamed is listed under a name it had during the     *)
(* listing, although flushes stamp its title, its process ends and another *)
(* resumes it without a name, and the files of its old processes linger.   *)
RenameShown ==
    \A i \in Picker : \A r \in rows[i] :
        r.sure /\ NoTitle \notin called[i][r.session] =>
            DisplayName(Read, r.session, BestTitle(r.meta)) \in called[i][r.session]

(* The name a session is shown under finds it, and finds only sessions     *)
(* that have that title or name, unless its title contains that name: then *)
(* MergeTitleRefs keeps the title's partial match and drops the exact one. *)
NameResolves ==
    \A s \in Session :
        LET q == Shown(s)
        IN  /\ ScanMetadata(lines[s]).turns
            /\ q \notin Long \cup {NoTitle} /\ <<ScanTitle(s), q>> \notin Contains
            =>
                /\ \E r \in Find(q) : r.session = s
                /\ \A r \in Find(q) : q \in {ScanTitle(r.session), RegistryName(Read, r.session)}

(* A limited discovery returns the newest of all the sessions that match,  *)
(* of whichever provider, although every provider has cut its own list,    *)
(* and a provider that fails hides none of the others' sessions.           *)
LimitExact == phase = "done" => refs \in Newest(found)
============================================================================
