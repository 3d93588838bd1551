-------------------------- MODULE DiscoveryProofs --------------------------
(***************************************************************************)
(* Proofs about Discovery.  The cache's soundness rests on an invariant    *)
(* about times: a listing never has a later modification time than the     *)
(* file, an entry is never newer than its file and was scanned no earlier  *)
(* than that.  It is proved of the cache's own specification and of the    *)
(* system that names, processes and other providers are added to.          *)
(* What is listed rests on what a listing may still meet in the files and  *)
(* the cache; the names on which registry file of a session is the newest. *)
(***************************************************************************)
EXTENDS Discovery, FiniteSetTheorems, SequenceTheorems, TLAPS

ClockInv ==
    /\ now \in Nat \ {0}
    /\ mtime \in [Session -> Nat]
    /\ \A s \in Session : mtime[s] <= now

(* What the listings know of the files they have still to look at.         *)
ListedInv ==
    \A i \in Picker : \A s \in todo[i] :
        s \in Session /\ listed[i][s] \in Nat /\ listed[i][s] <= mtime[s]

EntryInv ==
    \A s \in Session : cache[s] # NoEntry =>
        /\ cache[s].modTime \in Nat /\ cache[s].at \in Nat
        /\ cache[s].modTime <= mtime[s]
        /\ cache[s].modTime <= cache[s].at /\ cache[s].at <= now

FormInv ==
    /\ lines = [s \in Session |-> lines[s]]
    /\ DOMAIN cache = Session /\ cache = [s \in Session |-> cache[s]]
    /\ DOMAIN todo = Picker /\ todo = [i \in Picker |-> todo[i]]
    /\ DOMAIN listed = Picker /\ listed = [i \in Picker |-> listed[i]]

CacheInv == FormInv /\ ClockInv /\ ListedInv /\ EntryInv /\ CacheSound

(* The variables the cache's soundness is about.                           *)
core == <<now, lines, mtime, cache, listed, todo>>

LEMMA CacheInit_Inv == CacheInit => CacheInv
  BY DEF CacheInit, CacheInv, FormInv, ClockInv, ListedInv, EntryInv, CacheSound

LEMMA CoreUnchanged == CacheInv /\ UNCHANGED core => CacheInv'
  BY DEF core, CacheInv, FormInv, ClockInv, ListedInv, EntryInv, CacheSound

(* A write: an entry with the file's new modification time, which is now,  *)
(* can only have been scanned now.                                         *)
LEMMA AppendKeeps ==
    ASSUME NEW s, NEW l, CacheInv, AppendTo(s, l),
           UNCHANGED <<cache, listed, todo>>
    PROVE  CacheInv'
<1> USE DEF CacheInv
<1>1. /\ lines' = [lines EXCEPT ![s] = Append(@, l)]
      /\ mtime' = [mtime EXCEPT ![s] = now] /\ now' = now
  BY DEF AppendTo
<1>2. \A t \in Session : mtime'[t] \in Nat /\ mtime[t] <= mtime'[t] /\ mtime'[t] <= now
  BY <1>1 DEF ClockInv
<1>3. \A t \in Session \ {s} : mtime'[t] = mtime[t] /\ lines'[t] = lines[t]
  BY <1>1 DEF ClockInv, FormInv
<1>4. FormInv'
  BY <1>1 DEF FormInv
<1>5. ClockInv'
  BY <1>1, <1>2 DEF ClockInv
<1>6. ListedInv'
  BY <1>2 DEF ListedInv, ClockInv
<1>7. EntryInv'
  BY <1>1, <1>2 DEF EntryInv, ClockInv
<1>8. CacheSound'
  <2> SUFFICES ASSUME NEW t \in Session, cache[t] # NoEntry, cache[t].ok,
                      cache[t].modTime = mtime'[t], cache[t].at # mtime'[t]
               PROVE  cache[t].meta = ScanMetadata(lines'[t])
    BY DEF CacheSound
  <2>1. CASE t # s
    BY <2>1, <1>3 DEF CacheSound
  <2>2. CASE t = s
    <3>1. mtime'[t] = now
      BY <2>2, <1>1 DEF ClockInv
    <3>2. cache[t].modTime = now /\ cache[t].at = now
      BY <3>1 DEF EntryInv, ClockInv
    <3> QED  BY <3>1, <3>2
  <2> QED  BY <2>1, <2>2
<1> QED  BY <1>4, <1>5, <1>6, <1>7, <1>8

LEMMA TickKeeps == CacheInv /\ Tick => CacheInv'
  BY DEF Tick, world, list, CacheInv, FormInv, ClockInv, ListedInv, EntryInv, CacheSound

LEMMA ListKeeps == ASSUME NEW i \in Picker, CacheInv, List(i) PROVE CacheInv'
<1>1. /\ listed' = [listed EXCEPT ![i] = mtime]
      /\ todo' = [todo EXCEPT ![i] = {s \in Session : mtime[s] > 0}]
      /\ UNCHANGED <<now, lines, mtime, cache>>
  BY DEF List, world
<1>2. ListedInv'
  <2> SUFFICES ASSUME NEW j \in Picker, NEW s \in todo'[j]
               PROVE  s \in Session /\ listed'[j][s] \in Nat /\ listed'[j][s] <= mtime[s]
    BY <1>1 DEF ListedInv
  <2>1. CASE j = i
    BY <2>1, <1>1 DEF CacheInv, FormInv, ClockInv
  <2>2. CASE j # i
    BY <2>2, <1>1 DEF CacheInv, FormInv, ListedInv
  <2> QED  BY <2>1, <2>2
<1> QED  BY <1>1, <1>2 DEF CacheInv, FormInv, ClockInv, EntryInv, CacheSound

(* A scan puts what the file holds now under a time that is not later than *)
(* the file's.                                                             *)
LEMMA GetOrScanKeeps ==
    ASSUME NEW i \in Picker, NEW s \in Session, CacheInv, GetOrScan(i, s) PROVE CacheInv'
<1>1. /\ s \in todo[i] /\ todo' = [todo EXCEPT ![i] = @ \ {s}]
      /\ UNCHANGED <<now, lines, mtime, listed>>
  BY DEF GetOrScan, world
<1>2. \E ok \in BOOLEAN :
          cache' = [cache EXCEPT ![s] = IF Hit(s, listed[i][s]) THEN cache[s]
                                        ELSE Cached(s, listed[i][s], ok)]
  BY DEF GetOrScan
<1>3. PICK ok \in BOOLEAN :
          cache' = [cache EXCEPT ![s] = IF Hit(s, listed[i][s]) THEN cache[s]
                                        ELSE Cached(s, listed[i][s], ok)]
  BY <1>2
<1>4. listed[i][s] \in Nat /\ listed[i][s] <= mtime[s] /\ mtime[s] <= now /\ now \in Nat
  BY <1>1 DEF CacheInv, ListedInv, ClockInv
<1>5. \A t \in Session : cache'[t] = cache[t] \/ (t = s /\ cache'[s] = Cached(s, listed[i][s], ok))
  BY <1>3 DEF CacheInv, FormInv
<1>6. LET e == Cached(s, listed[i][s], ok)
      IN  /\ e.modTime = listed[i][s] /\ e.at = now /\ e.ok = ok
          /\ ok => e.meta = ScanMetadata(lines[s])
  BY DEF Cached
<1>7. FormInv'
  BY <1>1, <1>3 DEF CacheInv, FormInv
<1>8. ListedInv'
  BY <1>1 DEF CacheInv, FormInv, ListedInv
<1>9. EntryInv'
  BY <1>1, <1>4, <1>5, <1>6 DEF CacheInv, EntryInv, ClockInv
<1>10. CacheSound'
  BY <1>1, <1>5, <1>6 DEF CacheInv, CacheSound
<1> QED  BY <1>1, <1>7, <1>8, <1>9, <1>10 DEF CacheInv, ClockInv

LEMMA ReturnKeeps == ASSUME NEW i \in Picker, CacheInv, Return(i) PROVE CacheInv'
<1>1. /\ todo[i] = {} /\ listed' = [listed EXCEPT ![i] = <<>>]
      /\ UNCHANGED <<now, lines, mtime, cache, todo>>
  BY DEF Return, world
<1>2. ListedInv'
  BY <1>1 DEF CacheInv, FormInv, ListedInv
<1> QED  BY <1>1, <1>2 DEF CacheInv, FormInv, ClockInv, EntryInv, CacheSound

LEMMA CacheStepKeeps ==
    ASSUME CacheInv, CacheStep \/ UNCHANGED core PROVE CacheInv'
<1>1. CASE \E s \in Session : WriteLine(s)
  BY <1>1, AppendKeeps DEF WriteLine, list
<1>2. CASE \E s \in Session : WorkflowWrite(s)
  BY <1>2, CoreUnchanged DEF WorkflowWrite, core, list
<1>3. CASE Tick
  BY <1>3, TickKeeps
<1>4. CASE \E i \in Picker : List(i)
  BY <1>4, ListKeeps
<1>5. CASE \E i \in Picker, s \in Session : GetOrScan(i, s)
  BY <1>5, GetOrScanKeeps
<1>6. CASE \E i \in Picker : AddRow(i)
  BY <1>6, CoreUnchanged DEF AddRow, core, world
<1>7. CASE \E i \in Picker : Return(i)
  BY <1>7, ReturnKeeps
<1>8. CASE UNCHANGED core
  BY <1>8, CoreUnchanged
<1> QED  BY <1>1, <1>2, <1>3, <1>4, <1>5, <1>6, <1>7, <1>8 DEF CacheStep

(* Whatever the sessions, the listings and the clock's resolution, a cache *)
(* entry that would be served is what a scan of the file would give.       *)
THEOREM CacheSpec_Sound == CacheSpec => []CacheSound
<1>1. CacheInv /\ [CacheNext]_cacheVars => CacheInv'
  <2>1. CacheInv /\ CacheNext => CacheInv'
    BY CacheStepKeeps DEF CacheNext
  <2>2. CacheInv /\ UNCHANGED cacheVars => CacheInv'
    BY CoreUnchanged DEF cacheVars, core, world, list
  <2> QED  BY <2>1, <2>2
<1>2. CacheInv => CacheSound
  BY DEF CacheInv
<1> QED  BY <1>1, <1>2, CacheInit_Inv, PTL DEF CacheSpec

(* Names, processes, launchers and other providers leave that as it is.    *)
LEMMA SystemStepKeeps == CacheInv /\ [Next]_vars => CacheInv'
<1> SUFFICES ASSUME CacheInv, [Next]_vars PROVE CacheInv'
  OBVIOUS
<1>1. CASE Claude
  <2>1. ASSUME NEW s, NEW l, Say(s, l) PROVE CacheInv'
    BY <2>1, AppendKeeps DEF Say, local, list
  <2>2. ASSUME NEW s \in Session, NEW p \in Pid, Start(p, s) PROVE CacheInv'
    BY <2>2, CoreUnchanged DEF Start, core, world, local, list
  <2>3. ASSUME NEW p \in Pid, Process(p) PROVE CacheInv'
    BY <2>3, CoreUnchanged DEF Process, core, world, local, list
  <2>4. ASSUME NEW p \in Pid, Rename(p) PROVE CacheInv'
    <3>1. \E s, l : AppendTo(s, l) /\ UNCHANGED <<cache, listed, todo>>
      BY <2>4 DEF Rename, local, list
    <3> QED  BY <3>1, AppendKeeps
  <2> QED  BY <1>1, <2>1, <2>2, <2>3, <2>4 DEF Claude, Speak, Flush
<1>2. CASE Codex
  BY <1>2, CoreUnchanged DEF Codex, CodexWrites, core, world, local, list
<1>3. CASE Picking
  <2>1. CacheStep
    BY <1>3 DEF Picking, CacheStep
  <2> QED  BY <2>1, CacheStepKeeps
<1>4. CASE Asking
  BY <1>4, CoreUnchanged DEF Asking, core, world, local, list
<1>5. CASE UNCHANGED vars
  BY <1>5, CoreUnchanged DEF vars, cacheVars, core, world, list
<1> QED  BY <1>1, <1>2, <1>3, <1>4, <1>5 DEF Next

THEOREM Spec_CacheSound == Spec => []CacheSound
<1>1. Init => CacheInv
  BY CacheInit_Inv DEF Init
<1>2. CacheInv => CacheSound
  BY DEF CacheInv
<1> QED  BY <1>1, <1>2, SystemStepKeeps, PTL DEF Spec

----------------------------------------------------------------------------
(* Limits.  Results that were cut twice, by their provider and after the   *)
(* merge, are what one cut of everything found would have left.            *)

Timed(S) == IsFiniteSet(S) /\ \A r \in S : r.modTime \in Nat

LEMMA TimedSubset ==
    ASSUME NEW S, Timed(S), NEW R \in SUBSET S
    PROVE  Timed(R) /\ Cardinality(R) \in Nat /\ Cardinality(R) <= Cardinality(S)
  BY FS_Subset, FS_CardinalityType DEF Timed

LEMMA TimedUnion ==
    ASSUME NEW S, Timed(S), NEW R, Timed(R) PROVE Timed(S \cup R)
  BY FS_Union DEF Timed

LEMMA NewestSize ==
    ASSUME NEW S, Timed(S), NEW R \in Newest(S)
    PROVE  /\ R \subseteq S /\ Timed(R)
           /\ Limit = 0 => R = S
           /\ Limit # 0 => Cardinality(R) <= Limit
           /\ R # S => Limit # 0 /\ Cardinality(R) = Limit
<1>1. R \subseteq S /\ (IF Limit = 0 \/ Cardinality(S) <= Limit THEN R = S ELSE Cardinality(R) = Limit)
  BY DEF Newest
<1>2. Cardinality(S) \in Nat /\ Limit \in Nat
  BY FS_CardinalityType, DiscoveryAssumption DEF Timed
<1> QED  BY <1>1, <1>2, TimedSubset

(* What a provider cut off is not newer than anything that stays.          *)
LEMMA LeftOut ==
    ASSUME NEW S1, Timed(S1), NEW R1 \in Newest(S1), NEW R, Timed(R), R1 \subseteq R,
           NEW T \in Newest(R), NEW s \in S1 \ T, NEW t \in T
    PROVE  t.modTime >= s.modTime
<1>1. \A x \in T, y \in R \ T : x.modTime >= y.modTime
  BY DEF Newest
<1>2. \A x \in R1, y \in S1 \ R1 : x.modTime >= y.modTime
  BY DEF Newest
<1>3. T \subseteq R /\ R1 \subseteq S1 /\ Timed(R1) /\ Timed(T)
  BY NewestSize
<1>4. CASE s \in R
  BY <1>1, <1>4
<1>5. CASE s \notin R /\ t \in R1
  BY <1>2, <1>5
<1>6. CASE s \notin R /\ t \notin R1
  <2>1. Cardinality(R1) = Limit /\ Cardinality(T) <= Limit
    BY <1>6, NewestSize
  <2>2. PICK r \in R1 : r \notin T
    <3>1. ASSUME R1 \subseteq T PROVE FALSE
      <4>1. Cardinality(R1) <= Cardinality(T) /\ (Cardinality(T) = Cardinality(R1) => T = R1)
        BY <3>1, <1>3, FS_Subset DEF Timed
      <4>2. Cardinality(R1) \in Nat /\ Cardinality(T) \in Nat
        BY <1>3, FS_CardinalityType DEF Timed
      <4> QED  BY <4>1, <4>2, <2>1, <1>6
    <3> QED  BY <3>1
  <2>3. t.modTime >= r.modTime
    BY <1>1, <2>2
  <2>4. r.modTime >= s.modTime
    BY <1>2, <1>6, <2>2
  <2>5. t.modTime \in Nat /\ r.modTime \in Nat /\ s.modTime \in Nat
    BY <1>3, <2>2 DEF Timed
  <2> QED  BY <2>3, <2>4, <2>5
<1> QED  BY <1>4, <1>5, <1>6

LEMMA NewestMerges ==
    ASSUME NEW S1, Timed(S1), NEW R1 \in Newest(S1),
           NEW S2, Timed(S2), NEW R2 \in Newest(S2), NEW T \in Newest(R1 \cup R2)
    PROVE  T \in Newest(S1 \cup S2)
<1> DEFINE S == S1 \cup S2  R == R1 \cup R2
<1>1. Timed(S) /\ Timed(R) /\ R1 \subseteq S1 /\ R2 \subseteq S2 /\ T \subseteq R
  BY NewestSize, TimedUnion
<1>2. \A t \in T, s \in S \ T : t.modTime >= s.modTime
  BY <1>1, LeftOut
<1>3. IF Limit = 0 \/ Cardinality(S) <= Limit THEN T = S ELSE Cardinality(T) = Limit
  <2>1. /\ Cardinality(S) \in Nat /\ Cardinality(R) \in Nat /\ Limit \in Nat
        /\ Cardinality(S1) \in Nat /\ Cardinality(S1) <= Cardinality(S)
        /\ Cardinality(S2) \in Nat /\ Cardinality(S2) <= Cardinality(S)
        /\ Cardinality(R1) <= Cardinality(R) /\ Cardinality(R2) <= Cardinality(R)
        /\ Cardinality(R1) \in Nat /\ Cardinality(R2) \in Nat
    BY <1>1, TimedSubset, DiscoveryAssumption
  <2>2. CASE Limit = 0 \/ Cardinality(S) <= Limit
    <3>1. /\ Limit = 0 \/ Cardinality(S1) <= Limit
          /\ Limit = 0 \/ Cardinality(S2) <= Limit
      BY <2>1, <2>2
    <3>2. R1 = S1 /\ R2 = S2
      BY <3>1 DEF Newest
    <3> QED  BY <3>2, <2>2 DEF Newest
  <2>3. CASE Limit # 0 /\ Cardinality(S) > Limit
    <3>1. CASE Cardinality(R) > Limit
      BY <3>1, <2>1, <2>3 DEF Newest
    <3>2. CASE Cardinality(R) <= Limit
      <4>1. T = R
        BY <3>2 DEF Newest
      <4>2. R1 # S1 \/ R2 # S2
        BY <2>1, <2>3, <3>2
      <4>3. Cardinality(R1) = Limit \/ Cardinality(R2) = Limit
        BY <4>2, NewestSize
      <4> QED  BY <4>1, <4>3, <2>1, <2>3, <3>2
    <3> QED  BY <3>1, <3>2, <2>1
  <2> QED  BY <2>1, <2>2, <2>3
<1> QED  BY <1>1, <1>2, <1>3 DEF Newest

RolloutInv ==
    /\ rollouts = [r \in Rollout |-> rollouts[r]]
    /\ \A r \in Rollout : rollouts[r].modTime \in Nat

(* Before the last cut: two providers' results, each cut once.             *)
Merged ==
    \E S1, S2 :
        /\ Timed(S1) /\ Timed(S2) /\ found = S1 \cup S2
        /\ \E R1 \in Newest(S1), R2 \in Newest(S2) : refs = R1 \cup R2

QueryInv ==
    /\ phase \in {"claude", "codex", "rollouts", "merge", "done"}
    /\ Timed(walked)
    /\ phase = "claude" => refs = {} /\ found = {}
    /\ phase \in {"codex", "rollouts"} => Timed(found) /\ refs \in Newest(found)
    /\ phase = "merge" => Merged
    /\ LimitExact

LEMMA EmptyNewest == Timed({}) /\ {} \in Newest({})
  BY FS_EmptySet, DiscoveryAssumption DEF Timed, Newest

LEMMA ClaudeRefsTimed == ClockInv => Timed(ClaudeRefs)
<1> SUFFICES ASSUME ClockInv PROVE Timed(ClaudeRefs)
  OBVIOUS
<1> DEFINE D == {t \in Session : mtime[t] > 0 /\ ScanMetadata(lines[t]).turns}
           f == [s \in D |-> [session |-> s, modTime |-> mtime[s],
                              title |-> BestTitle(ScanMetadata(lines[s]))]]
<1>1. IsFiniteSet(D)
  BY FS_Subset, DiscoveryAssumption
<1>2. f \in Surjection(D, ClaudeRefs)
  BY DEF Surjection, ClaudeRefs
<1>3. IsFiniteSet(ClaudeRefs)
  BY <1>1, <1>2, FS_Surjection
<1>4. \A r \in ClaudeRefs : r.modTime \in Nat
  BY DEF ClaudeRefs, ClockInv
<1> QED  BY <1>3, <1>4 DEF Timed

Walk == {[session |-> r, modTime |-> rollouts[r].modTime] :
            r \in {q \in Rollout : rollouts[q].modTime > 0}}

LEMMA WalkTimed == RolloutInv => Timed(Walk)
<1> SUFFICES ASSUME RolloutInv PROVE Timed(Walk)
  OBVIOUS
<1> DEFINE D == {q \in Rollout : rollouts[q].modTime > 0}
           f == [r \in D |-> [session |-> r, modTime |-> rollouts[r].modTime]]
<1>1. IsFiniteSet(D)
  BY FS_Subset, DiscoveryAssumption
<1>2. f \in Surjection(D, Walk)
  BY DEF Surjection, Walk
<1>3. IsFiniteSet(Walk)
  BY <1>1, <1>2, FS_Surjection
<1>4. \A r \in Walk : r.modTime \in Nat
  BY DEF Walk, RolloutInv
<1> QED  BY <1>3, <1>4 DEF Timed

CodexRefs == {[session |-> w.session, modTime |-> w.modTime, title |-> rollouts[w.session].title] :
                 w \in walked}

LEMMA CodexRefsTimed == Timed(walked) => Timed(CodexRefs)
<1> SUFFICES ASSUME Timed(walked) PROVE Timed(CodexRefs)
  OBVIOUS
<1> DEFINE f == [w \in walked |-> [session |-> w.session, modTime |-> w.modTime,
                                  title |-> rollouts[w.session].title]]
<1>1. f \in Surjection(walked, CodexRefs)
  BY DEF Surjection, CodexRefs
<1>2. IsFiniteSet(CodexRefs)
  BY <1>1, FS_Surjection DEF Timed
<1>3. \A r \in CodexRefs : r.modTime \in Nat
  BY DEF CodexRefs, Timed
<1> QED  BY <1>2, <1>3 DEF Timed

(* A provider's answer is cut from what is added to `found`.               *)
LEMMA GatherNewest ==
    ASSUME NEW S, Timed(S), Gather(S)
    PROVE  \E S2 : \E R2 \in Newest(S2) :
               Timed(S2) /\ found' = found \cup S2 /\ refs' = refs \cup R2
<1> DEFINE S2 == {r \in S : r.title \in Wanted}
<1>1. found' = found \cup S2 /\ \E R \in Newest(S2) : refs' = refs \cup R
  BY DEF Gather, Answer
<1>2. Timed(S2)
  BY TimedSubset
<1> QED  BY <1>1, <1>2

LEMMA AskKeeps ==
    ASSUME QueryInv, ClockInv, RolloutInv, Asking PROVE QueryInv'
<1>1. CASE AskClaude(ClaudeRefs)
  <2>1. phase = "claude" /\ phase' = "codex" /\ walked' = walked /\ refs = {} /\ found = {}
    BY <1>1 DEF AskClaude, QueryInv
  <2>2. Timed(found') /\ refs' \in Newest(found')
    <3>1. CASE Gather(ClaudeRefs)
      BY <2>1, <3>1, GatherNewest, ClaudeRefsTimed
    <3>2. CASE Skip
      BY <2>1, <3>2, EmptyNewest DEF Skip
    <3> QED  BY <1>1, <3>1, <3>2 DEF AskClaude
  <2> QED  BY <2>1, <2>2 DEF QueryInv, LimitExact, Timed, Newest
<1>2. CASE WalkRollouts(Walk)
  BY <1>2, WalkTimed DEF WalkRollouts, QueryInv, LimitExact, Timed, Newest
<1>3. CASE AskCodex(CodexRefs)
  <2>1. /\ phase = "rollouts" /\ phase' = "merge" /\ walked' = walked
        /\ Timed(walked) /\ Timed(found) /\ refs \in Newest(found)
    BY <1>3 DEF AskCodex, QueryInv
  <2>2. \E S2 : \E R2 \in Newest(S2) :
            Timed(S2) /\ found' = found \cup S2 /\ refs' = refs \cup R2
    <3>1. CASE Gather(CodexRefs)
      BY <2>1, <3>1, GatherNewest, CodexRefsTimed
    <3>2. CASE Skip
      BY <3>2, EmptyNewest DEF Skip
    <3> QED  BY <1>3, <3>1, <3>2 DEF AskCodex
  <2>3. Merged'
    BY <2>1, <2>2 DEF Merged, Timed, Newest
  <2> QED  BY <2>1, <2>3 DEF QueryInv, LimitExact, Timed
<1>4. CASE Merge
  <2>1. /\ phase = "merge" /\ phase' = "done" /\ walked' = walked /\ found' = found
        /\ refs' \in Newest(refs) /\ Timed(walked) /\ Merged
    BY <1>4 DEF Merge, QueryInv
  <2>2. refs' \in Newest(found)
    BY <2>1, NewestMerges DEF Merged
  <2> QED  BY <2>1, <2>2 DEF QueryInv, LimitExact, Timed, Newest
<1> QED  BY <1>1, <1>2, <1>3, <1>4 DEF Asking, Walk, CodexRefs

LEMMA QueryUnchanged == QueryInv /\ UNCHANGED query => QueryInv'
  BY DEF query, QueryInv, LimitExact, Merged, Timed, Newest

SystemInv == CacheInv /\ RolloutInv /\ QueryInv

LEMMA SystemKeeps == SystemInv /\ [Next]_vars => SystemInv'
<1> SUFFICES ASSUME SystemInv, [Next]_vars PROVE RolloutInv' /\ QueryInv'
  BY SystemStepKeeps DEF SystemInv
<1> USE DEF SystemInv
<1>1. CASE Claude
  <2>1. UNCHANGED query /\ UNCHANGED rollouts
    BY <1>1 DEF Claude, Speak, Flush, Say, Start, Rename, Process, query
  <2> QED  BY <2>1, QueryUnchanged DEF RolloutInv
<1>2. CASE Codex
  <2>1. UNCHANGED query
    BY <1>2 DEF Codex, CodexWrites, query
  <2>2. now \in Nat
    BY DEF CacheInv, ClockInv
  <2>3. RolloutInv'
    BY <1>2, <2>2 DEF Codex, CodexWrites, RolloutInv
  <2> QED  BY <2>1, <2>3, QueryUnchanged
<1>3. CASE Picking
  BY <1>3, QueryUnchanged DEF Picking, RolloutInv
<1>4. CASE Asking
  BY <1>4, AskKeeps DEF Asking, CacheInv, RolloutInv
<1>5. CASE UNCHANGED vars
  BY <1>5, QueryUnchanged DEF vars, RolloutInv
<1> QED  BY <1>1, <1>2, <1>3, <1>4, <1>5 DEF Next

(* Whatever the limit, the sessions and the rollouts, a limited discovery  *)
(* returns the newest of all that the providers found.                     *)
THEOREM Spec_LimitExact == Spec => []LimitExact
<1>1. Init => SystemInv
  <2>1. Init => RolloutInv
    BY DEF Init, RolloutInv
  <2>2. Init => QueryInv
    BY EmptyNewest DEF Init, QueryInit, QueryInv, LimitExact
  <2> QED  BY <2>1, <2>2, CacheInit_Inv DEF Init, SystemInv
<1>2. SystemInv => LimitExact
  BY DEF SystemInv, QueryInv
<1> QED  BY <1>1, <1>2, SystemKeeps, PTL DEF Spec

----------------------------------------------------------------------------
(* What a listing shows.  While it runs, the file it has taken the time of *)
(* is as it was unless it has been written since; and what it would take   *)
(* from the cache for that time is what the file held since it began.      *)

(* A verdict of the meta m that a listing takes now, for a file with the   *)
(* time t, has been true since it began.                                   *)
Seen(was, m, t) ==
    m \in was.metas /\ (m.isOngoing /\ Fresh(t) => TRUE \in was.ongoing)

LookInv(i, s) ==
    LET was == since[i][s]
        t   == listed[i][s]
    IN  /\ t \in Nat /\ t <= mtime[s] /\ (t # mtime[s] => was.written)
        /\ ScanMetadata(lines[s]) \in was.metas
        /\ OngoingNow(s) \in was.ongoing
        /\ cache[s] # NoEntry /\ cache[s].ok /\ cache[s].modTime = t /\ cache[s].at # t
              => Seen(was, cache[s].meta, t)

RowInv(i, r) ==
    LET s   == r.session
        was == since[i][s]
    IN  r.sure =>
            /\ r.meta \in was.metas
            /\ r.ongoing => TRUE \in was.ongoing
            /\ ~ r.ongoing /\ ~ was.written => ~ (ScanMetadata(lines[s]).isOngoing /\ Fresh(mtime[s]))

ShownInv(i, r) ==
    LET was == since[i][r.session]
    IN  r.sure => /\ r.meta \in was.metas
                  /\ r.ongoing \in was.ongoing \/ (~ r.ongoing /\ was.written)

RowForm(r) ==
    r = [session |-> r.session, meta |-> r.meta, ongoing |-> r.ongoing, sure |-> r.sure]

ListOk(i) ==
    /\ listed[i] = <<>> => \A s \in Session : since[i][s] = Unseen
    /\ listed[i] = <<>> => todo[i] = {} /\ row[i] = NoEntry /\ rows[i] = {}
    /\ listed[i] # <<>> => \A s \in Session : LookInv(i, s)
    /\ row[i] # NoEntry => row[i].session \in Session /\ RowForm(row[i]) /\ RowInv(i, row[i])
    /\ \A r \in rows[i] : r.session \in Session /\ ShownInv(i, r)

LineInv == \A s \in Session : lines[s] \in Seq(Line) /\ (lines[s] # <<>> => mtime[s] > 0)

ListInv ==
    /\ DOMAIN row = Picker /\ DOMAIN rows = Picker
    /\ \A i \in Picker : ListOk(i)

(* What a step of any part of the system does to the files and the clock.  *)
Moves ==
    /\ now' \in Nat /\ now <= now'
    /\ \A s \in Session : /\ mtime'[s] \in Nat /\ mtime[s] <= mtime'[s]
                          /\ mtime'[s] # mtime[s] => lines'[s] # lines[s]

CacheMoves ==
    \A s \in Session :
        \/ cache'[s] = cache[s]
        \/ UNCHANGED world /\ \E m, ok : cache'[s] = Cached(s, m, ok)

LEMMA WitnessFacts ==
    ASSUME Witness, NEW i \in Picker, NEW s \in Session
    PROVE  /\ listed'[i] = <<>> => since'[i][s] = Unseen
           /\ listed'[i] # <<>> =>
                /\ since'[i][s].metas = since[i][s].metas \cup {ScanMetadata(lines'[s])}
                /\ since'[i][s].ongoing = since[i][s].ongoing \cup {OngoingNow(s)'}
                /\ since'[i][s].written <=>
                       since[i][s].written \/ (listed[i] # <<>> /\ lines'[s] # lines[s])
<1> QED  BY DEF Witness

LEMMA TrueNow ==
    ASSUME NEW s, NEW S, OngoingNow(s) \in S
    PROVE  /\ OngoingNow(s) => TRUE \in S
           /\ ~ OngoingNow(s) => FALSE \in S
<1>1. OngoingNow(s) = TRUE \/ OngoingNow(s) = FALSE
  BY DEF OngoingNow
<1> QED  BY <1>1

(* A meta that the file gives now, for a time that is not later.           *)
LEMMA SeenNow ==
    ASSUME CacheInv, NEW s \in Session, NEW was, NEW t \in Nat, t <= mtime[s],
           ScanMetadata(lines[s]) \in was.metas, OngoingNow(s) \in was.ongoing
    PROVE  Seen(was, ScanMetadata(lines[s]), t)
<1>1. Fresh(t) => Fresh(mtime[s])
  BY CacheAssumption DEF CacheInv, ClockInv, Fresh
<1>2. ScanMetadata(lines[s]).isOngoing /\ Fresh(t) => OngoingNow(s)
  BY <1>1 DEF OngoingNow
<1>3. OngoingNow(s) => TRUE \in was.ongoing
  BY TrueNow
<1> QED  BY <1>2, <1>3 DEF Seen

LEMMA LaterBound ==
    ASSUME NEW t \in Nat, NEW m \in Nat, NEW n \in Nat, m <= n, NEW k \in Nat
    PROVE  n - t <= k => m - t <= k
<1> QED  OBVIOUS

LEMMA FreshBefore ==
    ASSUME CacheInv, Moves, NEW t \in Nat
    PROVE  Fresh(t)' => Fresh(t)
<1>1. now \in Nat /\ now' \in Nat /\ now <= now' /\ Threshold \in Nat
  BY CacheAssumption DEF CacheInv, ClockInv, Moves
<1> QED  BY <1>1, LaterBound DEF Fresh

(* What has been seen stays seen.                                          *)
LEMMA SeenStays ==
    ASSUME CacheInv, Moves, NEW was, NEW is, NEW m, NEW t \in Nat, Seen(was, m, t),
           was.metas \subseteq is.metas, was.ongoing \subseteq is.ongoing
    PROVE  Seen(is, m, t)'
<1> QED  BY FreshBefore DEF Seen

(* While a listing goes on, what it knows of a file stays right.           *)
LEMMA LookKeeps ==
    ASSUME CacheInv, Moves, CacheMoves, Witness,
           NEW i \in Picker, NEW s \in Session, LookInv(i, s),
           listed[i] # <<>>, listed'[i] = listed[i]
    PROVE  LookInv(i, s)'
<1>1. PICK was, is, t : was = since[i][s] /\ is = since'[i][s] /\ t = listed[i][s]
  OBVIOUS
<1>2. /\ is.metas = was.metas \cup {ScanMetadata(lines'[s])}
      /\ is.ongoing = was.ongoing \cup {OngoingNow(s)'}
      /\ is.written <=> was.written \/ lines'[s] # lines[s]
  BY <1>1, WitnessFacts, Zenon
<1>3. /\ t \in Nat /\ t <= mtime[s] /\ (t # mtime[s] => was.written)
      /\ mtime[s] \in Nat /\ mtime'[s] \in Nat /\ mtime[s] <= mtime'[s]
      /\ mtime'[s] # mtime[s] => lines'[s] # lines[s]
  BY <1>1 DEF LookInv, CacheInv, ClockInv, Moves
<1>4. t <= mtime'[s] /\ (t # mtime'[s] => is.written)
  BY <1>2, <1>3
<1>5. ASSUME cache'[s] # NoEntry, cache'[s].ok, cache'[s].modTime = t, cache'[s].at # t
      PROVE  Seen(is, cache[s].meta, t)'
  <2>1. ASSUME cache'[s] = cache[s] PROVE Seen(was, cache'[s].meta, t)
    <3>1. /\ cache[s] # NoEntry /\ cache[s].ok /\ cache[s].modTime = t /\ cache[s].at # t
             => Seen(was, cache[s].meta, t)
      BY <1>1, Zenon DEF LookInv
    <3>2. Seen(was, cache[s].meta, t)
      BY <1>5, <2>1, <3>1, Zenon
    <3> QED  BY <2>1, <3>2, Zenon
  <2>2. ASSUME UNCHANGED world, \E m, ok : cache'[s] = Cached(s, m, ok)
        PROVE  Seen(was, cache'[s].meta, t)
    <3>1. cache'[s].meta = ScanMetadata(lines[s])
      <4>1. lines' = lines
        BY <2>2 DEF world
      <4>2. PICK m, ok : cache'[s] = Cached(s, m, ok)
        BY <2>2
      <4>3. /\ Cached(s, m, ok).ok = ok
            /\ Cached(s, m, ok).meta = IF ok THEN ScanMetadata(lines[s]) ELSE ZeroMeta
        BY DEF Cached
      <4> QED  BY <1>5, <4>2, <4>3, Zenon
    <3>2. Seen(was, ScanMetadata(lines[s]), t)
      BY <1>1, <1>3, SeenNow DEF LookInv
    <3> QED  BY <3>1, <3>2, Zenon
  <2>3. Seen(was, cache'[s].meta, t)
    BY <2>1, <2>2 DEF CacheMoves
  <2>4. was.metas \subseteq is.metas /\ was.ongoing \subseteq is.ongoing
    BY <1>2
  <2>5. PICK m : m = cache'[s].meta
    OBVIOUS
  <2> QED  BY <1>3, <2>3, <2>4, <2>5, SeenStays
<1>6. t = listed'[i][s] /\ is = since'[i][s]
  BY <1>1
<1> QED  BY <1>2, <1>3, <1>4, <1>5, <1>6 DEF LookInv


LEMMA RowKeeps ==
    ASSUME CacheInv, Moves, Witness, NEW i \in Picker, NEW r, r.session \in Session,
           RowInv(i, r), listed[i] # <<>>, listed'[i] = listed[i]
    PROVE  RowInv(i, r)'
<1>1. PICK s, was, is : s \in Session /\ s = r.session /\ was = since[i][s] /\ is = since'[i][s]
  OBVIOUS
<1>2. /\ is.metas = was.metas \cup {ScanMetadata(lines'[s])}
      /\ is.ongoing = was.ongoing \cup {OngoingNow(s)'}
      /\ is.written <=> was.written \/ lines'[s] # lines[s]
  BY <1>1, WitnessFacts, Zenon
<1> SUFFICES ASSUME r.sure
             PROVE  /\ r.meta \in is.metas
                    /\ r.ongoing => TRUE \in is.ongoing
                    /\ ~ r.ongoing /\ ~ is.written
                          => ~ (ScanMetadata(lines'[s]).isOngoing /\ Fresh(mtime[s])')
  BY <1>1, Zenon DEF RowInv
<1>3. /\ r.meta \in was.metas
      /\ r.ongoing => TRUE \in was.ongoing
      /\ ~ r.ongoing /\ ~ was.written => ~ (ScanMetadata(lines[s]).isOngoing /\ Fresh(mtime[s]))
  BY <1>1, Zenon DEF RowInv
<1>4. ASSUME ~ r.ongoing, ~ is.written, ScanMetadata(lines'[s]).isOngoing, Fresh(mtime[s])'
      PROVE  FALSE
  <2>1. ~ was.written /\ lines'[s] = lines[s]
    BY <1>2, <1>4, Zenon
  <2>2. PICK t \in Nat : t = mtime[s] /\ t = mtime'[s]
    BY <1>1, <2>1 DEF Moves
  <2>3. Fresh(t)'
    BY <1>4, <2>2 DEF Fresh
  <2>4. Fresh(mtime[s])
    BY <2>2, <2>3, FreshBefore
  <2> QED  BY <1>3, <1>4, <2>1, <2>4, Zenon
<1> QED  BY <1>2, <1>3, <1>4

LEMMA ShownKeeps ==
    ASSUME Witness, NEW i \in Picker, NEW r, r.session \in Session,
           ShownInv(i, r), listed[i] # <<>>, listed'[i] = listed[i]
    PROVE  ShownInv(i, r)'
<1>1. PICK s, was, is : s \in Session /\ s = r.session /\ was = since[i][s] /\ is = since'[i][s]
  OBVIOUS
<1>2. /\ is.metas = was.metas \cup {ScanMetadata(lines'[s])}
      /\ is.ongoing = was.ongoing \cup {OngoingNow(s)'}
      /\ is.written <=> was.written \/ lines'[s] # lines[s]
  BY <1>1, WitnessFacts, Zenon
<1>3. r.sure => /\ r.meta \in was.metas
                /\ r.ongoing \in was.ongoing \/ (~ r.ongoing /\ was.written)
  BY <1>1, Zenon DEF ShownInv
<1>4. was.metas \subseteq is.metas /\ was.ongoing \subseteq is.ongoing /\ (was.written => is.written)
  BY <1>2
<1>5. r.sure => /\ r.meta \in is.metas
                /\ r.ongoing \in is.ongoing \/ (~ r.ongoing /\ is.written)
  BY <1>3, <1>4, Zenon
<1> QED  BY <1>1, <1>5, Zenon DEF ShownInv

(* A listing that does not act itself.                                     *)
LEMMA OthersKeep ==
    ASSUME CacheInv, Moves, CacheMoves, Witness, NEW i \in Picker, ListOk(i),
           listed'[i] = listed[i], todo'[i] = todo[i], row'[i] = row[i], rows'[i] = rows[i]
    PROVE  ListOk(i)'
<1>1. CASE listed[i] = <<>>
  <2>1. \A s \in Session : since'[i][s] = Unseen
    BY <1>1, WitnessFacts
  <2> QED  BY <1>1, <2>1 DEF ListOk
<1>2. CASE listed[i] # <<>>
  <2>1. \A s \in Session : LookInv(i, s)'
    BY <1>2, LookKeeps DEF ListOk
  <2>2. row'[i] # NoEntry => /\ row'[i].session \in Session /\ RowForm(row'[i])
                             /\ RowInv(i, row[i])'
    <3>1. PICK r : r = row[i] /\ r = row'[i]
      OBVIOUS
    <3>2. r # NoEntry => r.session \in Session /\ RowForm(r) /\ RowInv(i, r)
      BY <3>1 DEF ListOk
    <3>3. r # NoEntry => RowInv(i, r)'
      BY <1>2, <3>2, RowKeeps
    <3> QED  BY <3>1, <3>2, <3>3
  <2>3. ASSUME NEW r \in rows'[i]
        PROVE  r.session \in Session /\ ShownInv(i, r)'
    <3>1. r.session \in Session /\ ShownInv(i, r)
      BY <2>3 DEF ListOk
    <3> QED  BY <1>2, <3>1, ShownKeeps
  <2>4. listed'[i] # <<>>
    BY <1>2
  <2> QED  BY <2>1, <2>2, <2>3, <2>4 DEF ListOk
<1> QED  BY <1>1, <1>2


LEMMA StillMoves == CacheInv /\ UNCHANGED world => Moves
  BY DEF CacheInv, ClockInv, Moves, world

LEMMA ListLists ==
    ASSUME CacheInv, Witness, NEW i \in Picker, ListOk(i), List(i)
    PROVE  ListOk(i)'
<1>1. /\ listed[i] = <<>> /\ listed'[i] = mtime
      /\ todo'[i] = {s \in Session : mtime[s] > 0}
      /\ row' = row /\ rows' = rows /\ cache' = cache
      /\ now' = now /\ lines' = lines /\ mtime' = mtime /\ wfWrite' = wfWrite
  BY DEF List, world, CacheInv, FormInv
<1>2. row'[i] = NoEntry /\ rows'[i] = {}
  BY <1>1 DEF ListOk
<1>3. CASE mtime = <<>>
  <2>1. Session = {}
    <3>1. DOMAIN mtime = Session
      BY DEF CacheInv, ClockInv
    <3>2. DOMAIN <<>> = {}
      OBVIOUS
    <3> QED  BY <1>3, <3>1, <3>2
  <2>2. todo'[i] = {}
    BY <1>1, <2>1
  <2> QED  BY <1>1, <1>2, <2>1, <2>2 DEF ListOk
<1>4. CASE mtime # <<>>
  <2>1. ASSUME NEW s \in Session PROVE LookInv(i, s)'
    <3>1. PICK is, t : is = since'[i][s] /\ t = mtime[s] /\ t = listed'[i][s] /\ t = mtime'[s]
      BY <1>1
    <3>2. t \in Nat /\ t <= t
      <4>1. mtime[s] \in Nat
        BY DEF CacheInv, ClockInv
      <4>2. \A n \in Nat : n <= n
        OBVIOUS
      <4> QED  BY <3>1, <4>1, <4>2, Zenon
    <3>3. is.metas = since[i][s].metas \cup {ScanMetadata(lines'[s])}
          /\ is.ongoing = since[i][s].ongoing \cup {OngoingNow(s)'}
      BY <1>1, <1>4, <3>1, WitnessFacts
    <3>4. OngoingNow(s)' <=> OngoingNow(s)
      BY <1>1 DEF OngoingNow, Fresh, WorkflowActive
    <3>5. OngoingNow(s)' = OngoingNow(s)
      BY <1>1 DEF OngoingNow, Fresh, WorkflowActive
    <3>6. ScanMetadata(lines[s]) \in is.metas /\ OngoingNow(s) \in is.ongoing
      BY <1>1, <3>3, <3>5
    <3>7. Seen(is, ScanMetadata(lines[s]), t)
      BY <3>1, <3>2, <3>6, SeenNow
    <3>8. ASSUME cache'[s] # NoEntry, cache'[s].ok, cache'[s].modTime = t, cache'[s].at # t
          PROVE  Seen(is, cache[s].meta, t)'
      <4>1. cache[s].meta = ScanMetadata(lines[s])
        BY <1>1, <3>1, <3>8 DEF CacheInv, CacheSound
      <4>2. PICK m : m = cache[s].meta /\ m = cache'[s].meta
        BY <1>1
      <4>3. Seen(is, m, t)
        BY <3>7, <4>1, <4>2
      <4> QED  BY <3>2, <4>2, <4>3, <1>1, SeenStays, StillMoves DEF world
    <3> QED  BY <3>1, <3>2, <3>3, <3>8 DEF LookInv
  <2> QED  BY <1>1, <1>2, <1>4, <2>1 DEF ListOk
<1> QED  BY <1>3, <1>4

(* The row that a scan or the cache gives.                                 *)
LEMMA RowSeen ==
    ASSUME CacheInv, NEW i \in Picker, NEW s \in Session, LookInv(i, s), NEW ok \in BOOLEAN,
           NEW hit, hit <=> Hit(s, listed[i][s]),
           NEW e, e = IF hit THEN cache[s] ELSE Cached(s, listed[i][s], ok)
    PROVE  RowInv(i, Row(i, s, e, hit))
<1>1. PICK was, t : was = since[i][s] /\ t = listed[i][s]
  OBVIOUS
<1>2. /\ t \in Nat /\ t <= mtime[s] /\ (t # mtime[s] => was.written)
      /\ ScanMetadata(lines[s]) \in was.metas /\ OngoingNow(s) \in was.ongoing
      /\ cache[s] # NoEntry /\ cache[s].ok /\ cache[s].modTime = t /\ cache[s].at # t
            => Seen(was, cache[s].meta, t)
  BY <1>1, Zenon DEF LookInv
<1> DEFINE r == Row(i, s, e, hit)
<1>3. /\ r.session = s /\ r.meta = e.meta
      /\ r.ongoing <=> e.meta.isOngoing /\ Fresh(t)
      /\ r.sure <=> Sure(e, hit)
  BY <1>1 DEF Row
<1> HIDE DEF r
<1>4. ASSUME Sure(e, hit)
      PROVE  Seen(was, e.meta, t) /\ (t = mtime[s] => e.meta = ScanMetadata(lines[s]))
  <2>1. CASE hit
    <3>1. e = cache[s]
      BY <2>1
    <3>2. cache[s] # NoEntry /\ cache[s].modTime = t
      BY <1>1, <2>1 DEF Hit
    <3>3. cache[s].ok /\ cache[s].at # t
      BY <1>4, <2>1, <3>1, <3>2, Zenon DEF Sure
    <3>4. t = mtime[s] => cache[s].meta = ScanMetadata(lines[s])
      BY <3>2, <3>3 DEF CacheInv, CacheSound
    <3> QED  BY <1>2, <3>1, <3>2, <3>3, <3>4, Zenon
  <2>2. CASE ~ hit
    <3>1. e = Cached(s, t, ok)
      BY <1>1, <2>2
    <3>2. e.ok = ok /\ e.meta = IF ok THEN ScanMetadata(lines[s]) ELSE ZeroMeta
      BY <3>1 DEF Cached
    <3>3. e.meta = ScanMetadata(lines[s])
      BY <1>4, <3>2, Zenon DEF Sure
    <3>4. Seen(was, ScanMetadata(lines[s]), t)
      BY <1>2, SeenNow
    <3> QED  BY <3>3, <3>4, Zenon
  <2> QED  BY <2>1, <2>2
<1>5. ASSUME r.sure
      PROVE  /\ r.meta \in was.metas
             /\ r.ongoing => TRUE \in was.ongoing
             /\ ~ r.ongoing /\ ~ was.written => ~ (ScanMetadata(lines[s]).isOngoing /\ Fresh(mtime[s]))
  <2>1. Seen(was, e.meta, t) /\ (t = mtime[s] => e.meta = ScanMetadata(lines[s]))
    BY <1>3, <1>4, <1>5
  <2>2. ASSUME ~ r.ongoing, ~ was.written
        PROVE  ~ (ScanMetadata(lines[s]).isOngoing /\ Fresh(mtime[s]))
    BY <1>2, <1>3, <2>1, <2>2, Zenon
  <2>3. r.meta \in was.metas /\ (r.ongoing => TRUE \in was.ongoing)
    BY <1>3, <2>1, Zenon DEF Seen
  <2> QED  BY <2>2, <2>3, Zenon
<1>6. since[i][r.session] = was /\ r.session = s
  BY <1>1, <1>3
<1> QED  BY <1>5, <1>6, Zenon DEF RowInv, r


LEMMA ScanListed ==
    ASSUME CacheInv, CacheMoves, Witness, NEW i \in Picker, NEW s \in Session,
           DOMAIN row = Picker, ListOk(i), GetOrScan(i, s)
    PROVE  ListOk(i)'
<1>1. /\ s \in todo[i] /\ row[i] = NoEntry
      /\ UNCHANGED world /\ listed' = listed /\ rows' = rows
  BY DEF GetOrScan
<1>2. listed[i] # <<>>
  BY <1>1 DEF ListOk
<1>3. Moves
  BY <1>1, StillMoves
<1>4. \A q \in Session : LookInv(i, q)'
  BY <1>1, <1>2, <1>3, LookKeeps DEF ListOk
<1>5. \A r \in rows[i] : r.session \in Session /\ ShownInv(i, r)'
  BY <1>1, <1>2, ShownKeeps DEF ListOk
<1>6. ASSUME row'[i] # NoEntry
      PROVE  row'[i].session \in Session /\ RowForm(row'[i]) /\ RowInv(i, row[i])'
  <2>1. PICK ok \in BOOLEAN :
          LET hit == Hit(s, listed[i][s])
              e   == IF hit THEN cache[s] ELSE Cached(s, listed[i][s], ok)
          IN  row' = IF e.meta.turns THEN [row EXCEPT ![i] = Row(i, s, e, hit)] ELSE row
    BY DEF GetOrScan
  <2>2. PICK hit : hit = Hit(s, listed[i][s])
    OBVIOUS
  <2>3. PICK e : e = IF hit THEN cache[s] ELSE Cached(s, listed[i][s], ok)
    OBVIOUS
  <2>4. PICK r : r = Row(i, s, e, hit)
    OBVIOUS
  <2>5. row' = IF e.meta.turns THEN [row EXCEPT ![i] = r] ELSE row
    BY <2>1, <2>2, <2>3, <2>4, Zenon
  <2>6. row'[i] = r
    BY <1>1, <1>6, <2>5
  <2>7. r.session = s /\ RowForm(r)
    BY <2>4 DEF Row, RowForm
  <2>8. hit <=> Hit(s, listed[i][s])
    BY <2>2, Zenon
  <2>9. RowInv(i, Row(i, s, e, hit))
    BY <1>2, <2>3, <2>8, RowSeen DEF ListOk
  <2>10. RowInv(i, r)'
    BY <1>1, <1>2, <1>3, <2>4, <2>7, <2>9, RowKeeps
  <2> QED  BY <2>6, <2>7, <2>10
<1> QED  BY <1>1, <1>2, <1>4, <1>5, <1>6 DEF ListOk

LEMMA AddRowLists ==
    ASSUME CacheInv, CacheMoves, Witness, NEW i \in Picker,
           DOMAIN row = Picker, DOMAIN rows = Picker, ListOk(i), AddRow(i)
    PROVE  ListOk(i)'
<1>1. PICK r : r = row[i]
  OBVIOUS
<1>2. /\ r # NoEntry
      /\ UNCHANGED world /\ listed' = listed /\ todo' = todo
      /\ rows' = [rows EXCEPT ![i] = @ \cup {[r EXCEPT !.ongoing = @ \/ WorkflowActive(r.session)]}]
      /\ row' = [row EXCEPT ![i] = NoEntry]
  BY <1>1 DEF AddRow
<1>3. listed[i] # <<>> /\ r.session \in Session /\ RowForm(r) /\ RowInv(i, r)
  BY <1>1, <1>2 DEF ListOk
<1>4. Moves
  BY <1>2, StillMoves
<1>5. \A q \in Session : LookInv(i, q)'
  BY <1>2, <1>3, <1>4, LookKeeps DEF ListOk
<1>6. \A x \in rows[i] : x.session \in Session /\ ShownInv(i, x)'
  BY <1>2, <1>3, ShownKeeps DEF ListOk
<1>7. PICK s, was : s \in Session /\ s = r.session /\ was = since[i][s]
  BY <1>3
<1>8. PICK a : a = (r.ongoing \/ WorkflowActive(s))
  OBVIOUS
<1>9. PICK x : x = [session |-> s, meta |-> r.meta, ongoing |-> a, sure |-> r.sure]
  OBVIOUS
<1>10. [r EXCEPT !.ongoing = @ \/ WorkflowActive(r.session)] = x
  BY <1>3, <1>7, <1>8, <1>9 DEF RowForm
<1>11. rows'[i] = rows[i] \cup {x} /\ row'[i] = NoEntry
  BY <1>2, <1>10
<1>12. x.session = s /\ x.meta = r.meta /\ x.ongoing = a /\ x.sure = r.sure
  BY <1>9
<1>13. OngoingNow(s) \in was.ongoing
  BY <1>3, <1>7 DEF ListOk, LookInv
<1>14. ASSUME r.sure
       PROVE  r.meta \in was.metas /\ (a \in was.ongoing \/ (~ a /\ was.written))
  <2>1. /\ r.meta \in was.metas
        /\ r.ongoing => TRUE \in was.ongoing
        /\ ~ r.ongoing /\ ~ was.written => ~ (ScanMetadata(lines[s]).isOngoing /\ Fresh(mtime[s]))
    BY <1>3, <1>7, <1>14, Zenon DEF RowInv
  <2>2. CASE a
    <3>1. WorkflowActive(s) => OngoingNow(s)
      BY DEF OngoingNow
    <3>2. TRUE \in was.ongoing
      BY <1>8, <1>13, <2>1, <2>2, <3>1, TrueNow, Zenon
    <3>3. a = TRUE
      BY <1>8, <2>2
    <3> QED  BY <2>1, <3>2, <3>3, Zenon
  <2>3. CASE ~ a
    <3>1. ~ r.ongoing /\ ~ WorkflowActive(s) /\ a = FALSE
      BY <1>8, <2>3
    <3>2. CASE was.written
      BY <2>1, <2>3, <3>2, Zenon
    <3>3. CASE ~ was.written
      <4>1. ~ OngoingNow(s)
        BY <2>1, <3>1, <3>3, Zenon DEF OngoingNow
      <4>2. FALSE \in was.ongoing
        BY <1>13, <4>1, TrueNow, Zenon
      <4> QED  BY <2>1, <3>1, <4>2, Zenon
    <3> QED  BY <3>2, <3>3
  <2> QED  BY <2>2, <2>3
<1>15. ShownInv(i, x)
  BY <1>7, <1>12, <1>14, Zenon DEF ShownInv
<1>16. x.session \in Session /\ ShownInv(i, x)'
  BY <1>2, <1>3, <1>7, <1>12, <1>15, ShownKeeps
<1>17. \A y \in rows'[i] : y.session \in Session /\ ShownInv(i, y)'
  BY <1>6, <1>11, <1>16
<1> QED  BY <1>2, <1>3, <1>5, <1>11, <1>17 DEF ListOk

LEMMA ReturnLists ==
    ASSUME Witness, NEW i \in Picker, DOMAIN rows = Picker, CacheInv, Return(i)
    PROVE  ListOk(i)'
<1>1. /\ listed'[i] = <<>> /\ todo'[i] = {} /\ row'[i] = NoEntry /\ rows'[i] = {}
  BY DEF Return, CacheInv, FormInv
<1>2. \A s \in Session : since'[i][s] = Unseen
  BY <1>1, WitnessFacts
<1> QED  BY <1>1, <1>2 DEF ListOk


ShowInv == LineInv /\ ListInv

(* A write makes the transcript another one.                               *)
LEMMA AppendMoves ==
    ASSUME CacheInv, LineInv, NEW s, NEW l \in Line, AppendTo(s, l)
    PROVE  Moves /\ LineInv'
<1>1. /\ lines' = [lines EXCEPT ![s] = Append(@, l)]
      /\ mtime' = [mtime EXCEPT ![s] = now] /\ now' = now
  BY DEF AppendTo
<1>2. ASSUME NEW t \in Session
      PROVE  /\ mtime'[t] \in Nat /\ mtime[t] <= mtime'[t]
             /\ mtime'[t] # mtime[t] => lines'[t] # lines[t]
             /\ lines'[t] \in Seq(Line) /\ (lines'[t] # <<>> => mtime'[t] > 0)
  <2>1. lines[t] \in Seq(Line) /\ (lines[t] # <<>> => mtime[t] > 0)
    BY DEF LineInv
  <2>2. mtime[t] \in Nat /\ mtime[t] <= now /\ now \in Nat /\ now >= 1
    BY DEF CacheInv, ClockInv
  <2>3. CASE t = s
    <3>1. lines'[t] = Append(lines[t], l) /\ mtime'[t] = now
      BY <1>1, <2>3 DEF CacheInv, ClockInv, FormInv
    <3>2. lines'[t] \in Seq(Line) /\ lines'[t] # lines[t]
      BY <2>1, <3>1, AppendProperties, LenProperties
    <3> QED  BY <2>2, <3>1, <3>2
  <2>4. CASE t # s
    <3>1. lines'[t] = lines[t] /\ mtime'[t] = mtime[t]
      BY <1>1, <2>4 DEF CacheInv, ClockInv, FormInv
    <3> QED  BY <2>1, <2>2, <3>1
  <2> QED  BY <2>3, <2>4
<1>3. now' \in Nat /\ now <= now'
  BY <1>1 DEF CacheInv, ClockInv
<1> QED  BY <1>2, <1>3 DEF Moves, LineInv

(* A step of which the listings know nothing.                              *)
LEMMA WorldShows ==
    ASSUME CacheInv, ListInv, Moves, Witness, UNCHANGED <<cache, list>>
    PROVE  ListInv'
<1>1. CacheMoves
  BY DEF CacheMoves
<1> QED  BY <1>1, OthersKeep DEF ListInv, list

LEMMA AppendShows ==
    ASSUME CacheInv, ShowInv, NEW s, NEW l \in Line, AppendTo(s, l), UNCHANGED <<cache, list>>, Witness
    PROVE  ShowInv'
<1> QED  BY AppendMoves, WorldShows DEF ShowInv

LEMMA RestShows ==
    ASSUME CacheInv, ShowInv, UNCHANGED <<world, cache, list>>, Witness
    PROVE  ShowInv'
<1>1. LineInv'
  BY DEF ShowInv, LineInv, world
<1> QED  BY <1>1, StillMoves, WorldShows DEF ShowInv

LEMMA WorkflowShows ==
    ASSUME CacheInv, ShowInv, NEW s \in Session, WorkflowWrite(s), Witness
    PROVE  ShowInv'
<1>1. now' = now /\ lines' = lines /\ mtime' = mtime /\ UNCHANGED <<cache, list>>
  BY DEF WorkflowWrite
<1>2. LineInv' /\ Moves
  BY <1>1 DEF ShowInv, LineInv, Moves, CacheInv, ClockInv
<1> QED  BY <1>1, <1>2, WorldShows DEF ShowInv

LEMMA TickShows ==
    ASSUME CacheInv, ShowInv, Tick, Witness
    PROVE  ShowInv'
<1>1. now' = now + 1 /\ lines' = lines /\ mtime' = mtime /\ UNCHANGED <<cache, list>>
  BY DEF Tick
<1>2. LineInv' /\ Moves
  BY <1>1 DEF ShowInv, LineInv, Moves, CacheInv, ClockInv
<1> QED  BY <1>1, <1>2, WorldShows DEF ShowInv

LEMMA OneListing ==
    ASSUME CacheInv, ShowInv, Moves, CacheMoves, Witness, NEW i \in Picker, ListOk(i)',
           UNCHANGED <<lines, mtime>>,
           DOMAIN row' = Picker, DOMAIN rows' = Picker,
           \A j \in Picker \ {i} : /\ listed'[j] = listed[j] /\ todo'[j] = todo[j]
                                   /\ row'[j] = row[j] /\ rows'[j] = rows[j]
    PROVE  ShowInv'
<1>1. \A j \in Picker : ListOk(j)'
  BY OthersKeep DEF ShowInv, ListInv
<1> QED  BY <1>1 DEF ShowInv, ListInv, LineInv

LEMMA ListShows ==
    ASSUME CacheInv, ShowInv, NEW i \in Picker, List(i), Witness
    PROVE  ShowInv'
<1>1. CacheMoves /\ Moves
  BY StillMoves DEF List, CacheMoves
<1>2. ListOk(i)'
  BY ListLists DEF ShowInv, ListInv
<1> QED  BY <1>1, <1>2, OneListing DEF List, world, CacheInv, FormInv, ShowInv, ListInv

LEMMA ScanShows ==
    ASSUME CacheInv, ShowInv, NEW i \in Picker, NEW s \in Session, GetOrScan(i, s), Witness
    PROVE  ShowInv'
<1>1. Moves
  BY StillMoves DEF GetOrScan
<1>2. CacheMoves
  <2>1. PICK ok \in BOOLEAN :
          cache' = [cache EXCEPT ![s] = IF Hit(s, listed[i][s]) THEN cache[s]
                                        ELSE Cached(s, listed[i][s], ok)]
    BY DEF GetOrScan
  <2>2. UNCHANGED world
    BY DEF GetOrScan
  <2>3. \A t \in Session : cache'[t] = cache[t] \/ (t = s /\ cache'[s] = Cached(s, listed[i][s], ok))
    BY <2>1 DEF CacheInv, FormInv
  <2> QED  BY <2>2, <2>3 DEF CacheMoves
<1>3. ListOk(i)'
  BY <1>2, ScanListed DEF ShowInv, ListInv
<1>4. \E r : row' = [row EXCEPT ![i] = r] \/ row' = row
  BY DEF GetOrScan
<1>5. /\ DOMAIN row' = Picker
      /\ \A j \in Picker \ {i} : row'[j] = row[j]
  BY <1>4 DEF ShowInv, ListInv
<1> QED  BY <1>1, <1>2, <1>3, <1>5, OneListing DEF GetOrScan, world, CacheInv, FormInv, ShowInv, ListInv

LEMMA AddShows ==
    ASSUME CacheInv, ShowInv, NEW i \in Picker, AddRow(i), Witness
    PROVE  ShowInv'
<1>1. CacheMoves /\ Moves
  BY StillMoves DEF AddRow, CacheMoves
<1>2. ListOk(i)'
  BY <1>1, AddRowLists DEF ShowInv, ListInv
<1> QED  BY <1>1, <1>2, OneListing DEF AddRow, world, ShowInv, ListInv

LEMMA ReturnShows ==
    ASSUME CacheInv, ShowInv, NEW i \in Picker, Return(i), Witness
    PROVE  ShowInv'
<1>1. CacheMoves /\ Moves
  BY StillMoves DEF Return, CacheMoves
<1>2. ListOk(i)'
  BY ReturnLists DEF ShowInv, ListInv
<1> QED  BY <1>1, <1>2, OneListing DEF Return, world, CacheInv, FormInv, ShowInv, ListInv

LEMMA CacheStepShows ==
    ASSUME CacheInv, ShowInv, CacheStep, Witness
    PROVE  ShowInv'
<1>1. CASE \E s \in Session : WriteLine(s)
  BY <1>1, AppendShows DEF WriteLine
<1>2. CASE \E s \in Session : WorkflowWrite(s)
  BY <1>2, WorkflowShows
<1>3. CASE Tick
  BY <1>3, TickShows
<1>4. CASE \E i \in Picker : List(i)
  BY <1>4, ListShows
<1>5. CASE \E i \in Picker, s \in Session : GetOrScan(i, s)
  BY <1>5, ScanShows
<1>6. CASE \E i \in Picker : AddRow(i)
  BY <1>6, AddShows
<1>7. CASE \E i \in Picker : Return(i)
  BY <1>7, ReturnShows
<1> QED  BY <1>1, <1>2, <1>3, <1>4, <1>5, <1>6, <1>7 DEF CacheStep

LEMMA StillShows ==
    ASSUME ShowInv, UNCHANGED cacheVars
    PROVE  ShowInv'
<1>1. LineInv'
  BY DEF cacheVars, world, ShowInv, LineInv
<1>2. /\ now' = now /\ lines' = lines /\ mtime' = mtime /\ wfWrite' = wfWrite /\ cache' = cache
      /\ listed' = listed /\ todo' = todo /\ row' = row /\ rows' = rows /\ since' = since
  BY DEF cacheVars, world, list
<1>3. ASSUME NEW i \in Picker PROVE ListOk(i)'
  BY <1>2 DEF ShowInv, ListInv, ListOk, LookInv, RowInv, ShownInv, Seen, OngoingNow, Fresh, WorkflowActive
<1>4. DOMAIN row' = Picker /\ DOMAIN rows' = Picker
  BY <1>2 DEF ShowInv, ListInv
<1> QED  BY <1>1, <1>3, <1>4 DEF ShowInv, ListInv

LEMMA CacheInit_Shows == CacheInit => ShowInv
<1> SUFFICES ASSUME CacheInit PROVE ShowInv
  OBVIOUS
<1>1. LineInv
  BY EmptySeq DEF CacheInit, LineInv
<1>2. \A i \in Picker : ListOk(i)
  BY DEF CacheInit, ListOk
<1> QED  BY <1>1, <1>2 DEF CacheInit, ShowInv, ListInv

LEMMA ShowsTrue == ShowInv => ListingTrue
  BY DEF ShowInv, ListInv, ListOk, ShownInv, ListingTrue

(* However many listings share the cache, and whatever is written while    *)
(* they go on, every session is shown as it was since the listing began.   *)
THEOREM CacheSpec_ListingTrue == CacheSpec => []ListingTrue
<1>1. CacheInit => CacheInv /\ ShowInv
  BY CacheInit_Inv, CacheInit_Shows
<1>2. CacheInv /\ ShowInv /\ [CacheNext]_cacheVars => (CacheInv /\ ShowInv)'
  <2>1. CacheInv /\ ShowInv /\ CacheNext => (CacheInv /\ ShowInv)'
    BY CacheStepKeeps, CacheStepShows DEF CacheNext
  <2>2. CacheInv /\ ShowInv /\ UNCHANGED cacheVars => (CacheInv /\ ShowInv)'
    BY CoreUnchanged, StillShows DEF cacheVars, core, world, list
  <2> QED  BY <2>1, <2>2
<1> QED  BY <1>1, <1>2, ShowsTrue, PTL DEF CacheSpec


LEMMA SystemStepShows ==
    ASSUME CacheInv, ShowInv, [Next]_vars
    PROVE  ShowInv'
<1>1. CASE Claude /\ Witness
  <2>1. ASSUME NEW s, NEW l \in Line, Say(s, l) PROVE ShowInv'
    BY <1>1, <2>1, AppendShows DEF Say, local
  <2>2. \A t \in Title : [kind |-> "custom", title |-> t] \in Line
    BY DEF Line
  <2>3. ASSUME NEW s \in Session, Speak(s) PROVE ShowInv'
    BY <2>1, <2>3 DEF Speak
  <2>4. ASSUME NEW s \in Session, Flush(s) PROVE ShowInv'
    BY <2>1, <2>2, <2>4, NamesAssumption DEF Flush
  <2>5. ASSUME NEW s \in Session, NEW p \in Pid, Start(p, s) PROVE ShowInv'
    BY <1>1, <2>5, RestShows DEF Start, local
  <2>6. ASSUME NEW p \in Pid, Process(p) PROVE ShowInv'
    BY <1>1, <2>6, RestShows DEF Process, local
  <2>7. ASSUME NEW p \in Pid, Rename(p) PROVE ShowInv'
    <3>1. PICK name \in Title : AppendTo(files[p].session, [kind |-> "custom", title |-> name])
      BY <2>7 DEF Rename
    <3>2. UNCHANGED <<cache, list>>
      BY <2>7 DEF Rename, local
    <3> QED  BY <1>1, <2>2, <3>1, <3>2, AppendShows
  <2> QED  BY <1>1, <2>3, <2>4, <2>5, <2>6, <2>7 DEF Claude
<1>2. CASE Codex /\ Witness
  BY <1>2, RestShows DEF Codex, CodexWrites, local
<1>3. CASE Picking /\ Witness
  <2>1. CacheStep
    BY <1>3 DEF Picking, CacheStep
  <2> QED  BY <1>3, <2>1, CacheStepShows
<1>4. CASE Asking /\ Witness
  BY <1>4, RestShows DEF Asking, local
<1>5. CASE UNCHANGED vars
  BY <1>5, StillShows DEF vars
<1> QED  BY <1>1, <1>2, <1>3, <1>4, <1>5 DEF Next

(* The same with names, processes and other providers around.              *)
THEOREM Spec_ListingTrue == Spec => []ListingTrue
<1>1. Init => CacheInv /\ ShowInv
  BY CacheInit_Inv, CacheInit_Shows DEF Init
<1>2. CacheInv /\ ShowInv /\ [Next]_vars => (CacheInv /\ ShowInv)'
  BY SystemStepKeeps, SystemStepShows
<1> QED  BY <1>1, <1>2, ShowsTrue, PTL DEF Spec

----------------------------------------------------------------------------
(* The last title of a transcript. *)

LEMMA GreatestExists ==
    ASSUME NEW m \in Nat, NEW S \in SUBSET (0 .. m), S # {}
    PROVE  \E x \in S : \A k \in S : k <= x
<1> DEFINE T == {m - k : k \in S}
<1>1. \A k \in S : k \in 0 .. m
  OBVIOUS
<1>2. T \subseteq Nat /\ T # {}
  <2>1. \A k \in S : m - k \in Nat
    BY <1>1
  <2> QED  BY <2>1
<1>3. \E n \in T : \A k \in T : ~ (<<k, n>> \in OpToRel(<, Nat))
  BY <1>2, NatLessThanWellFounded, WFMin, Zenon
<1>4. PICK n \in T : \A k \in T : ~ (k < n)
  BY <1>2, <1>3 DEF OpToRel
<1>5. PICK x \in S : n = m - x
  BY <1>4
<1>6. ASSUME NEW k \in S PROVE k <= x
  <2>1. m - k \in T /\ m - k \in Int /\ n \in Int
    BY <1>1, <1>2, <1>4
  <2>2. ~ (m - k < n)
    BY <2>1, <1>4
  <2> QED  BY <1>1, <1>5, <2>1, <2>2
<1> QED  BY <1>6

LEMMA LastOfIs ==
    ASSUME NEW d \in Seq(Line), NEW K
    PROVE  LET I == {0} \cup {i \in 1 .. Len(d) : d[i].kind \in K}
           IN  LastOf(d, K) \in I /\ \A j \in I : j <= LastOf(d, K)
<1> DEFINE I == {0} \cup {i \in 1 .. Len(d) : d[i].kind \in K}
<1>1. Len(d) \in Nat
  BY LenProperties
<1>2. I \in SUBSET (0 .. Len(d)) /\ I # {}
  BY <1>1
<1>3. LastOf(d, K) = CHOOSE i \in I : \A j \in I : j <= i
  BY DEF LastOf
<1> HIDE DEF I
<1>4. LastOf(d, K) \in I /\ \A j \in I : j <= LastOf(d, K)
  BY <1>1, <1>2, <1>3, GreatestExists
<1> QED  BY <1>4 DEF I

LEMMA TitleOfAppend ==
    ASSUME NEW d \in Seq(Line), NEW l \in Line, NEW k
    PROVE  TitleOf(Append(d, l), k) = IF l.kind = k THEN l.title ELSE TitleOf(d, k)
<1> DEFINE e == Append(d, l)
           n == Len(d) + 1
           I(q) == {0} \cup {i \in 1 .. Len(q) : q[i].kind \in {k}}
<1>1. /\ e \in Seq(Line) /\ Len(d) \in Nat /\ Len(e) = n /\ e[n] = l
      /\ \A i \in 1 .. Len(d) : e[i] = d[i]
  BY AppendProperties, LenProperties
<1>2. /\ LastOf(d, {k}) \in I(d)
      /\ LastOf(e, {k}) \in I(e) /\ \A j \in I(e) : j <= LastOf(e, {k})
  BY <1>1, LastOfIs
<1>3. CASE l.kind = k
  <2>1. n \in I(e) /\ LastOf(e, {k}) \in 0 .. n
    BY <1>1, <1>2, <1>3
  <2>2. n <= LastOf(e, {k})
    BY <1>2, <2>1
  <2>3. LastOf(e, {k}) = n /\ n # 0
    BY <1>1, <2>1, <2>2
  <2> QED  BY <1>1, <1>3, <2>3 DEF TitleOf
<1>4. CASE l.kind # k
  <2>1. I(e) = I(d)
    BY <1>1, <1>4
  <2>2. LastOf(e, {k}) = LastOf(d, {k})
    BY <2>1, Zenon DEF LastOf
  <2>3. LastOf(d, {k}) = 0 \/ e[LastOf(d, {k})] = d[LastOf(d, {k})]
    BY <1>1, <1>2
  <2> QED  BY <1>4, <2>2, <2>3, Zenon DEF TitleOf
<1> QED  BY <1>3, <1>4


----------------------------------------------------------------------------
(* Names: the process that has a session is younger than all that its      *)
(* former processes wrote, so that its name wins as soon as it has one.    *)
FileType ==
    [pid : Pid, session : Session, name : Title \cup {NoTitle}, startedAt : Nat, updatedAt : Nat]

FileInv ==
    /\ files \in [Pid -> FileType \cup {NoFile}]
    /\ \A p \in Pid : files[p] # NoFile =>
          files[p].pid = p /\ files[p].startedAt <= files[p].updatedAt /\ files[p].updatedAt <= now
    /\ running \subseteq Pid
    /\ \A p \in running : files[p] # NoFile
    /\ \A p \in running : \A q \in Pid \ {p} :
          files[q] # NoFile /\ files[q].session = files[p].session =>
              q \notin running /\ files[q].updatedAt < files[p].startedAt

GivenInv ==
    /\ given = [s \in Session |-> given[s]]
    /\ \A s \in Session : given[s] # NoTitle =>
          /\ given[s] \in Title \ {Stamp}
          /\ RegistryName(Read, s) = given[s]
          /\ TitleOf(lines[s], "custom") \in {given[s], Stamp}

CalledInv ==
    \A i \in Picker, s \in Session :
        /\ listed[i] = <<>> => called[i][s] = {}
        /\ listed[i] # <<>> => given[s] \in called[i][s]
        /\ Stamp \notin called[i][s]
        /\ NoTitle \notin called[i][s] =>
              \A m \in since[i][s].metas : BestTitle(m) \in called[i][s] \cup {Stamp}

LEMMA WinnerNames ==
    ASSUME NEW S \in SUBSET FileType, NEW e \in WinnersBySession(S)
    PROVE  e \in S /\ e.name # NoTitle /\ RegistryName(S, e.session) = e.name
<1>1. e \in S /\ e.name # NoTitle
      /\ \A f \in S : f # e /\ f.name # NoTitle /\ f.session = e.session => NewerEntry(e, f)
  BY DEF WinnersBySession
<1>2. ASSUME NEW f \in WinnersBySession(S), f.session = e.session PROVE f = e
  <2>1. SUFFICES ASSUME f # e PROVE FALSE
    OBVIOUS
  <2>2. NewerEntry(e, f) /\ NewerEntry(f, e)
    BY <1>2, <2>1 DEF WinnersBySession
  <2>3. /\ e.updatedAt \in Nat /\ e.startedAt \in Nat /\ e.pid \in Nat
        /\ f.updatedAt \in Nat /\ f.startedAt \in Nat /\ f.pid \in Nat
    BY NamesAssumption DEF WinnersBySession, FileType
  <2> QED  BY <2>2, <2>3 DEF NewerEntry
<1>3. {f \in WinnersBySession(S) : f.session = e.session} = {e}
  BY <1>2
<1>4. (CHOOSE x \in {e} : TRUE) = e
  OBVIOUS
<1> QED  BY <1>1, <1>3, <1>4, Zenon DEF RegistryName

LEMMA NamedWins ==
    ASSUME NEW S, NEW s, RegistryName(S, s) # NoTitle
    PROVE  \E e \in WinnersBySession(S) : e.session = s /\ e.name = RegistryName(S, s)
<1> DEFINE own == {e \in WinnersBySession(S) : e.session = s}
<1>1. RegistryName(S, s) = IF own = {} THEN NoTitle ELSE (CHOOSE e \in own : TRUE).name
  BY DEF RegistryName
<1>2. own # {} /\ RegistryName(S, s) = (CHOOSE e \in own : TRUE).name
  BY <1>1
<1>3. (CHOOSE e \in own : TRUE) \in own
  BY <1>2
<1> QED  BY <1>2, <1>3

(* The winner stays when no other file of its session gets a name.         *)
LEMMA StillWins ==
    ASSUME NEW S, NEW T, NEW e \in WinnersBySession(S), e \in T,
           \A f \in T : f.session = e.session /\ f.name # NoTitle => f \in S
    PROVE  e \in WinnersBySession(T)
<1> QED  BY DEF WinnersBySession

LEMMA NewWins ==
    ASSUME NEW T \in SUBSET FileType, NEW e \in T, e.name # NoTitle,
           \A f \in T : f # e /\ f.session = e.session /\ f.name # NoTitle =>
               f.updatedAt < e.updatedAt \/ NewerEntry(e, f)
    PROVE  e \in WinnersBySession(T)
<1>1. \A f \in T : f.updatedAt \in Nat /\ e.updatedAt \in Nat
  BY DEF FileType
<1>2. \A f \in T : f.updatedAt < e.updatedAt => NewerEntry(e, f)
  BY <1>1 DEF NewerEntry
<1> QED  BY <1>2 DEF WinnersBySession

LEMMA ReadType == ASSUME FileInv PROVE Read \in SUBSET FileType
<1> QED  BY DEF FileInv, Read

LEMMA ReadFile ==
    ASSUME FileInv, NEW f \in Read
    PROVE  \E p \in Pid : f = files[p] /\ files[p] # NoFile /\ f.pid = p
<1> QED  BY DEF FileInv, Read

(* A process that has a session wrote its file after all the others were.  *)
LEMMA YoungerThanOthers ==
    ASSUME FileInv, NEW p \in running, NEW f \in Read, f.session = files[p].session, f # files[p]
    PROVE  /\ files[p] \in FileType /\ f \in FileType
           /\ f.updatedAt < files[p].updatedAt
           /\ ~ NewerEntry(f, files[p])
<1>1. p \in Pid /\ files[p] # NoFile /\ files[p] \in FileType /\ f \in FileType
  BY ReadType DEF FileInv
<1>2. PICK q \in Pid : f = files[q] /\ files[q] # NoFile
  BY ReadFile
<1>3. f.updatedAt < files[p].startedAt /\ files[p].startedAt <= files[p].updatedAt
  BY <1>1, <1>2 DEF FileInv
<1>4. f.updatedAt \in Nat /\ files[p].startedAt \in Nat /\ files[p].updatedAt \in Nat
  BY <1>1 DEF FileType
<1>5. f.updatedAt < files[p].updatedAt
  BY <1>3, <1>4
<1> QED  BY <1>1, <1>4, <1>5 DEF NewerEntry


LEMMA FilesStay ==
    ASSUME FileInv, now \in Nat, now' \in Nat, now <= now', UNCHANGED processes
    PROVE  FileInv'
<1>1. running' = running /\ files' = files
  BY DEF processes
<1>2. \A p \in Pid : files[p] # NoFile => files[p].updatedAt <= now'
  <2>1. \A p \in Pid : files[p] # NoFile => files[p].updatedAt \in Nat /\ files[p].updatedAt <= now
    BY DEF FileInv, FileType
  <2> QED  BY <2>1
<1> QED  BY <1>1, <1>2 DEF FileInv

LEMMA LaunchFiles ==
    ASSUME FileInv, now \in Nat, now' = now, NEW p \in Pid, NEW s \in Session,
           NEW name \in Title \cup {NoTitle}, Launch(p, s, name, now),
           \A f \in Read : f.session = s => f.updatedAt < now
    PROVE  FileInv'
<1> DEFINE new == [pid |-> p, session |-> s, name |-> name, startedAt |-> now, updatedAt |-> now]
<1>1. /\ files[p] = NoFile /\ Of(s) = {} /\ running' = running \cup {p}
      /\ files' = [files EXCEPT ![p] = new]
  BY DEF Launch
<1>2. new \in FileType /\ new # NoFile
  BY NoFileAssumption DEF FileType
<1>3. /\ files'[p] = new /\ \A q \in Pid \ {p} : files'[q] = files[q]
      /\ files' \in [Pid -> FileType \cup {NoFile}]
  BY <1>1, <1>2 DEF FileInv
<1>4. p \notin running /\ \A q \in running : q \in Pid \ {p} /\ files[q] # NoFile /\ files[q].session # s
  BY <1>1 DEF FileInv, Of
<1>5. new.pid = p /\ new.session = s /\ new.startedAt = now /\ new.updatedAt = now
  OBVIOUS
<1> HIDE DEF new
<1>6. \A q \in Pid : files'[q] # NoFile =>
          /\ files'[q].pid = q
          /\ files'[q].startedAt <= files'[q].updatedAt /\ files'[q].updatedAt <= now
  <2>1. now <= now
    OBVIOUS
  <2> QED  BY <1>3, <1>5, <2>1 DEF FileInv
<1>7. ASSUME NEW q \in running', NEW r \in Pid \ {q}, files'[r] # NoFile,
             files'[r].session = files'[q].session
      PROVE  r \notin running' /\ files'[r].updatedAt < files'[q].startedAt
  <2>1. CASE q = p
    <3>1. files'[r] = files[r] /\ files[r].session = s /\ files[r] # NoFile
      BY <1>3, <1>5, <1>7, <2>1
    <3>2. files[r] \in Read
      BY <3>1 DEF Read
    <3>3. r \notin running
      BY <1>4, <3>1
    <3> QED  BY <1>1, <1>3, <1>5, <1>7, <2>1, <3>1, <3>2, <3>3
  <2>2. CASE q # p
    <3>1. q \in running /\ files'[q] = files[q] /\ files[q].session # s
      BY <1>1, <1>3, <1>4, <2>2
    <3>2. r # p
      BY <1>3, <1>5, <1>7, <3>1
    <3> QED  BY <1>1, <1>3, <1>7, <3>1, <3>2 DEF FileInv
  <2> QED  BY <2>1, <2>2
<1>8. running' \subseteq Pid /\ \A q \in running' : files'[q] # NoFile
  BY <1>1, <1>2, <1>3, <1>4
<1> QED  BY <1>3, <1>6, <1>7, <1>8 DEF FileInv

(* A process writes its own file again, with or without a name.            *)
LEMMA UpdateFiles ==
    ASSUME FileInv, now \in Nat, now' = now, NEW p \in running, NEW new \in FileType,
           new.pid = p, new.session = files[p].session, new.startedAt = files[p].startedAt,
           new.updatedAt = now,
           files' = [files EXCEPT ![p] = new], running' = running
    PROVE  FileInv'
<1>1. p \in Pid /\ files[p] # NoFile /\ files[p] \in FileType
  BY DEF FileInv
<1>2. /\ files'[p] = new /\ \A q \in Pid \ {p} : files'[q] = files[q]
      /\ files' \in [Pid -> FileType \cup {NoFile}]
  BY <1>1 DEF FileInv
<1>3. new # NoFile
  BY NoFileAssumption DEF FileType
<1>4. files[p].startedAt <= now
  <2>1. files[p].startedAt \in Nat /\ files[p].updatedAt \in Nat
    BY <1>1 DEF FileType
  <2>2. files[p].startedAt <= files[p].updatedAt /\ files[p].updatedAt <= now
    BY <1>1 DEF FileInv
  <2> QED  BY <2>1, <2>2
<1>5. \A q \in Pid : files'[q] # NoFile =>
          /\ files'[q].pid = q
          /\ files'[q].startedAt <= files'[q].updatedAt /\ files'[q].updatedAt <= now
  <2>1. now <= now
    OBVIOUS
  <2> QED  BY <1>2, <1>4, <2>1 DEF FileInv
<1>6. ASSUME NEW q \in running, NEW r \in Pid \ {q}, files'[r] # NoFile,
             files'[r].session = files'[q].session
      PROVE  r \notin running /\ files'[r].updatedAt < files'[q].startedAt
  <2>1. /\ files[r] # NoFile /\ files[r].session = files[q].session
        /\ files'[q].startedAt = files[q].startedAt
    BY <1>1, <1>2, <1>6
  <2>2. r \notin running /\ files[r].updatedAt < files[q].startedAt
    BY <2>1 DEF FileInv
  <2>3. r # p
    BY <2>2
  <2> QED  BY <1>2, <2>1, <2>2, <2>3
<1>7. \A q \in running : files'[q] # NoFile
  BY <1>2, <1>3 DEF FileInv
<1> QED  BY <1>2, <1>5, <1>6, <1>7 DEF FileInv

LEMMA ExitFiles ==
    ASSUME FileInv, now' = now, NEW p, Exit(p)
    PROVE  FileInv'
<1> QED  BY DEF Exit, FileInv

----------------------------------------------------------------------------
(* Who wins after a process has written. *)

LEMMA LaunchWins ==
    ASSUME FileInv, FileInv', now \in Nat, NEW p \in Pid, NEW s \in Session,
           NEW name \in Title \cup {NoTitle}, Launch(p, s, name, now),
           \A f \in Read : f.session = s => f.updatedAt < now,
           NEW q \in Session, NEW g, g # NoTitle, RegistryName(Read, q) = g,
           name \in {NoTitle, RegistryName(Read, s)} \/ \A f \in Read : f.session # s
    PROVE  RegistryName(Read', q) = g
<1> DEFINE new == [pid |-> p, session |-> s, name |-> name, startedAt |-> now, updatedAt |-> now]
<1>1. files[p] = NoFile /\ files' = [files EXCEPT ![p] = new]
  BY DEF Launch
<1>2. new \in FileType /\ new # NoFile
  BY NoFileAssumption DEF FileType
<1>3. new.session = s /\ new.name = name /\ new.updatedAt = now
  OBVIOUS
<1> HIDE DEF new
<1>4. Read' = Read \cup {new}
  BY <1>1, <1>2 DEF Read, FileInv
<1>5. PICK e \in WinnersBySession(Read) : e.session = q /\ e.name = g
  BY NamedWins
<1>6. Read \in SUBSET FileType /\ Read' \in SUBSET FileType
  BY <1>2, <1>4, ReadType
<1>7. e \in Read /\ e.name # NoTitle
  BY <1>5, <1>6, WinnerNames
<1>8. CASE q = s /\ name # NoTitle
  <2>1. name = g
    BY <1>5, <1>7, <1>8
  <2>2. \A f \in Read' : f # new /\ f.session = new.session => f.updatedAt < new.updatedAt
    BY <1>3, <1>4
  <2>3. new \in WinnersBySession(Read')
    BY <1>3, <1>4, <1>6, <1>8, <2>2, NewWins
  <2> QED  BY <1>3, <1>6, <1>8, <2>1, <2>3, WinnerNames
<1>9. CASE q # s \/ name = NoTitle
  <2>1. \A f \in Read' : f.session = e.session /\ f.name # NoTitle => f \in Read
    BY <1>3, <1>4, <1>5, <1>9
  <2>2. e \in WinnersBySession(Read')
    BY <1>4, <1>5, <1>7, <2>1, StillWins
  <2> QED  BY <1>5, <1>6, <2>2, WinnerNames
<1> QED  BY <1>8, <1>9

LEMMA UpdatedRead ==
    ASSUME FileInv, NEW p \in running, NEW new \in FileType, new.pid = p,
           files' = [files EXCEPT ![p] = new]
    PROVE  /\ Read' = (Read \ {files[p]}) \cup {new}
           /\ Read' \in SUBSET FileType /\ Read \in SUBSET FileType
<1>1. p \in Pid /\ files[p] # NoFile /\ files \in [Pid -> FileType \cup {NoFile}]
      /\ \A q \in Pid : files[q] # NoFile => files[q].pid = q
  BY DEF FileInv
<1>2. new # NoFile
  BY NoFileAssumption DEF FileType
<1>3. files'[p] = new /\ \A q \in Pid \ {p} : files'[q] = files[q]
  BY <1>1
<1>4. \A q \in Pid \ {p} : files[q] # NoFile => files[q] # files[p]
  BY <1>1
<1>5. Read' = {files'[q] : q \in {r \in Pid : files'[r] # NoFile}}
  BY DEF Read
<1>6. ASSUME NEW f PROVE f \in Read' <=> f \in (Read \ {files[p]}) \cup {new}
  <2>1. f \in Read' <=> \E q \in Pid : files'[q] # NoFile /\ f = files'[q]
    BY <1>5
  <2>2. f \in Read <=> \E q \in Pid : files[q] # NoFile /\ f = files[q]
    BY DEF Read
  <2> QED  BY <1>1, <1>2, <1>3, <1>4, <2>1, <2>2
<1> QED  BY <1>6, ReadType

LEMMA HeartbeatWins ==
    ASSUME FileInv, now \in Nat, NEW p, Heartbeat(p, now),
           NEW q \in Session, NEW g, g # NoTitle, RegistryName(Read, q) = g
    PROVE  RegistryName(Read', q) = g
<1> DEFINE new == [files[p] EXCEPT !.updatedAt = now]
<1>1. p \in running /\ p \in Pid /\ files[p] # NoFile /\ files[p] \in FileType /\ files[p] \in Read
      /\ files[p].pid = p
  BY DEF Heartbeat, FileInv, Read
<1>2. files' = [files EXCEPT ![p] = new]
  BY DEF Heartbeat
<1>3. /\ new \in FileType /\ new.pid = p /\ new.session = files[p].session
      /\ new.name = files[p].name /\ new.startedAt = files[p].startedAt /\ new.updatedAt = now
  BY <1>1 DEF FileType
<1> HIDE DEF new
<1>4. /\ Read' = (Read \ {files[p]}) \cup {new}
      /\ Read' \in SUBSET FileType /\ Read \in SUBSET FileType
  BY <1>1, <1>2, <1>3, UpdatedRead
<1>5. PICK e \in WinnersBySession(Read) : e.session = q /\ e.name = g
  BY NamedWins
<1>6. e \in Read /\ e.name # NoTitle
  BY <1>4, <1>5, WinnerNames
<1>7. CASE e = files[p]
  <2>1. files[p].updatedAt \in Nat /\ files[p].updatedAt <= now
    BY <1>1 DEF FileInv, FileType
  <2>2. ASSUME NEW f \in Read', f # new, f.session = new.session, f.name # NoTitle
        PROVE  f.updatedAt < new.updatedAt
    <3>1. f \in Read /\ f # files[p] /\ f.session = files[p].session /\ f.updatedAt \in Nat
      BY <1>3, <1>4, <2>2 DEF FileType
    <3>2. f.updatedAt < files[p].updatedAt
      BY <1>1, <3>1, YoungerThanOthers
    <3> QED  BY <1>3, <2>1, <3>1, <3>2
  <2>3. new \in Read' /\ new.name # NoTitle
    BY <1>3, <1>4, <1>6, <1>7
  <2>4. new \in WinnersBySession(Read')
    BY <1>4, <2>2, <2>3, NewWins
  <2> QED  BY <1>3, <1>4, <1>5, <1>7, <2>4, WinnerNames
<1>8. CASE e # files[p]
  <2>1. e.session = files[p].session => files[p].name = NoTitle
    <3>1. SUFFICES ASSUME e.session = files[p].session, files[p].name # NoTitle PROVE FALSE
      OBVIOUS
    <3>2. NewerEntry(e, files[p])
      BY <1>1, <1>5, <1>8, <3>1 DEF WinnersBySession
    <3> QED  BY <1>1, <1>6, <1>8, <3>1, <3>2, YoungerThanOthers
  <2>2. \A f \in Read' : f.session = e.session /\ f.name # NoTitle => f \in Read
    BY <1>3, <1>4, <2>1
  <2>3. e \in WinnersBySession(Read')
    BY <1>4, <1>5, <1>6, <1>8, <2>2, StillWins
  <2> QED  BY <1>4, <1>5, <2>3, WinnerNames
<1> QED  BY <1>7, <1>8

LEMMA SetNameWins ==
    ASSUME FileInv, now \in Nat, NEW p, NEW name \in Title, SetName(p, name, now),
           NEW q \in Session
    PROVE  /\ q = files[p].session => RegistryName(Read', q) = name
           /\ q # files[p].session => \A g : g # NoTitle /\ RegistryName(Read, q) = g
                                                => RegistryName(Read', q) = g
<1> DEFINE new == [files[p] EXCEPT !.name = name, !.updatedAt = now]
<1>1. p \in running /\ p \in Pid /\ files[p] # NoFile /\ files[p] \in FileType /\ files[p] \in Read
      /\ files[p].pid = p
  BY DEF SetName, FileInv, Read
<1>2. files' = [files EXCEPT ![p] = new]
  <2>1. files' = [files EXCEPT ![p].name = name, ![p].updatedAt = now]
    BY DEF SetName
  <2> QED  BY <1>1, <2>1 DEF FileInv
<1>3. /\ new \in FileType /\ new.pid = p /\ new.session = files[p].session
      /\ new.name = name /\ new.startedAt = files[p].startedAt /\ new.updatedAt = now
  BY <1>1 DEF FileType
<1> HIDE DEF new
<1>4. /\ Read' = (Read \ {files[p]}) \cup {new}
      /\ Read' \in SUBSET FileType /\ Read \in SUBSET FileType
  BY <1>1, <1>2, <1>3, UpdatedRead
<1>5. ASSUME q = files[p].session PROVE RegistryName(Read', q) = name
  <2>1. files[p].updatedAt \in Nat /\ files[p].updatedAt <= now
    BY <1>1 DEF FileInv, FileType
  <2>2. ASSUME NEW f \in Read', f # new, f.session = new.session, f.name # NoTitle
        PROVE  f.updatedAt < new.updatedAt
    <3>1. f \in Read /\ f # files[p] /\ f.session = files[p].session /\ f.updatedAt \in Nat
      BY <1>3, <1>4, <2>2 DEF FileType
    <3>2. f.updatedAt < files[p].updatedAt
      BY <1>1, <3>1, YoungerThanOthers
    <3> QED  BY <1>3, <2>1, <3>1, <3>2
  <2>3. new \in Read' /\ new.name # NoTitle
    BY <1>3, <1>4, CacheAssumption
  <2>4. new \in WinnersBySession(Read')
    BY <1>4, <2>2, <2>3, NewWins
  <2> QED  BY <1>3, <1>4, <1>5, <2>4, WinnerNames
<1>6. ASSUME q # files[p].session, NEW g, g # NoTitle, RegistryName(Read, q) = g
      PROVE  RegistryName(Read', q) = g
  <2>1. PICK e \in WinnersBySession(Read) : e.session = q /\ e.name = g
    BY <1>6, NamedWins
  <2>2. e \in Read /\ e # files[p]
    BY <1>4, <1>6, <2>1, WinnerNames
  <2>3. \A f \in Read' : f.session = e.session /\ f.name # NoTitle => f \in Read
    BY <1>3, <1>4, <1>6, <2>1
  <2>4. e \in WinnersBySession(Read')
    BY <1>4, <2>1, <2>2, <2>3, StillWins
  <2> QED  BY <1>4, <2>1, <2>4, WinnerNames
<1> QED  BY <1>5, <1>6


----------------------------------------------------------------------------
(* The name the user gave is what the registry says, until the next one.   *)

LEMMA GivenStays ==
    ASSUME GivenInv, given' = given,
           \A q \in Session : \A g : g # NoTitle /\ RegistryName(Read, q) = g
                                         => RegistryName(Read', q) = g,
           \A q \in Session : TitleOf(lines'[q], "custom") \in {TitleOf(lines[q], "custom"), Stamp}
    PROVE  GivenInv'
<1> QED  BY DEF GivenInv

LEMMA SameRead ==
    ASSUME files' = files
    PROVE  Read' = Read
<1> QED  BY DEF Read

LEMMA AppendedTitle ==
    ASSUME CacheInv, LineInv, NEW s, NEW l \in Line, AppendTo(s, l), NEW q \in Session
    PROVE  TitleOf(lines'[q], "custom") =
              IF q = s /\ l.kind = "custom" THEN l.title ELSE TitleOf(lines[q], "custom")
<1>1. lines' = [lines EXCEPT ![s] = Append(@, l)]
  BY DEF AppendTo
<1>2. lines[q] \in Seq(Line)
  BY DEF LineInv
<1>3. CASE q = s
  <2>1. lines'[q] = Append(lines[q], l)
    BY <1>1, <1>3 DEF CacheInv, FormInv
  <2> QED  BY <1>2, <1>3, <2>1, TitleOfAppend
<1>4. CASE q # s
  <2>1. lines'[q] = lines[q]
    BY <1>1, <1>4 DEF CacheInv, FormInv
  <2> QED  BY <1>4, <2>1
<1> QED  BY <1>3, <1>4

NameInv == FileInv /\ GivenInv

LEMMA SpokenNames ==
    ASSUME CacheInv, LineInv, NameInv, NEW s, NEW l \in Line,
           l.kind = "custom" => l.title = Stamp, Say(s, l), given' = given
    PROVE  NameInv'
<1>1. AppendTo(s, l) /\ UNCHANGED processes /\ now' = now
  BY DEF Say, AppendTo
<1>2. FileInv'
  <2>1. now \in Nat /\ now <= now
    BY DEF CacheInv, ClockInv
  <2> QED  BY <1>1, <2>1, FilesStay DEF NameInv
<1>3. \A q \in Session : TitleOf(lines'[q], "custom") \in {TitleOf(lines[q], "custom"), Stamp}
  BY <1>1, AppendedTitle
<1>4. Read' = Read
  BY <1>1, SameRead DEF processes
<1> QED  BY <1>2, <1>3, <1>4, GivenStays DEF NameInv

LEMMA StartNames ==
    ASSUME CacheInv, NameInv, NEW p \in Pid, NEW s \in Session, Start(p, s)
    PROVE  NameInv'
<1>1. /\ \A f \in Read : f.session = s => f.updatedAt < now
      /\ UNCHANGED world /\ given' = given
  BY DEF Start
<1>2. PICK name \in IF \E f \in Read : f.session = s THEN {NoTitle, RegistryName(Read, s)}
                                                     ELSE {NoTitle} \cup (Title \ {Stamp}) :
          Launch(p, s, name, now)
  BY DEF Start
<1>3. now \in Nat /\ now' = now /\ lines' = lines
  BY <1>1 DEF CacheInv, ClockInv, world
<1>4. RegistryName(Read, s) \in Title \cup {NoTitle}
  <2>1. CASE RegistryName(Read, s) # NoTitle
    BY <2>1, NamedWins, ReadType DEF NameInv, WinnersBySession, FileType
  <2> QED  BY <2>1
<1>5. name \in Title \cup {NoTitle}
  BY <1>2, <1>4
<1>6. name \in {NoTitle, RegistryName(Read, s)} \/ \A f \in Read : f.session # s
  BY <1>2
<1>7. FileInv'
  BY <1>1, <1>2, <1>3, <1>5, LaunchFiles DEF NameInv
<1>8. \A q \in Session : \A g : g # NoTitle /\ RegistryName(Read, q) = g
                                    => RegistryName(Read', q) = g
  BY <1>1, <1>2, <1>3, <1>5, <1>6, <1>7, LaunchWins DEF NameInv
<1> QED  BY <1>1, <1>3, <1>7, <1>8, GivenStays DEF NameInv

LEMMA ProcessNames ==
    ASSUME CacheInv, NameInv, NEW p \in Pid, Process(p)
    PROVE  NameInv'
<1>1. now \in Nat /\ now' = now /\ lines' = lines /\ given' = given
  BY DEF Process, CacheInv, ClockInv, world
<1>2. CASE Heartbeat(p, now)
  <2> DEFINE new == [files[p] EXCEPT !.updatedAt = now]
  <2>1. p \in running /\ files[p] \in FileType /\ files[p].pid = p
    BY <1>2 DEF Heartbeat, NameInv, FileInv
  <2>2. files' = [files EXCEPT ![p] = new] /\ running' = running
    BY <1>2 DEF Heartbeat
  <2>3. /\ new \in FileType /\ new.pid = p /\ new.session = files[p].session
        /\ new.startedAt = files[p].startedAt /\ new.updatedAt = now
    BY <1>1, <2>1 DEF FileType
  <2> HIDE DEF new
  <2>4. FileInv'
    BY <1>1, <2>1, <2>2, <2>3, UpdateFiles DEF NameInv
  <2>5. \A q \in Session : \A g : g # NoTitle /\ RegistryName(Read, q) = g
                                      => RegistryName(Read', q) = g
    BY <1>1, <1>2, HeartbeatWins DEF NameInv
  <2> QED  BY <1>1, <2>4, <2>5, GivenStays DEF NameInv
<1>3. CASE Exit(p)
  <2>1. FileInv' /\ Read' = Read
    BY <1>1, <1>3, ExitFiles, SameRead DEF NameInv, Exit
  <2> QED  BY <1>1, <2>1, GivenStays DEF NameInv
<1> QED  BY <1>2, <1>3 DEF Process

LEMMA RenameNames ==
    ASSUME CacheInv, LineInv, NameInv, NEW p \in Pid, Rename(p)
    PROVE  NameInv'
<1>1. PICK name \in Title \ {Stamp} :
          /\ SetName(p, name, now)
          /\ AppendTo(files[p].session, [kind |-> "custom", title |-> name])
          /\ given' = [given EXCEPT ![files[p].session] = name]
  BY DEF Rename
<1>2. PICK s : s = files[p].session
  OBVIOUS
<1>3. now \in Nat /\ now' = now
  BY <1>1 DEF CacheInv, ClockInv, AppendTo
<1>4. p \in running /\ files[p] \in FileType /\ files[p].pid = p /\ s \in Session
  BY <1>1, <1>2 DEF SetName, NameInv, FileInv, FileType
<1>5. FileInv'
  <2> DEFINE new == [files[p] EXCEPT !.name = name, !.updatedAt = now]
  <2>1. files' = [files EXCEPT ![p].name = name, ![p].updatedAt = now] /\ running' = running
    BY <1>1 DEF SetName
  <2>2. files' = [files EXCEPT ![p] = new]
    BY <1>4, <2>1 DEF NameInv, FileInv
  <2>3. /\ new \in FileType /\ new.pid = p /\ new.session = files[p].session
        /\ new.startedAt = files[p].startedAt /\ new.updatedAt = now
    BY <1>3, <1>4 DEF FileType
  <2> HIDE DEF new
  <2> QED  BY <1>3, <1>4, <2>1, <2>2, <2>3, UpdateFiles DEF NameInv
<1>6. ASSUME NEW q \in Session
      PROVE  /\ q = s => RegistryName(Read', q) = name
             /\ q # s => \A g : g # NoTitle /\ RegistryName(Read, q) = g => RegistryName(Read', q) = g
  BY <1>1, <1>2, <1>3, SetNameWins DEF NameInv
<1>7. ASSUME NEW q \in Session
      PROVE  TitleOf(lines'[q], "custom") = IF q = s THEN name ELSE TitleOf(lines[q], "custom")
  <2>1. PICK l : l = [kind |-> "custom", title |-> name]
    OBVIOUS
  <2>2. l \in Line /\ l.kind = "custom" /\ l.title = name
    BY <2>1 DEF Line
  <2>3. AppendTo(s, l)
    BY <1>1, <1>2, <2>1
  <2> QED  BY <2>2, <2>3, AppendedTitle
<1>8. /\ given' = [q \in Session |-> given'[q]]
      /\ \A q \in Session : given'[q] = IF q = s THEN name ELSE given[q]
  BY <1>1, <1>2, <1>4 DEF NameInv, GivenInv
<1>9. GivenInv'
  BY <1>6, <1>7, <1>8 DEF NameInv, GivenInv
<1> QED  BY <1>5, <1>9 DEF NameInv

LEMMA RestNames ==
    ASSUME CacheInv, CacheInv', NameInv, now <= now', UNCHANGED <<processes, lines, given>>
    PROVE  NameInv'
<1>1. FileInv'
  BY FilesStay DEF NameInv, CacheInv, ClockInv
<1>2. Read' = Read
  BY SameRead DEF processes
<1> QED  BY <1>1, <1>2, GivenStays DEF NameInv

LEMMA SystemStepNames ==
    ASSUME CacheInv, LineInv, NameInv, [Next]_vars
    PROVE  NameInv'
<1>1. CASE Claude
  <2>1. ASSUME NEW s \in Session, Speak(s) PROVE NameInv'
    <3>1. PICK l \in Line : l.kind # "custom" /\ Say(s, l)
      BY <2>1 DEF Speak
    <3> QED  BY <2>1, <3>1, SpokenNames DEF Speak
  <2>2. ASSUME NEW s \in Session, Flush(s) PROVE NameInv'
    <3>1. PICK l : l = [kind |-> "custom", title |-> Stamp]
      OBVIOUS
    <3>2. l \in Line /\ l.title = Stamp
      BY <3>1, NamesAssumption DEF Line
    <3>3. Say(s, l) /\ given' = given
      BY <2>2, <3>1 DEF Flush
    <3> QED  BY <3>2, <3>3, SpokenNames
  <2> QED  BY <1>1, <2>1, <2>2, StartNames, ProcessNames, RenameNames DEF Claude
<1>2. CacheInv' /\ now \in Nat /\ now <= now
  BY SystemStepKeeps DEF CacheInv, ClockInv
<1>3. CASE Codex
  BY <1>2, <1>3, RestNames DEF Codex, CodexWrites, world
<1>4. CASE Picking
  <2>1. UNCHANGED <<processes, given>>
    BY <1>4 DEF Picking
  <2>2. lines' = lines /\ now <= now'
    <3>1. CASE Tick
      BY <1>2, <3>1 DEF Tick
    <3>2. CASE \E s \in Session : WorkflowWrite(s)
      BY <1>2, <3>2 DEF WorkflowWrite
    <3>3. CASE \E i \in Picker : List(i) \/ (\E s \in Session : GetOrScan(i, s)) \/ AddRow(i) \/ Return(i)
      BY <1>2, <3>3 DEF List, GetOrScan, AddRow, Return, world
    <3> QED  BY <1>4, <3>1, <3>2, <3>3 DEF Picking
  <2> QED  BY <1>2, <2>1, <2>2, RestNames
<1>5. CASE Asking
  BY <1>2, <1>5, RestNames DEF Asking, world
<1>6. CASE UNCHANGED vars
  BY <1>2, <1>6, RestNames DEF vars, cacheVars, world
<1> QED  BY <1>1, <1>3, <1>4, <1>5, <1>6 DEF Next

(* What is heard while a listing goes on.                                  *)
LEMMA SystemStepCalled ==
    ASSUME CacheInv, ShowInv, NameInv, CalledInv, [Next]_vars
    PROVE  CalledInv'
<1>1. NameInv'
  BY SystemStepNames DEF ShowInv
<1>2. CASE Witness /\ Hear
  <2> SUFFICES ASSUME NEW i \in Picker, NEW s \in Session
               PROVE  /\ listed'[i] = <<>> => called'[i][s] = {}
                      /\ listed'[i] # <<>> => given'[s] \in called'[i][s]
                      /\ Stamp \notin called'[i][s]
                      /\ NoTitle \notin called'[i][s] =>
                            \A m \in since'[i][s].metas : BestTitle(m) \in called'[i][s] \cup {Stamp}
    BY DEF CalledInv
  <2>1. called'[i][s] = IF listed'[i] = <<>> THEN {} ELSE called[i][s] \cup {given'[s]}
    BY <1>2 DEF Hear
  <2>2. CASE listed'[i] = <<>>
    <3>1. since'[i][s].metas = {}
      BY <1>2, <2>2, WitnessFacts DEF Unseen
    <3> QED  BY <2>1, <2>2, <3>1
  <2>3. CASE listed'[i] # <<>>
    <3>1. called'[i][s] = called[i][s] \cup {given'[s]}
      BY <2>1, <2>3
    <3>2. given'[s] # Stamp
      BY <1>1, NamesAssumption, CacheAssumption DEF NameInv, GivenInv
    <3>3. since'[i][s].metas = since[i][s].metas \cup {ScanMetadata(lines'[s])}
      BY <1>2, <2>3, WitnessFacts
    <3>4. ASSUME given'[s] # NoTitle
          PROVE  BestTitle(ScanMetadata(lines'[s])) \in {given'[s], Stamp}
      <4>1. TitleOf(lines'[s], "custom") \in {given'[s], Stamp}
        BY <1>1, <3>4 DEF NameInv, GivenInv
      <4>2. ScanMetadata(lines'[s]).customTitle = TitleOf(lines'[s], "custom")
        BY DEF ScanMetadata
      <4>3. TitleOf(lines'[s], "custom") # NoTitle
        BY <3>4, <4>1, NamesAssumption, CacheAssumption
      <4> QED  BY <4>1, <4>2, <4>3, Zenon DEF BestTitle
    <3>5. ASSUME NoTitle \notin called'[i][s], NEW m \in since'[i][s].metas
          PROVE  BestTitle(m) \in called'[i][s] \cup {Stamp}
      <4>1. CASE m \in since[i][s].metas
        BY <3>1, <3>5, <4>1 DEF CalledInv
      <4>2. CASE m = ScanMetadata(lines'[s])
        BY <3>1, <3>4, <3>5, <4>2
      <4> QED  BY <3>3, <3>5, <4>1, <4>2
    <3>6. Stamp \notin called'[i][s]
      BY <3>1, <3>2 DEF CalledInv
    <3> QED  BY <2>3, <3>1, <3>5, <3>6
  <2> QED  BY <2>2, <2>3
<1>3. CASE UNCHANGED vars
  BY <1>3 DEF vars, cacheVars, list, CalledInv
<1> QED  BY <1>2, <1>3 DEF Next

NamedInv == CacheInv /\ ShowInv /\ NameInv /\ CalledInv

LEMMA NamedInit == Init => NamedInv
<1> SUFFICES ASSUME Init PROVE NamedInv
  OBVIOUS
<1>1. CacheInv /\ ShowInv
  BY CacheInit_Inv, CacheInit_Shows DEF Init
<1>2. FileInv
  BY DEF Init, RegistryInit, FileInv
<1>3. GivenInv
  BY DEF Init, GivenInv
<1>4. CalledInv
  BY DEF Init, CacheInit, CalledInv, Unseen
<1> QED  BY <1>1, <1>2, <1>3, <1>4 DEF NamedInv, NameInv

LEMMA NamedNext == NamedInv /\ [Next]_vars => NamedInv'
  BY SystemStepKeeps, SystemStepShows, SystemStepNames, SystemStepCalled DEF NamedInv, ShowInv

LEMMA NamedShown == NamedInv => RenameShown
<1> SUFFICES ASSUME NamedInv, NEW i \in Picker, NEW r \in rows[i],
                    r.sure, NoTitle \notin called[i][r.session]
             PROVE  DisplayName(Read, r.session, BestTitle(r.meta)) \in called[i][r.session]
  BY DEF RenameShown
<1>1. r.session \in Session /\ ShownInv(i, r) /\ listed[i] # <<>>
  BY DEF NamedInv, ShowInv, ListInv, ListOk
<1>2. PICK s, t : s \in Session /\ s = r.session /\ t = BestTitle(r.meta)
  BY <1>1
<1>3. r.meta \in since[i][s].metas
  BY <1>1, <1>2 DEF ShownInv
<1>4. /\ given[s] \in called[i][s] /\ Stamp \notin called[i][s]
      /\ t \in called[i][s] \cup {Stamp}
  BY <1>1, <1>2, <1>3 DEF NamedInv, CalledInv
<1>5. given[s] # NoTitle /\ RegistryName(Read, s) = given[s]
  BY <1>2, <1>4 DEF NamedInv, NameInv, GivenInv
<1>6. DisplayName(Read, s, t) = IF t = NoTitle \/ t = Stamp THEN given[s] ELSE t
  BY <1>5 DEF DisplayName, IsStampedTitle
<1>7. DisplayName(Read, s, t) \in called[i][s]
  BY <1>4, <1>6
<1> QED  BY <1>2, <1>7

(* Whatever processes come and go, and however often a launcher stamps its *)
(* title, a session the user renamed is listed under a name it had during  *)
(* the listing (claude/names.go over the cache and the registry).          *)
THEOREM Spec_RenameShown == Spec => []RenameShown
  BY NamedInit, NamedNext, NamedShown, PTL DEF Spec


----------------------------------------------------------------------------
(* Looking a name up. *)

LEMMA ShortTitleIs ==
    ASSUME NEW d \in Seq(Line), NEW k \in {"custom", "ai"}, TitleOf(d, k) \notin Long
    PROVE  ShortTitle(d, k) = TitleOf(d, k)
<1> DEFINE I == {i \in 1 .. Len(d) : d[i].kind = k /\ d[i].title \notin Long}
           n == LastOf(d, {k})
<1>1. Len(d) \in Nat /\ \A i \in 1 .. Len(d) : d[i] \in Line
  BY LenProperties, ElementOfSeq
<1>2. /\ n \in {0} \cup {i \in 1 .. Len(d) : d[i].kind \in {k}}
      /\ \A j \in {0} \cup {i \in 1 .. Len(d) : d[i].kind \in {k}} : j <= n
  BY LastOfIs
<1>3. TitleOf(d, k) = IF n = 0 THEN NoTitle ELSE d[n].title
  BY DEF TitleOf
<1>4. ShortTitle(d, k) = IF I = {} THEN NoTitle ELSE d[CHOOSE i \in I : \A j \in I : j <= i].title
  BY DEF ShortTitle
<1> HIDE DEF n
<1>5. \A j \in I : j \in Nat /\ j <= n /\ j >= 1
  <2>1. ASSUME NEW j \in I PROVE j \in Nat /\ j <= n /\ j >= 1
    <3>1. j \in 1 .. Len(d) /\ d[j].kind \in {k}
      OBVIOUS
    <3>2. j \in {0} \cup {i \in 1 .. Len(d) : d[i].kind \in {k}}
      BY <3>1
    <3>3. j <= n
      BY <1>2, <3>2
    <3> QED  BY <1>1, <3>1, <3>3
  <2> QED  BY <2>1
<1>6. CASE n = 0
  <2>1. I = {}
    <3>1. \A j \in I : FALSE
      BY <1>5, <1>6
    <3> QED  BY <3>1
  <2> QED  BY <1>3, <1>4, <1>6, <2>1
<1>7. CASE n # 0
  <2>1. n \in I /\ n \in Nat
    BY <1>2, <1>3, <1>7
  <2> HIDE DEF I
  <2>2. \A i \in I : (\A j \in I : j <= i) => i = n
    <3>1. ASSUME NEW i \in I, \A j \in I : j <= i PROVE i = n
      <4>1. i \in Nat /\ i <= n /\ n <= i
        BY <1>5, <2>1, <3>1
      <4> QED  BY <2>1, <4>1
    <3> QED  BY <3>1
  <2>3. (CHOOSE i \in I : \A j \in I : j <= i) = n
    BY <1>5, <2>1, <2>2
  <2> QED  BY <1>3, <1>4, <1>7, <2>1, <2>3
<1> QED  BY <1>6, <1>7

(* An entry that is too long to be seen is no reason to find another title *)
(* than the one shown, when that one is short.                             *)
LEMMA ScanTitleIs ==
    ASSUME LineInv, NEW s \in Session, BestTitle(ScanMetadata(lines[s])) \notin Long \cup {NoTitle}
    PROVE  ScanTitle(s) = BestTitle(ScanMetadata(lines[s]))
<1>1. PICK d \in Seq(Line) : d = lines[s]
  BY DEF LineInv
<1>2. PICK c, a : c = TitleOf(d, "custom") /\ a = TitleOf(d, "ai")
  OBVIOUS
<1>3. BestTitle(ScanMetadata(d)) = IF c # NoTitle THEN c ELSE a
  BY <1>2 DEF BestTitle, ScanMetadata
<1>4. ScanTitle(s) = IF ShortTitle(d, "custom") # NoTitle THEN ShortTitle(d, "custom")
                                                          ELSE ShortTitle(d, "ai")
  BY <1>1 DEF BestTitle, ScanTitle
<1>5. NoTitle \notin Long
  BY CacheAssumption, DiscoveryAssumption
<1>6. CASE c # NoTitle
  <2>1. c \notin Long
    BY <1>1, <1>3, <1>6
  <2>2. ShortTitle(d, "custom") = c
    BY <1>2, <2>1, ShortTitleIs
  <2> QED  BY <1>1, <1>3, <1>4, <1>6, <2>2
<1>7. CASE c = NoTitle
  <2>1. a \notin Long
    BY <1>1, <1>3, <1>7
  <2>2. ShortTitle(d, "custom") = NoTitle /\ ShortTitle(d, "ai") = a
    BY <1>2, <1>5, <1>7, <2>1, ShortTitleIs
  <2> QED  BY <1>1, <1>3, <1>4, <1>7, <2>2
<1> QED  BY <1>6, <1>7

LEMMA NamesResolve == NamedInv => NameResolves
<1> SUFFICES ASSUME NamedInv, NEW s \in Session,
                    ScanMetadata(lines[s]).turns,
                    Shown(s) \notin Long \cup {NoTitle},
                    <<ScanTitle(s), Shown(s)>> \notin Contains
             PROVE  /\ \E r \in Find(Shown(s)) : r.session = s
                    /\ \A r \in Find(Shown(s)) :
                          Shown(s) \in {ScanTitle(r.session), RegistryName(Read, r.session)}
  BY DEF NameResolves
<1> DEFINE titled  == {[session |-> x, title |-> ScanTitle(x)] : x \in {y \in Session : ScanTitle(y) # NoTitle}}
           present == {x \in Session : mtime[x] > 0}
           named   == {[session |-> e.session, title |-> e.name] :
                          e \in {w \in WinnersBySession(Read) : w.session \in present}}
<1>1. PICK q : q = Shown(s)
  OBVIOUS
<1>2. PICK M : M = MergeTitleRefs(Matches(titled, q), Matches(named, q))
  OBVIOUS
<1>3. Find(q) = PreferExact(M, q)
  BY <1>2 DEF Find, Lookup, FindTitleMatches, FindNameMatches
<1>4. Read \in SUBSET FileType
  BY ReadType DEF NamedInv, NameInv
<1>5. s \in present
  <2>1. lines[s] \in Seq(Line) /\ (lines[s] # <<>> => mtime[s] > 0)
    BY DEF NamedInv, ShowInv, LineInv
  <2>2. \E i \in DOMAIN lines[s] : lines[s][i].kind = "prompt"
    BY DEF ScanMetadata
  <2>3. lines[s] # <<>>
    BY <2>2
  <2> QED  BY <2>1, <2>3
<1>6. ScanTitle(s) = q \/ RegistryName(Read, s) = q
  <2>1. q = RegistryName(Read, s) \/ q = BestTitle(ScanMetadata(lines[s]))
    BY <1>1 DEF Shown, DisplayName
  <2>2. CASE q = BestTitle(ScanMetadata(lines[s]))
    BY <1>1, <2>2, ScanTitleIs DEF NamedInv, ShowInv
  <2> QED  BY <2>1, <2>2
<1>7. \A r \in titled : r.title = ScanTitle(r.session)
  OBVIOUS
<1>8. \A r \in named : r.title = RegistryName(Read, r.session)
  BY <1>4, WinnerNames
<1>9. ScanTitle(s) = q => [session |-> s, title |-> q] \in titled
  BY <1>1
<1>10. RegistryName(Read, s) = q => [session |-> s, title |-> q] \in named
  BY <1>1, <1>5, NamedWins
<1> HIDE DEF titled, named, present
<1>11. \E r \in M : r.session = s /\ r.title = q
  <2>1. PICK r : r = [session |-> s, title |-> q]
    OBVIOUS
  <2>2. r.session = s /\ r.title = q
    BY <2>1
  <2>3. CASE ScanTitle(s) = q
    <3>1. r \in Matches(titled, q)
      BY <1>9, <2>1, <2>2, <2>3 DEF Matches, Exact
    <3> QED  BY <1>2, <2>2, <3>1 DEF MergeTitleRefs
  <2>4. CASE ScanTitle(s) # q
    <3>1. r \in Matches(named, q)
      BY <1>6, <1>10, <2>1, <2>2, <2>4 DEF Matches, Exact
    <3>2. ASSUME NEW b \in Matches(titled, q), b.session = s PROVE FALSE
      <4>1. b \in titled /\ (b.title = q \/ <<b.title, q>> \in Contains)
        BY DEF Matches, Exact
      <4>2. b.title = ScanTitle(s)
        BY <1>7, <3>2, <4>1
      <4> QED  BY <1>1, <2>4, <4>1, <4>2
    <3> QED  BY <1>2, <2>2, <3>1, <3>2 DEF MergeTitleRefs
  <2> QED  BY <2>3, <2>4
<1>12. Find(q) = {r \in M : r.title = q}
  BY <1>3, <1>11 DEF PreferExact, Exact
<1>13. \A r \in M : r \in titled \/ r \in named
  BY <1>2 DEF MergeTitleRefs, Matches, Exact
<1>14. ASSUME NEW r \in Find(q)
       PROVE  q \in {ScanTitle(r.session), RegistryName(Read, r.session)}
  BY <1>7, <1>8, <1>12, <1>13
<1>15. \E r \in Find(q) : r.session = s
  BY <1>11, <1>12
<1> QED  BY <1>1, <1>14, <1>15

(* Whatever sessions, titles and registry files there are, the name that a *)
(* session is shown under finds it, and nothing that has another name      *)
(* (names.go, FindTitleMatches), under the condition NameResolves states.  *)
THEOREM Spec_NameResolves == Spec => []NameResolves
  BY NamedInit, NamedNext, NamesResolve, PTL DEF Spec

============================================================================
