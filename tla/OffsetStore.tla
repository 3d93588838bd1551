---------------------------- MODULE OffsetStore ----------------------------
(***************************************************************************)
(* offsetstore.Store: short-lived processes ("ticks") read what was        *)
(* appended to a transcript since the previous tick, fold it into an       *)
(* extraction snapshot and persist offset and snapshot together in one     *)
(* state file.                                                             *)
(*                                                                         *)
(* Several ticks may be in flight at once, and each may be killed between  *)
(* any two system calls.  The state file is a name in a directory that     *)
(* points to an inode; Save goes through a second name, target + ".tmp",   *)
(* which every process saving this state file shares.  All transcripts of  *)
(* Path have the same pathHash, hence the same state file.                 *)
(*                                                                         *)
(* A snapshot is the set of lines folded into it; each is tagged with its  *)
(* transcript and with the schema version of the extraction that folded    *)
(* it, so that a mixture would show.                                       *)
(***************************************************************************)
EXTENDS JsonLines, FiniteSets

CONSTANTS Proc,        \* process slots, each running one tick after another
          Path,        \* transcripts whose pathHash coincides
          Schema,      \* schema versions of the binaries in use
          Inode,       \* inodes of the state directory
          NoPath,      \* the empty TranscriptPath of a zero stateFile
          NoInode,     \* a name that does not exist, a file that is not open
          Empty, Torn, \* file contents that are not a state file
          MaxLen,      \* bound on a transcript's length, in cells
          MaxFaults,   \* bound on killed ticks and failed system calls
          MaxTruncs    \* bound on truncations of a transcript

ASSUME StoreAssumption ==
    /\ NoPath \notin Path
    /\ NoInode \notin Inode
    /\ Schema # {}
    /\ MaxLen \in Nat /\ MaxFaults \in Nat /\ MaxTruncs \in Nat

VARIABLES data,     \* the transcripts
          target,   \* the inode ".ts-<hash>.json" names
          tmp,      \* the inode ".ts-<hash>.json.tmp" names
          content,  \* what each inode holds
          stale,    \* the inodes not modified for stateFileTTL
          sweeping, \* a sweep has found the state file stale
          pc,       \* where each tick is
          store,    \* each tick's Store, with its open temporary file
          faults,   \* killed ticks and failed system calls so far
          truncs    \* truncations so far

files == <<target, tmp, content, stale>>
vars  == <<data, target, tmp, content, stale, sweeping, pc, store, faults, truncs>>

----------------------------------------------------------------------------
Line      == Nat \X Nat
Folded    == Path \X Schema \X Line
StateFile == [schema : Schema, path : Path, off : Nat, snap : SUBSET Folded]

IsStateFile(c) == c \notin {Empty, Torn}

(* What loadState returns when there is nothing it can use.                *)
ZeroState(v) == [schema |-> v, path |-> NoPath, off |-> 0, snap |-> {}]

Store == [path : Path \cup {NoPath}, schema : Schema,
          sf : [schema : Schema, path : Path \cup {NoPath}, off : Nat,
                snap : SUBSET Folded],
          loaded : SUBSET Folded, start : Nat,
          lines : SUBSET Line, offset : Nat, fd : Inode \cup {NoInode}]

NewStore(p, v, f) ==
    [path |-> p, schema |-> v, sf |-> f, loaded |-> f.snap, start |-> 0,
     lines |-> {}, offset |-> 0, fd |-> NoInode]

AnySchema == CHOOSE v \in Schema : TRUE
NoStore   == NewStore(NoPath, AnySchema, ZeroState(AnySchema))

(* The lines ls of p as an extraction of version v folds them.             *)
Fold(p, v, ls) == {<<p, v, l>> : l \in ls}

(* The process is at step `from` and moves on to step `to`.                *)
Goto(i, from, to) == pc[i] = from /\ pc' = [pc EXCEPT ![i] = to]
(* Variant: the temporary file stays open.                                 *)
ExitLeaking(i) == pc' = [pc EXCEPT ![i] = "idle"] /\ UNCHANGED store

(* The process ends: its memory and its open file are gone.                *)
Exit(i) ==
    /\ pc'    = [pc EXCEPT ![i] = "idle"]
    /\ store' = [store EXCEPT ![i] = NoStore]

(* An inode lives as long as it has a name or is open somewhere.  Once it  *)
(* has lost the last of these the file system frees it.                    *)
Live == {target, tmp} \cup {store[j].fd : j \in Proc}

Freed(c, n) == IF n \in Live' THEN c ELSE [c EXCEPT ![n] = Empty]

Init ==
    /\ data = [p \in Path |-> <<>>]
    /\ target = NoInode /\ tmp = NoInode
    /\ content = [n \in Inode |-> Empty]
    /\ stale = {} /\ sweeping = FALSE
    /\ pc = [i \in Proc |-> "idle"]
    /\ store = [i \in Proc |-> NoStore]
    /\ faults = 0 /\ truncs = 0

----------------------------------------------------------------------------
(* The transcript's writer. *)

AppendCell(p) ==
    /\ Len(data[p]) < MaxLen
    /\ \E c \in Cell : data' = [data EXCEPT ![p] = Append(@, c)]
    /\ UNCHANGED <<files, sweeping, pc, store, faults, truncs>>

(* The transcript is cut short.                                            *)
Truncate(p) ==
    /\ truncs < MaxTruncs
    /\ truncs' = truncs + 1
    /\ \E k \in 0 .. Len(data[p]) - 1 :
          data' = [data EXCEPT ![p] = SubSeq(@, 1, k)]
    /\ UNCHANGED <<files, sweeping, pc, store, faults>>

----------------------------------------------------------------------------
(* One tick: New, ReadIncremental, the caller's fold, SetSnapshot, Save. *)

(* The state file counts only if it exists, parses and was written by this *)
(* schema version.                                                         *)
Usable(v) ==
    /\ target # NoInode
    /\ IsStateFile(content[target])
    /\ content[target].schema = v

LoadState(i, p, v) ==
    /\ Goto(i, "idle", "loaded")
    /\ store' = [store EXCEPT ![i] =
           NewStore(p, v, IF Usable(v) THEN content[target] ELSE ZeroState(v))]
    /\ UNCHANGED <<data, files, sweeping, faults, truncs>>
(* Variant: an offset past the end is resumed from.                        *)
ResumeUnchecked(s, size) == s.sf.path = s.path /\ s.sf.off > 0

(* Open, and Stat when there is an offset to check against the size.       *)
Resume(s, size) ==
    s.sf.path = s.path /\ s.sf.off > 0 /\ s.sf.off <= size

(* Variant: what was loaded for another transcript is kept.                *)
DiscardTruncated(s, size) == s.sf.path = s.path /\ s.sf.off > size

Discard(s, size) ==
    \/ s.sf.path = s.path /\ s.sf.off > size
    \/ s.sf.path # NoPath /\ s.sf.path # s.path

ResolveStart(i) ==
    LET s    == store[i]
        size == Len(data[s.path])
    IN  /\ Goto(i, "loaded", "seeked")
        /\ store' = [store EXCEPT
               ![i].start  = IF Resume(s, size) THEN s.sf.off ELSE 0,
               ![i].loaded = IF Discard(s, size) THEN {} ELSE @]
        /\ UNCHANGED <<data, files, sweeping, faults, truncs>>
(* Variants: an unterminated tail is confirmed too; the offset is counted  *)
(* from where the read began.                                              *)
ReadAllToEnd(i) ==
    /\ Goto(i, "seeked", "read")
    /\ store' = [store EXCEPT
           ![i].lines  = ValidLines(data[store[i].path], store[i].start),
           ![i].offset = Len(data[store[i].path])]
    /\ UNCHANGED <<data, files, sweeping, faults, truncs>>

ReadAllRelative(i) ==
    LET s == store[i]
        d == data[s.path]
    IN  /\ Goto(i, "seeked", "read")
        /\ store' = [store EXCEPT
               ![i].lines  = ValidLines(d, s.start),
               ![i].offset = ConfirmedEnd(d, s.start) - s.start]
        /\ UNCHANGED <<data, files, sweeping, faults, truncs>>

(* Seek, ReadAll and splitLines.  A start past the end reads nothing.      *)
ReadAll(i) ==
    LET s == store[i]
        d == data[s.path]
    IN  /\ Goto(i, "seeked", "read")
        /\ store' = [store EXCEPT
               ![i].lines  = ValidLines(d, s.start),
               ![i].offset = IF s.start <= Len(d) THEN ConfirmedEnd(d, s.start)
                                                  ELSE s.start]
        /\ UNCHANGED <<data, files, sweeping, faults, truncs>>

(* What the caller accumulates: the snapshot it loaded and the new lines.  *)
Accumulated(s) == s.loaded \cup Fold(s.path, s.schema, s.lines)

(* os.WriteFile opens the temporary file: it truncates an existing one and *)
(* creates a missing one.                                                  *)
TmpInode == IF tmp # NoInode THEN tmp ELSE CHOOSE n \in Inode : n \notin Live

OpenTmp(i) ==
    /\ Goto(i, "read", "opened")
    /\ tmp # NoInode \/ Inode \ Live # {}
    /\ tmp' = TmpInode
    /\ content' = [content EXCEPT ![TmpInode] = Empty]
    /\ stale' = stale \ {TmpInode}
    /\ store' = [store EXCEPT ![i].fd = TmpInode]
    /\ UNCHANGED <<data, target, sweeping, faults, truncs>>
(* Variant: the offset loaded is persisted with the new snapshot.          *)
RecordOldOffset(s) == [schema |-> s.schema, path |-> s.path, off |-> s.sf.off,
                       snap |-> Accumulated(s)]

(* The record Save marshals.                                               *)
Record(s) == [schema |-> s.schema, path |-> s.path, off |-> s.offset,
              snap |-> Accumulated(s)]

(* The write goes to the open inode from byte 0.  Over other content it    *)
(* leaves the record r, or, when that was longer, r followed by its tail.  *)
WriteOver(old, r) == IF old \in {Empty, r} THEN {r} ELSE {r, Torn}

WriteTmp(i) ==
    LET n == store[i].fd
    IN  /\ Goto(i, "opened", "written")
        /\ store' = [store EXCEPT ![i].fd = NoInode]
        /\ stale' = stale \ {n}
        /\ UNCHANGED <<data, target, tmp, sweeping, faults, truncs>>
        /\ \E c \in WriteOver(content[n], Record(store[i])) :
              content' = Freed([content EXCEPT ![n] = c], n)
(* Variant: an existing state file is not replaced.                        *)
RenameOnce(i) ==
    /\ pc[i] = "written"
    /\ IF tmp = NoInode \/ target # NoInode THEN UNCHANGED <<target, tmp>>
                                            ELSE target' = tmp /\ tmp' = NoInode
    /\ Exit(i)
    /\ UNCHANGED <<data, stale, sweeping, faults, truncs>>
    /\ content' = Freed(content, target)

(* Rename moves whatever inode the temporary name has by now; without one  *)
(* it fails, and Save with it.                                             *)
Rename(i) ==
    /\ pc[i] = "written"
    /\ IF tmp = NoInode THEN UNCHANGED <<target, tmp>>
                        ELSE target' = tmp /\ tmp' = NoInode
    /\ Exit(i)
    /\ UNCHANGED <<data, stale, sweeping, faults, truncs>>
    /\ content' = Freed(content, target)

(* The tick ends before it saved: ReadIncremental or MkdirAll returned an  *)
(* error, or the process was killed.                                       *)
Quit(i) ==
    /\ pc[i] # "idle" /\ faults < MaxFaults
    /\ faults' = faults + 1
    /\ Exit(i)
    /\ UNCHANGED <<data, target, tmp, stale, sweeping, truncs>>
    /\ content' = Freed(content, store[i].fd)

(* The write fails part way; Save returns the error, the file stays.       *)
WriteFails(i) ==
    /\ pc[i] = "opened" /\ faults < MaxFaults
    /\ faults' = faults + 1
    /\ Exit(i)
    /\ stale' = stale \ {store[i].fd}
    /\ UNCHANGED <<data, target, tmp, sweeping, truncs>>
    /\ content' = Freed([content EXCEPT ![store[i].fd] = Torn], store[i].fd)

----------------------------------------------------------------------------
(* sweepStaleStateFiles, run by a Save of some other transcript. *)

(* stateFileTTL passes without a tick.                                     *)
Age ==
    /\ \A i \in Proc : pc[i] = "idle"
    /\ target # NoInode
    /\ stale' = stale \cup {target}
    /\ UNCHANGED <<data, target, tmp, content, sweeping, pc, store, faults, truncs>>

(* entry.Info finds a modification time before the cutoff.                 *)
SweepInfo ==
    /\ target # NoInode /\ target \in stale
    /\ sweeping' = TRUE
    /\ UNCHANGED <<data, files, pc, store, faults, truncs>>

(* os.Remove removes whatever the name has by now.                         *)
SweepRemove ==
    /\ sweeping
    /\ sweeping' = FALSE
    /\ target' = NoInode
    /\ UNCHANGED <<data, tmp, stale, pc, store, faults, truncs>>
    /\ content' = Freed(content, target)

----------------------------------------------------------------------------
Tick(i) ==
    \/ \E p \in Path, v \in Schema : LoadState(i, p, v)
    \/ ResolveStart(i) \/ ReadAll(i)
    \/ OpenTmp(i) \/ WriteTmp(i) \/ Rename(i)

Fault(i) == Quit(i) \/ WriteFails(i)

Sweep == Age \/ SweepInfo \/ SweepRemove

Next ==
    \/ \E p \in Path : AppendCell(p)
    \/ \E i \in Proc : Tick(i) \/ Fault(i)
    \/ Sweep

(* The transcripts are append-only, as their writer leaves them.           *)
Spec == Init /\ [][Next]_vars

(* Ticks are rerun for ever, and a running tick is scheduled.              *)
FairSpec == Spec /\ \A i \in Proc : WF_vars(Tick(i))

(* Transcripts that may also be cut short.                                 *)
TruncNext == Next \/ \E p \in Path : Truncate(p)

FairTruncSpec ==
    Init /\ [][TruncNext]_vars /\ \A i \in Proc : WF_vars(Tick(i))
----------------------------------------------------------------------------
(* Properties. *)

(* Every variable keeps its type, and only a process between opening and   *)
(* writing its temporary file holds an open one.                           *)
TypeOK ==
    /\ data \in [Path -> Seq(Cell)]
    /\ target \in Inode \cup {NoInode}
    /\ tmp \in Inode \cup {NoInode}
    /\ content \in [Inode -> StateFile \cup {Empty, Torn}]
    /\ stale \subseteq Inode
    /\ sweeping \in BOOLEAN
    /\ pc \in [Proc -> {"idle", "loaded", "seeked", "read", "opened", "written"}]
    /\ store \in [Proc -> Store]
    /\ \A i \in Proc : /\ pc[i] = "opened" <=> store[i].fd # NoInode
                       /\ pc[i] # "idle" => store[i].path \in Path
    /\ faults \in Nat /\ truncs \in Nat

(* The record f is exact for its transcript d: its offset is a line start  *)
(* and its snapshot holds every complete valid line before that offset,    *)
(* once, folded by the record's own schema version, and nothing else.      *)
ExactFor(d, f) ==
    /\ f.off <= Len(d)
    /\ LineStart(d, f.off)
    /\ f.snap = Fold(f.path, f.schema, LinesUpTo(d, f.off))

Exact(f) == ExactFor(data[f.path], f)

(* However ticks, kills, sweeps and hash collisions interleave, a state    *)
(* file a later tick can load is exact: offset and snapshot are never torn *)
(* apart (Save persists both in one record).                               *)
ExactSnapshot ==
    target # NoInode /\ IsStateFile(content[target]) => Exact(content[target])

(* What one tick works with adds up: ReadIncremental hands out no line the *)
(* snapshot it returns through LoadSnapshot already holds, and together    *)
(* they are the complete lines before the offset Save is going to persist, *)
(* so no tick acts on a half-written line even when that already parses.   *)
ExactTick ==
    \A i \in Proc : pc[i] = "read" =>
        LET s == store[i] IN
        /\ s.loaded \cap Fold(s.path, s.schema, s.lines) = {}
        /\ Exact(Record(s))

(* "Writes to a temp file then renames to prevent partial reads from       *)
(* concurrent processes" (Save): the state file is never incomplete.       *)
NoPartialReads == target # NoInode => IsStateFile(content[target])

(* A transcript's stored offset moves backwards only when ticks overlap:   *)
(* what is written or renamed is another tick's record, or the state file  *)
(* is no longer the one that the tick loaded.                              *)
OffsetNeverRegresses ==
    [][ LET f == content[target]
            g == content'[target']
        IN  (/\ target # NoInode /\ target' # NoInode
             /\ IsStateFile(f) /\ IsStateFile(g)
             /\ f.path = g.path /\ f.schema = g.schema
             /\ g.off < f.off)
            => \E i \in Proc : /\ pc'[i] # pc[i]
                              /\ (store[i].sf # f \/ Record(store[i]) # g) ]_vars

(* The record a tick that loads now can use, and the records that may      *)
(* still become it: the inodes' and those of the ticks that have read.     *)
Saved == IF target # NoInode /\ IsStateFile(content[target]) THEN {content[target]} ELSE {}

Extracted ==
    {content[n] : n \in {n \in Inode : IsStateFile(content[n])}}
        \cup {Record(store[i]) : i \in {i \in Proc : pc[i] \in {"read", "opened"}}}

Promise == INSTANCE FullExtraction WITH extracted <- Extracted, saved <- Saved

(* Reading in increments is reading everything: whatever ticks resumed     *)
(* from, and however they overlapped, failed or were swept away, the state *)
(* file only ever changes to what one complete read of a transcript gave.  *)
LikeFullExtraction == Promise!Spec

(* A record with the transcript's offset at n or beyond is on disk.        *)
Persisted(p, n) ==
    /\ target # NoInode /\ IsStateFile(content[target])
    /\ content[target].path = p /\ content[target].off >= n

(* Every completed line is eventually behind a persisted offset, unless    *)
(* the transcript is cut before it, although saves overlap, fail and are   *)
(* swept.                                                                  *)
EveryLinePersisted ==
    \A p \in Path, n \in 1 .. MaxLen :
        (n <= Len(data[p]) /\ data[p][n] = Newline)
            ~> (Persisted(p, n) \/ Len(data[p]) < n)

(* An offset beyond the end of a truncated transcript does not stay on     *)
(* disk: a tick notices, starts over and replaces it.                      *)
StaleOffsetReplaced ==
    \A p \in Path : Persisted(p, Len(data[p]) + 1) ~> ~ Persisted(p, Len(data[p]) + 1)
============================================================================
