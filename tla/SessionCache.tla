---------------------------- MODULE SessionCache ----------------------------
(***************************************************************************)
(* Session lists over transcripts that are being written.  A listing takes *)
(* the modification times of all session files, then gets each file's      *)
(* metadata, from the cache when the entry has that modification time and  *)
(* from a scan otherwise, and then looks at the session's workflow runs.   *)
(* Sessions write on in between, several listings share one cache, and the *)
(* clock that stamps files advances in ticks, so that two writes may get   *)
(* one modification time.                                                  *)
(*                                                                         *)
(* A transcript is reduced to what a listing reads from it: "prompt" is a  *)
(* user turn, "work" AI activity, "answer" an event that ends it, "custom" *)
(* and "ai" are title entries.  DiscoverScan has the scan's own details.   *)
(***************************************************************************)
EXTENDS Integers, Sequences

CONSTANTS Session,   \* session files
          Title,     \* titles
          NoTitle,   \* the empty title
          Picker,    \* listings that may run at once
          Threshold, \* OngoingStalenessThreshold, in ticks
          NoEntry,   \* no cache entry
          MaxTime,   \* bounds on the clock, on a transcript, and on the
          MaxLines,  \*   scans that cannot open their file
          MaxFaults

ASSUME CacheAssumption ==
    /\ NoTitle \notin Title
    /\ Threshold \in Nat /\ MaxTime \in Nat /\ MaxLines \in Nat /\ MaxFaults \in Nat

Line == [kind : {"prompt", "work", "answer"}, title : {NoTitle}]
        \cup [kind : {"custom", "ai"}, title : Title]

Meta == [customTitle : Title \cup {NoTitle}, aiTitle : Title \cup {NoTitle},
         turns : BOOLEAN, isOngoing : BOOLEAN]

ASSUME NoEntryAssumption == NoEntry \notin [modTime : Nat, meta : Meta, at : Nat, ok : BOOLEAN]

VARIABLES now,     \* the clock that stamps files
          lines,   \* the transcripts
          mtime,   \* their modification times; 0 when there is no file yet
          wfWrite, \* the last write to a workflow run of the session, or 0
          cache,   \* SessionCache.entries; `at` and `ok` record when the entry was
                   \*   scanned and whether the file could be opened
          listed,  \* of each listing: the modification times it took, or <<>>
          todo,    \* the files it has still to get metadata for
          row,     \* the session it is about to add
          rows,    \* those it has added
          since,   \* what each session was since the listing began
          faults

world == <<now, lines, mtime, wfWrite>>
list  == <<listed, todo, row, rows>>
cacheVars == <<world, cache, list, since, faults>>

(* What a session was before a listing began to look. *)
Unseen == [metas |-> {}, ongoing |-> {}, written |-> FALSE]

CacheInit ==
    /\ now = 1
    /\ lines = [s \in Session |-> <<>>] /\ mtime = [s \in Session |-> 0]
    /\ wfWrite = [s \in Session |-> 0]
    /\ cache = [s \in Session |-> NoEntry]
    /\ listed = [i \in Picker |-> <<>>]
    /\ todo = [i \in Picker |-> {}]
    /\ row = [i \in Picker |-> NoEntry] /\ rows = [i \in Picker |-> {}]
    /\ since = [i \in Picker |-> [s \in Session |-> Unseen]]
    /\ faults = 0

----------------------------------------------------------------------------
(* Claude Code and the clock. *)

AppendTo(s, l) ==
    /\ Len(lines[s]) < MaxLines
    /\ lines' = [lines EXCEPT ![s] = Append(@, l)]
    /\ mtime' = [mtime EXCEPT ![s] = now]
    /\ UNCHANGED <<now, wfWrite>>

WriteLine(s) == (\E l \in Line : AppendTo(s, l)) /\ UNCHANGED <<cache, list, faults>>

(* An agent of a background workflow writes; the transcript stays silent.  *)
WorkflowWrite(s) ==
    /\ mtime[s] > 0
    /\ wfWrite' = [wfWrite EXCEPT ![s] = now]
    /\ UNCHANGED <<now, lines, mtime, cache, list, faults>>

Tick ==
    /\ now < MaxTime
    /\ now' = now + 1
    /\ UNCHANGED <<lines, mtime, wfWrite, cache, list, faults>>

----------------------------------------------------------------------------
(* scanSessionMetadata. *)

(* The last entry of one of the kinds K, or 0.                             *)
LastOf(d, K) ==
    LET I == {0} \cup {i \in 1 .. Len(d) : d[i].kind \in K} IN CHOOSE i \in I : \A j \in I : j <= i

TitleOf(d, k) == LET i == LastOf(d, {k}) IN IF i = 0 THEN NoTitle ELSE d[i].title

ScanMetadata(d) ==
    LET last == LastOf(d, {"work", "answer"})
    IN  [customTitle |-> TitleOf(d, "custom"), aiTitle |-> TitleOf(d, "ai"),
         turns       |-> \E i \in DOMAIN d : d[i].kind = "prompt",
         isOngoing   |-> last # 0 /\ d[last].kind = "work"]

(* A file that cannot be opened.                                           *)
ZeroMeta == [customTitle |-> NoTitle, aiTitle |-> NoTitle, turns |-> FALSE, isOngoing |-> FALSE]

BestTitle(meta) == IF meta.customTitle # NoTitle THEN meta.customTitle ELSE meta.aiTitle

Fresh(t) == now - t <= Threshold

WorkflowActive(s) == wfWrite[s] > 0 /\ Fresh(wfWrite[s])

----------------------------------------------------------------------------
(* SessionCache.DiscoverProjectSessions. *)

(* listSessionFiles.                                                       *)
List(i) ==
    /\ listed[i] = <<>>
    /\ listed' = [listed EXCEPT ![i] = mtime]
    /\ todo' = [todo EXCEPT ![i] = {s \in Session : mtime[s] > 0}]
    /\ UNCHANGED <<world, cache, row, rows, faults>>

Hit(s, m) == cache[s] # NoEntry /\ cache[s].modTime = m
(* Variant: an entry is kept when there is one, under the new time.        *)
CachedKept(s, m, ok) ==
    [modTime |-> m, at |-> now, ok |-> ok,
     meta |-> IF cache[s] # NoEntry THEN cache[s].meta
              ELSE IF ok THEN ScanMetadata(lines[s]) ELSE ZeroMeta]

(* The entry a scan puts in the cache, under the modification time the     *)
(* listing took before.                                                    *)
Cached(s, m, ok) ==
    [modTime |-> m, meta |-> IF ok THEN ScanMetadata(lines[s]) ELSE ZeroMeta,
     at |-> now, ok |-> ok]

(* The metadata is what the file held during the listing unless the file   *)
(* could not be opened or was written again within the tick of its scan.   *)
Sure(e, hit) == e.ok /\ (hit => e.at # e.modTime)
(* Variant: the verdict is not held against the clock.                     *)
RowUngated(i, s, e, hit) ==
    [session |-> s, meta |-> e.meta, ongoing |-> e.meta.isOngoing, sure |-> Sure(e, hit)]

(* A silent file is not ongoing, whatever its last entry says.             *)
Row(i, s, e, hit) ==
    [session |-> s, meta |-> e.meta,
     ongoing |-> e.meta.isOngoing /\ Fresh(listed[i][s]), sure |-> Sure(e, hit)]

(* getOrScan, under the cache's mutex, and the staleness check.  A session *)
(* without turns is a ghost, which is left out.                            *)
GetOrScan(i, s) ==
    /\ s \in todo[i] /\ row[i] = NoEntry
    /\ todo' = [todo EXCEPT ![i] = @ \ {s}]
    /\ \E ok \in BOOLEAN :
          LET hit == Hit(s, listed[i][s])
              e   == IF hit THEN cache[s] ELSE Cached(s, listed[i][s], ok)
          IN  /\ ok \/ (~ hit /\ faults < MaxFaults)
              /\ faults' = IF ok THEN faults ELSE faults + 1
              /\ cache' = [cache EXCEPT ![s] = e]
              /\ row' = IF e.meta.turns THEN [row EXCEPT ![i] = Row(i, s, e, hit)] ELSE row
    /\ UNCHANGED <<world, listed, rows>>

(* ScanWorkflowActivity, and the session joins the list.                   *)
AddRow(i) ==
    /\ row[i] # NoEntry
    /\ rows' = [rows EXCEPT ![i] = @ \cup
          {[row[i] EXCEPT !.ongoing = @ \/ WorkflowActive(row[i].session)]}]
    /\ row' = [row EXCEPT ![i] = NoEntry]
    /\ UNCHANGED <<world, cache, listed, todo, faults>>

(* The list is returned and shown until the next one.                      *)
Return(i) ==
    /\ listed[i] # <<>> /\ todo[i] = {} /\ row[i] = NoEntry
    /\ listed' = [listed EXCEPT ![i] = <<>>]
    /\ rows' = [rows EXCEPT ![i] = {}]
    /\ UNCHANGED <<world, cache, todo, row, faults>>

----------------------------------------------------------------------------
(* What a session was since a listing began. *)

OngoingNow(s) == (ScanMetadata(lines[s]).isOngoing /\ Fresh(mtime[s])) \/ WorkflowActive(s)

Witness ==
    since' = [i \in Picker |-> [s \in Session |->
        IF listed'[i] = <<>> THEN Unseen
        ELSE [metas   |-> since[i][s].metas \cup {ScanMetadata(lines[s])'},
              ongoing |-> since[i][s].ongoing \cup {OngoingNow(s)'},
              written |-> since[i][s].written \/ (listed[i] # <<>> /\ lines'[s] # lines[s])]]]

CacheStep ==
    \/ \E s \in Session : WriteLine(s) \/ WorkflowWrite(s)
    \/ Tick
    \/ \E i \in Picker : List(i) \/ (\E s \in Session : GetOrScan(i, s)) \/ AddRow(i) \/ Return(i)

CacheNext == CacheStep /\ Witness

CacheSpec == CacheInit /\ [][CacheNext]_cacheVars

----------------------------------------------------------------------------
(* Properties. *)

(* An entry that the cache would serve for the file as it is now is what a *)
(* scan of the file would give, unless the file was scanned within the     *)
(* tick of its last write or could not be opened.                          *)
CacheSound ==
    \A s \in Session :
        /\ cache[s] # NoEntry
        /\ cache[s].modTime = mtime[s] /\ cache[s].at # mtime[s] /\ cache[s].ok
        => cache[s].meta = ScanMetadata(lines[s])

(* A listing shows every session as it was at some moment since it began:  *)
(* title, turns, ongoing or not, although it takes them one after another  *)
(* from the directory, the cache, the file and the workflow runs.  One     *)
(* that is written during the listing may be shown as not ongoing.         *)
ListingTrue ==
    \A i \in Picker : \A r \in rows[i] : r.sure =>
        LET was == since[i][r.session]
        IN  /\ r.meta \in was.metas
            /\ r.ongoing \in was.ongoing \/ (~ r.ongoing /\ was.written)
============================================================================
