# Verification of agent-ouija

agent-ouija is a Go library that observes coding agents: it reads the
transcripts, settings, pid files and logs that Claude Code and Codex leave on
disk and turns them into sessions, conversation chunks, team boards and
statuses. It never talks to the agents. All of its difficulty comes from
reading files that other processes are writing, and from short-lived processes
of its own that share files.

## 1. Inventory

| Component (source) | State | Operations | Interacts with | What makes it correct |
|---|---|---|---|---|
| `offsetstore` | one state file per transcript: schema version, path, byte offset, extraction snapshot; a shared temporary file | `New`, `ReadIncremental`, `LoadSnapshot`, `SetSnapshot`, `Save`, the stale-file sweep | the transcript's writer, other ticks, other transcripts with the same hash prefix | every complete line reaches the snapshot once; offset and snapshot never come apart |
| `jsonl` (`Reader`, tail reads) | position, terminated position, last line terminated | `Next`, `Err`, `BytesRead`, `TerminatedBytesRead`, `LastLineTerminated` | every reader of transcripts | counters always point behind what was returned |
| `claude/transcript` reading | caller's offset | `ReadSession`, `ReadSessionIncremental` | `jsonl`, a resident watcher, Claude Code appending | whole entries, each once, none lost, none waiting for a newline that never comes |
| `claude/transcript` pipeline | none between calls; inside: AI buffer, pending map, item starts | `Classify`, `BuildChunks`, `IsOngoing` | viewers, team reconstruction | entries shown once, results on their calls, settled chunks stable |
| `claude/discover` | per scan: turn counter, ending index, flags, pending ids; a cache by modification time | `scanSessionMetadata`, `discoverSessions`, `SessionCache`, title search | provider, session lists | the one-pass verdict is the one the transcript gives |
| `claude/agents` | links from sidecar transcripts to calls; team boards | `LinkSubagents`, `DiscoverTeamSessions`, `ReconstructTeams` | chunks, sidecar files | every subagent has one parent; a board replays the lead's calls |
| `claude/settings` | `settings.json` | `RegisterHooks`, `writeSettings` | other writers of the file | no reader sees a partial file; unrelated keys survive |
| `claude/debuglog` | caller's offset | `ReadDebugLog`, `ReadDebugLogIncremental`, `CollapseDuplicates` | Claude Code appending | increments add up to the log: every entry once, with its line number and continuations |
| `claude/registry`, `claude/names` | pid files that outlive their processes, session names | `Read`, `NameResolver`, `FindNameMatches` | processes starting, resuming and ending; titles in transcripts; launchers that stamp them | a renamed session keeps its name, and the name shown finds it |
| root `sessions`, providers | registered providers | `Registry.Discover`, `Provider.Discover` | Claude and Codex discovery | one failing provider does not hide the others; limits leave the newest of all |
| `codex/rollout`, `codex/discover` | trailing status of a rollout | status fold, `NeedsEvidence`, `Reconcile`, `SessionSnapshot` | hook events, Codex appending | a hook event is overruled only by later evidence |
| hooks, statusline, tools, gitroot, claudedir, patterns | none | decoding and formatting | | pure |

Hard behaviour: ticks of `offsetstore` overlap and die at any point, and all
share one temporary name; files grow, are cut short or vanish between two
system calls; the last line of a file may be half written, or whole without its
newline; results, rejections and interruptions arrive in any order; two parts
of the code answer the same question from different data. `PROJECT.json`
lists each such hazard at its line.

## 2. Modules

    JsonLines ── OffsetStore (INSTANCE FullExtraction) ── MCOffsetStore
        │             └── OffsetStoreProofs
        └────── SessionTail ── MCSessionTail
                    └── SessionTailProofs
    Entries ── DiscoverScan ── Session (INSTANCE Chunks) ── MCSession
        └── Chunks                └── SessionProofs
    SessionCache ── Discovery (INSTANCE Registry, Providers) ── MCDiscovery
    Names ── Registry ──┘  └── DiscoveryProofs
    Providers ──────────┘
    DebugLog ── DebugLogProofs
    Subagents ── Teams ── AgentView ── MCAgentView
                              └── AgentViewProofs
    HookFile ── HookRegister (abstract)
        └────── Settings (INSTANCE HookRegister) ── MCSettings
                    └── SettingsProofs
    Rollout ── MCRollout
        └── RolloutProofs

**JsonLines** defines files as sequences of cells (a newline, or a piece of
text) and what `splitLines` makes of them: `ValidLines(d, s)` are the places of
the complete valid lines read from offset `s`, `ConfirmedEnd(d, s)` the offset
after the last newline. `JSON`, the set of valid texts, is a parameter.

**OffsetStore** models `offsetstore.Store` at the level of system calls. A
process slot runs ticks one after another: `LoadState` (open and parse the
state file), `ResolveStart` (stat, resume or discard), `ReadAll` (seek, read,
split), `OpenTmp` and `WriteTmp` (the two halves of `os.WriteFile`), `Rename`.
The directory has two names, `target` and `tmp`, which point to inodes, so that
one process can rename the file another one has open. `Quit` and `WriteFails`
end a tick early; `Age`, `SweepInfo` and `SweepRemove` are the sweep that a
save of another transcript runs. A snapshot is the set of lines folded into
it, tagged with transcript and schema version, so that any mixture shows.
The paths in `Path` are those whose 12-digit hashes coincide.
**FullExtraction** is what it promises its callers: every tick reads its whole
transcript in one step and remembers nothing, and the state file is replaced by
an extraction as a whole or lost as a whole.

**SessionTail** models `ReadSessionIncremental` driven by a watcher with file
events: `StartRead`, then one action per line as `jsonl.Reader` returns it
(`TerminatedLine`, `OversizedTail`, `UnterminatedTail`, `EndOfFile`,
`ReadError`), while `AppendCell` lets the file grow between any two of them.

**Entries** is the alphabet of transcript entries. An entry carries one content
block, the form in which Claude Code streams a response to the transcript.
**DiscoverScan** is `scanSessionMetadata`'s ongoing detection and turn counting
as a state machine with one action per kind of entry; its variables are those
of the Go function. **Chunks** gives `Classify`, `BuildChunks`,
`mergeAIBuffer`, `buildCycles` and `IsOngoing` as operators: each pass over a
sequence (`Classified`, `Built`, `Merged`, `Answers`) is a recursive function of
how many elements have been read, so that it can be reasoned about. **Session**
composes them: a transcript that grows while the scan reads it and a viewer
rebuilds the chunks, so that both ongoing detectors judge the same entries.

**SessionCache** is `SessionCache.DiscoverProjectSessions` as the calls happen:
`List` takes all modification times, `GetOrScan` one file's metadata from the
cache or a scan, `AddRow` looks at the workflow runs and adds the session to the
list, `Return` ends it. Several listings share the cache; files are stamped by a
clock that advances in ticks, so two writes can share a modification time.
`since` remembers what each session was since a listing began. A transcript is
reduced to the events a listing reads.

**Names** gives the choice of one registry name per session, its arbitration
with the title, and the lookups by title and by name, as operators. **Registry**
is the files that processes keep, and `Read`. **Providers** is
`sessions.Registry.Discover` over the two providers: each cuts its own list,
one that fails is skipped, the union is cut again; Codex's walk and its reading
of states are two steps. **Discovery** composes the three with `SessionCache`:
sessions start, speak, are renamed and flushed with the stamp of a launcher,
end and are resumed, while listings, lookups and a discovery run.

**DebugLog** is `ReadDebugLogIncremental` in its two passes
(`CountLinesBeforeOffset`, then `Scan`) over a log that grows between them, with
the line scanner's limit and its treatment of `\r`, and `CollapseDuplicates`.

**Subagents** gives discovery and the phases of `LinkSubagents` (results,
sidecars, positions) as operators, **Teams** the three phases that make boards of the lead's
calls and the teammates' TaskUpdates, as recursive functions. **AgentView** is the session around
them: one action per thing that is written (a call, a transcript, its sidecar,
the result that names it, a TaskUpdate), in any order the agents run in, and a
viewer that reads the lead's chunks (`ReadChunks`) and then, when more has been
written, links and reconstructs from what is on disk (`Link`).

**HookFile** says what a `settings.json` is to `RegisterHooks`: how many entries
of each form it has for each command, and `gear`, the rest of the file.
**HookRegister** is the abstract promise: single steps between complete
documents. **Settings** is `RegisterHooks` system call by system call, by any
number of processes, with two names (the path, and the copy it may link to),
two temporary names and inodes; `ClaudeEdits` changes other keys, `Harden` the
permissions. A registration is a record; `Held`, the document it has read,
is what the refinement maps to the abstract `seen`.

**Rollout** is a Codex rollout that grows in half lines while a reader folds it
into its trailing state (`ReadLine`, `ReadFirstPart`, `ReadRest`, `EndOfFile`),
reconciles a hook event with it (`Hook`, `Judge`) or takes a snapshot, which
reads it a second time for the final message (`SessionSnapshot`, `ReadFinal`).

## 3. Runs

| Run | Question | Bounds |
|---|---|---|
| `offset_interleaved` | Do overlapping, killed and failing ticks keep every loadable state file and every tick exact? Do hash collisions and schema bumps mix snapshots? Is the offset monotone without overlap? Is every step one that reads its whole transcript at once (`LikeFullExtraction`)? | 2 processes, 3 inodes, 1 fault; either overlapping ticks on one transcript of 3 cells (a whole line and a partial one, or an empty line; of 2 cells when a sweep joins them), or ticks one after another on two transcripts of 2 and 1 cells in 2 schema versions |
| `offset_partial_reads` | Does temp-and-rename keep the state file complete when ticks overlap, as `Save`'s comment says? It does not. | 2 processes, 2 cells |
| `offset_liveness` | Is every completed line persisted in the end, and an offset beyond a cut transcript replaced? | 2 processes, 1 cell, 1 fault, 1 truncation |
| `session_tail` | Does the watcher show whole entries, each once, without waiting for a newline? | 9 cells: an entry, a line that is no entry and an oversized entry in any order; 1 read error |
| `session` | Is the one-pass verdict the one the whole transcript gives, and does it agree with the chunks? Are entries shown once, results on their calls, cycles a partition, settled chunks stable? | 5 entries, two tool ids: of the 15 that the verdicts tell apart, with at most one of thinking, a call without an id, a sidechain result and a synthetic answer, or of the 12 that are shown in different ways |
| `discovery` | Is what is listed true, although it comes from the directory, the cache, the file and the workflow runs at different moments? Do renames survive, do shown names resolve, do limits leave the newest? | five scenarios, below |
| `debug_log` | Do the increments of a growing log add up to it, and does collapsing count every run? | 6 cells, lines of at most 2 cells |
| `agents` | Has each call one agent at most, do results and sidecars win, do boards add up, and does a later refresh never show less? | 6 starting points (a session with one call that spawns two more; a team at work; a teammate of an earlier run, spawned again; teams that come and go), 1 to 3 transcripts, up to 2 updates |
| `settings` | Are registrations single steps between complete documents, and do links, single entries and other keys survive? | 2 processes, 2 commands, 3 inodes, 1 fault; link or file, present or not |
| `hardened_settings` | Does the replacement keep the permissions that the file had? It does not. | as `settings` |
| `rollout` | Was every verdict true at some moment of the read, and is a snapshot's message no older than its status? | 4 entries, a window of 5 half lines |
| `ongoing_agents` | Does an agent count as pending only while its result is missing, as `hasPendingAgents` says? It does not. | 4 entries |

Why the bounds suffice: two processes are all that is needed for every race on
the shared temporary name (a third only repeats one of them), and three inodes
are the two names plus one file that has lost its name while open. The same
holds for two registrations; a second command shows that one of several may be
there already. Two calls of each kind are what positions can confuse, and a
third shows what a later one does to them. A rollout's status depends on its
last entry that is no context and on the last context. Two cells hold a
complete line, three a complete and a partial one. The scan's state after an
entry depends on ids only through equality, and a violation of its properties
needs a call, what answers it and what comes between. The proofs remove the
bounds for the properties listed below.

The scenarios of `discovery` (`MCDiscovery`) hold a part of the system still
each, because the product of all is out of reach: "one list" of a session that
works, rests and runs workflows, for three ticks and with a threshold of one,
so that a verdict can go stale during the listing; "two lists" that share the
cache, with one file that cannot be opened once; "renamed", a session that is
renamed, stamped, ended and resumed under another pid; "looked up", two sessions
with up to two titles and names each, one name part of another and one too long
for the lookup's cap; "asked", two sessions and a rollout under a limit of one.
For the debug log, six cells hold three entries, an entry with a continuation
and another entry, or a line over the limit between two others.

Deadlock is checked except where a writer, a transcript or a bounded clock may
simply end (`session_tail`, `session`, `ongoing_agents`, `discovery`,
`debug_log`).

Fairness: `WF(Tick(i))`, because a caller reruns the tick for every status line
refresh and the operating system runs a started process; `WF(StartRead)` and
`WF(ReadLine)`, because the watcher handles its pending event and a read loop
goes on. The writers, faults, sweeps and truncations have none. Agents, settings and
rollouts are checked for safety only.

Every property of a passing run has a mutant: a variant of a definition such
as a plausible bug would make it (commented "Variant" in the modules), under
which the run reports the property violated.

### Conditions in the properties

Where a property needs a condition, the code does not give more:

* Two registrations that meet at `settings.json.tmp` may leave a torn file, and
  every later registration then fails; a change written between a
  registration's read and rename is lost (`CompleteFile`, `NothingLost`,
  `KeepsPromise`). A link to nothing is replaced by a file (`LinkKept`).
* Without a result or a sidecar, plain agents are paired with calls by position
  (`PositionalExact`), and a sidecar whose call the chunks do not have yet does
  not keep its teammate from being paired with another one. A teammate's
  transcript in `subagents/` with neither summary nor sidecar is taken for a
  plain agent's (`TeamsApart`, a part of `EvidenceWins`).
* Of a teammate spawned again only the latest session is looked at; the updates
  of the earlier one go, and until its result is written it is shown under the
  earlier call (`NoRegression`). A transcript that tells its team by its summary
  only goes to the first call with that description (`subagent.go:430`); if two
  teams have such a call, the updates are shown on one team's board until a
  sidecar moves them to the other's, and the first goes back (`SharedBrief`, the
  other condition of `NoRegression`). A team deleted and created again under its name
  leaves its teammates and their updates on the first board (`BoardExact` says
  so). Teammates with the same description are told apart by their start only.
* A rollout line half written when the reader reaches it is lost for that read
  even if the rest arrives before the next line is read; the verdict is still
  one that was true during the read (`VerdictWasTrue`). The final message of a
  snapshot may be newer than its status, never older (`FinalNotOlder`).

* An entry of the session cache that was scanned within the clock tick of the
  file's last write, or whose file could not be opened, is not vouched for
  (`CacheSound`, `ListingTrue`): the modification time is all the code compares.
  A session written during a listing may be shown as not ongoing, because the
  metadata is newer than the modification time it is held against.
* Session names: pids are not reused while a registry file of theirs remains,
  one process at a time has a session, a resumed process starts with the old
  name or none, and files are written whole (`RenameShown`). Modification times
  never go backwards.
* A name in a title entry over 512 bytes is shown but not found, and a session
  whose title contains the name it is shown under may not be found by it
  (`NameResolves` leaves both out; see below).
* Debug log: `IncrementsAddUp` is stated for reads that ended between lines
  (`WholeLines`) of a log without `\r\n` (`UnixLines`). A line read half written
  leaves the offset one past the end, so the rest of the line loses its first
  byte, and its newline is not among the lines counted; continuation lines at
  the start of an increment are dropped, which `More` says too; `\r` makes
  the offset lag by one for each line; after a line over 1 MiB nothing is read
  any more. `CollapseExact` compares messages only, as the code does: entries of
  different levels and categories are merged.

### Steps that are coarser than the code's

* `AgentView!Link` reads the subagents' directory, the sidecars, the project's
  directory and the results of the lead's transcript in one step; the code reads
  them one after another. Nothing that is written is taken back, so a later read can
  at most know of more than an earlier one did; such mixed views are left out.
  The reading of the lead's chunks (`ReadChunks`), which comes first and decides
  which calls can be linked, is a step of its own.
* `SessionCache!GetOrScan` scans a file in one step over whole lines. The code
  streams it: a line that is half written when the scan reaches it is lost until
  the next write changes the modification time.
* `Settings!ReadSettings` reads the file in one step, as it is only ever replaced
  by a rename; `ClaudeEdits` and the changes of the other writers are single
  steps, for how they write is not in this repository. `ResolveTarget`
  (`EvalSymlinks`) and `StatTarget` (`Stat`) are two steps.
* In `OffsetStore` a write that fails part way always leaves `Torn`. Over what
  another tick wrote to the same inode meanwhile, the first bytes of one record
  and the rest of the other could happen to parse; that is left out.

### Disagreements with comments

* `offset_partial_reads`: the temporary file's name is the same for all
  processes, so one can truncate the file another is about to rename. The state
  file is then empty or torn until the next save. `ExactSnapshot` still holds:
  the damage costs a re-read from byte 0, never wrong data.
* `ongoing_agents`: results are matched within a chunk; a slash command (the
  counterexample), a prompt, a command output, a task notification or a
  compaction boundary between an agent call and its result leaves the call
  pending for ever.
* `hardened_settings`: the mode given to `os.WriteFile` holds for a file it
  creates. A `settings.json.tmp` left by a failed or killed registration keeps
  its 0644, and the next registration renames it over a `settings.json` that
  has been hardened to 0600 since.
* Not run, but excluded by `NameResolves`: the comment on `FindNameMatches`
  (`names.go:150-155`) says that registry names "must resolve as name arguments
  too", and that `PreferExact` restores the rule that exact matches win across
  both sources. `MergeTitleRefs` runs before and drops the second reference to a
  session: when its title contains the query and its registry name equals it,
  only the partial match is kept, and an exact match of another session hides it.
* Not run, but excluded by `CacheSound`: metadata of a file that could not be
  opened is cached like any other (`cache.go:39`), so that the session stays out of
  every list until it is written again, while an uncached listing recovers.
* Not run, but excluded by name in `Session!Ordinary`: `Classify` drops
  interruptions, which the comment on `IsOngoing` lists among the ending
  events; and a regular tool call without a result is not ongoing once text
  follows it, although condition 2 of that comment says so (a test expects the
  code's behaviour).

## 4. Proofs

`OffsetStoreProofs` begins with the lemmas about lines: `ResumeExactlyOnce`
(reading from a line start hands out exactly the lines between the old and the
new offset) and `AppendPreservesLines` (appending leaves the lines before an
offset alone). It proves `TypeCorrect`, `SnapshotsAreExact`, `TicksAreExact` and
`OffsetsDoNotRegress` for every number of processes, transcripts, schema versions and
inodes, and every `JSON`. `ExactSnapshot` is not inductive: it says nothing of
the temporary file, which the next rename makes the state file, nor of records
loaded or about to be written. The invariant `IInv` therefore says that every
inode that holds a record holds an exact one (`InodesExact`), and that each
tick's loaded record is exact, its start is a line start its loaded snapshot
fits, and its new offset and lines extend that snapshot to an exact record
(`TicksExact`). Appending keeps exactness by `AppendPreservesLines`; reading
establishes it by `ResumeExactlyOnce`; writing leaves an exact record or `Torn`.
`OffsetsDoNotRegress` (`OffsetNeverRegresses`, an action property) needs
`OffsetsInv` besides: a tick that has loaded a record of its own transcript starts
at that record's offset, because an exact record never has more than the
transcript, and reads forward from there.

`IncrementalIsFull` is the refinement of `FullExtraction`. The mapping takes for
what is extracted the records in inodes and those of ticks that have read but not
written, and for what is saved the record in the state file, or nothing when that
cannot be loaded. `ReadAll` is the abstract extraction because `IInv` makes
the snapshot and the increment together the valid lines up to the new offset
(`ReadIsFull`); writes, renames, failures and the sweep settle what is saved
(`SettleStep`); the other steps stutter (`StepImplements`).

`SessionTailProofs` proves `TypeCorrect`, `ShownAreLines` (`WholeLinesShown`) and
`EveryLineOnce` (`EachLineOnce`) for every writer, size limit and placement of
failing reads. What a line is depends on cells not written yet, so `IInv` speaks
of `File`, the session file as its writer will finish the line in progress;
appending a cell then changes nothing (`CellMoves`) until another line begins
(`LineAddedEntries`). `Positions` says where a reader stands: at the start of a
line, behind the text of one whose newline is missing, or inside one that is
oversized already. A piece read in the last two places never parses
(`NoPieceParses`), and a tail that parses is a whole line (`TailIsLine`): so a
kept tail is the entry it looks like, and `Messages` follows, that every entry
before the reader is among those shown.

`SessionProofs` proves of the scan `ScanTypeCorrect`, `VerdictIsExact` and
`InterruptionsSettle` for transcripts of any length and any set of ids. The
invariant says what each variable remembers of the transcript read: `hasAny`
that some entry works, `lastEndingIndex` whether some entry ends the work,
`hasAfter` whether work follows the last of those, `shutdownIDs` and
`pendingToolIDs` which calls were approvals or are unanswered. Whether an entry
works or ends depends only on the entries before it (`ClassesStay`), so a step
has three cases: it ends the work, it is work, it is neither. `TurnsAreExact`
(`TurnCountExact`) adds `TurnInv`: the counter is the number of things sent plus
the number of them that are answered, and the scan awaits an answer exactly
while the last thing sent has none. An answer therefore answers one thing more,
or none (`TurnAnswered`). `SessionScans` carries all four over to `Session`.

Of the viewer it proves `EveryEntryShownOnce` (`ShownOnce`), `ChunksSettle`
(`SettledChunks`), `ResultsSitOnCalls` (`ResultsAnswerCalls`) and `CyclesCutTurns`
(`CyclesPartition`), for transcripts of every length in which calls, results and
ids come in any order, ids missing or used twice included. The viewer builds all
chunks anew whenever the transcript has grown, so first `BuildStep` shows what
one more entry does to them: nothing (`Dropped`), one more chunk (`ChunkAdded`), the
expansion of a slash command that is still last (`Expanded`), or one more message
of the open turn (`TurnLonger`). That needs to know that a recursive function over
a longer sequence starts with the same values. The installed provers cannot use
the induction theorems; `NoLeast` takes their place: a set of counterexamples
without a least element is empty (`NatLessThanWellFounded`, `WFMin`), and every
property of these functions is stated as such a set (`BuiltIs`, `ClassifyAppend`,
`MergedAppend` and the others). The invariant `ViewInv` then says of the messages of
the open turn (`TurnOk`) that they are in the order of the transcript with nothing
between them that would have closed the turn (`BufOk`), that an item's result is a
later entry with its id (`ItemsOk`), and that the number of items only grows from
message to message (`CutOk`), which is what the cycles are cut by
(`TurnPartitioned`); and of all chunks that these hold (`ChunksOk`) and that the
entries have their places (`PlacesOk`).

`BothVerdictsAgree` (`VerdictsAgree`) joins the two halves: on ordinary transcripts of
every length `IsOngoing`, asked of the chunks, is what `VerdictIsExact` says of the
scan. Ordinary is split in two. What every beginning of such a transcript has too
(`Undisturbed`: no sidechains, interruptions, rejected or late results, every call
with an id of its own) is what the invariant is about; that no tool call is left
open before an ending and that a prompt is not last is used only at the end
(`OrdinaryVerdict`), for an ordinary transcript may have beginnings that are not.
`AgreeInv` adds `ShownOk` to `ViewInv`: the items that are flushed and those of the open
turn, in one row, are the answers of the transcript in its order, each result on
one of them (`RowOk`), and a call that nothing has followed which starts a chunk is
still in the open turn (`CallsHeld`). That is how a result that comes promptly finds
its call (`CallWaits`), though it only looks among the items of the turn. What the
row says is then read off: `FlatVerdict` that the activities, flattened, say
"ongoing" when some item works and none behind it ends the work, `ActivityOf` that
an item works or ends as its entry does. A result counts where its call is,
earlier than in the transcript; `WorkIs` shows that this does not matter, because
nothing that ends the work comes between the two.

`SettingsProofs` proves `TypeCorrect`, `RegisteredOnce`, `FileComplete`,
`NoLoss`, `LinkSurvives` and `PromiseKept` for any number of processes,
commands, values of the other keys and inodes. None of the properties is
inductive: what a rename installs depends on which file the temporary name
names. The invariant `IInv` adds three parts. `NamesInv`: the name that is
replaced (`Where`) never changes, every registration under way writes there, and
the temporary file is never the one readers open. `OnceInv`: every whole
document, on disk or held by a registration, has each command once. `AloneInv`:
until two registrations meet (`clash`), the file is whole, at most one is
writing, the temporary name is the file it has open, and that file is empty or
holds the document it has read with its commands added. `NextInv` shows for
each action that it keeps the invariant and is a step of `HookRegister` or
invisible to it; the lemma `RegisterDoc` about documents carries the rename.

`DiscoveryProofs` proves `CacheSpec_Sound` (of the cache alone) and
`Spec_CacheSound` (in the composed system) for any number of sessions and
listings and any clock, and `Spec_LimitExact` for every limit. `CacheSound` is not
inductive: an entry might be stored under a time the file has yet to reach. The
invariant `CacheInv` orders the times: what a listing took is at most the file's
modification time (`ListedInv`), an entry's time is at most the file's and at
most the moment of its scan, which is at most now (`EntryInv`). A write that
stamps the file with an entry's time therefore happens in the tick of its scan,
which `CacheSound` leaves out (`AppendKeeps`), and a scan stores the file as it is
(`GetOrScanKeeps`). `LimitExact` rests on `NewestMerges`: cutting two lists and then
the union of the cuts leaves newest elements of the whole, because what a
provider cut is no newer than `Limit` others that survived (`LeftOut`).

`CacheSpec_ListingTrue` and `Spec_ListingTrue` follow each session through a
listing. Before its row is taken, what the file says now was true since the
listing began, and so was what the cache would answer (`LookInv`); that holds
although the entry may be older than the listing, because an entry that is
served has the time the listing took, which is no older than the write.
While the row is put together its metadata was true, and a row that is not
ongoing in a session nobody has written will stay so (`RowInv`). `Spec_RenameShown`
needs `FileInv` (a session's running process has the newest of its registry
files), `GivenInv` (a name once given is the one the registry chooses, and the
title is that name or a launcher's stamp) and `CalledInv` (every title the
session had during a listing is one of its names then, or the stamp).
`Spec_NameResolves` uses the invariant only to know that transcripts are
sequences and registry files well-formed; its argument is about `Lookup`.

`RolloutProofs` proves `VerdictIsTrue` (`VerdictWasTrue`) and `FinalIsNotOlder`
(`FinalNotOlder`) for rollouts of any length and any window. A verdict taken from
a fold that jumps over half written lines must be the rollout's at one moment.
`ReadInv` names a moment `b` from which on every truth has been noted, and behind
which the reader's status and reviewer are what the rollout says (`Began`): if a
half line is skipped, `b` moves behind it.

`AgentViewProofs` proves `OneParentEach`, `TeamsStayApart`, `EvidenceAlwaysWins`,
`PositionIsRight`, `BoardsAreExact` (`BoardExact`), `TypeCorrect` and
`BoardsNeverGoBack` (`NoRegression`) for any number of calls, transcripts and
results. All but the last are about what a viewer computes from the disk, so `IInv` only describes the disk:
a spawn call's id is its place (`LeadInv`), a transcript belongs to the call that
spawned it and no two to one (`FilesInv`), a result names the agent of its call
and comes once (`ResultsInv`). The work is in the lemmas about `LinkSubagents`:
each of the four phases gives one-to-one links among what earlier phases left
(`PhaseOneToOne`, `LinksAre`), and only for its own reason (`BySidecar`, `ByResult`,
`BySummary`, `ByPosition`). That the last phase pairs plain agents with their own
calls (`PositionalExact`) rests on `OpenInStep`: the agents and the calls left over
are in step, since an agent that an earlier phase linked took its own call.

The boards are three recursive functions (`Walked`, `Gathered`, `Replayed`), one per
phase of `ReconstructTeams`, each with its invariant over the calls, workers or
updates passed so far. `LedOk` is the walk's: teams are numbered by the TeamCreates
(`Named`), have the tasks and members of the calls made while they were active or
named (`TasksLed`, `MembersLed`), and the updates are those of the lead in its order
(`UpdatesLed`). `Sources` gives each gathered update the place it was written at, a
call of the lead or an entry of a teammate's transcript, and `ReplayOrderIs` says
what the stable sort makes of them: by time, else by place (`Placed`). Along the
replay `StatusIs` and `OwnerIs` say what the updates passed have made of each task;
at its end the latest and the earliest of them are the last and the first that
`BoardExact` names by place (`ChosenAre`). `TypeCorrect` needs `TInv`: `IInv`, that no
update on disk is of a time to come (`TimesInv`), and the same of the boards shown,
which are of an earlier disk (`Stated`).

`BoardsNeverGoBack` relates the boards of two refreshes, which the linking may have
built from different links: a transcript can be shown under another teammate's call
first and under its own later. What does not change is the team (`AgentTeam`): who
is shown as a teammate has a transcript that tells so (`Told`), and only calls with
one description, so of one team, are exchanged. The invariant `ShownBacked` says of
each status shown that an update on disk set it at that time (`Backed`), and that
chunks of as many calls as any later refresh has read (`Seen`) give this update to
that task: the lead's call is among them, or the transcript is told and the calls of
all transcripts up to it are. The second half is what makes the invariant carry over
to the next refresh: `ToldShown` shows by counting that every transcript behind which
all calls are known gets a call of its description (`OpenCall`), so its updates are
replayed, and the latest of the replayed ones is not older (`SiteCounts`).

`DebugLogProofs` proves `TypeCorrect`, `IncrementsAreWhole` (`IncrementsAddUp`) and
`CollapseIsExact` (`CollapseExact`) for logs, lines and line limits of every length.
A scan is a recursive function over the lines it reads, so each proof is an
induction over them. `Held` bounds what a scanner holds by the cells it has passed
(hence the offset one past the end at most, and line numbers within the log).
`InStep` says that the offset is the scanner's place and the entries so far are
those of the lines behind it; a line then adds nothing, an entry, or a line to
the last entry (`LineSkipped`, `LineBegins`, `LineContinues`), and a scan that falls
behind its place does so at a `\r` at the end, where `WholeLines` does not hold
after it. `IInv` states `AreEntries` without asking for the last `\r` to be followed
by something, which a later cell could undo: `UnixLines` itself is not
inductive. `CollapsedTo` says of each prefix that it has one collapsed entry per
run and that the last run's are all like the last entry.

Assumptions: `DiscoveryAssumption` (finitely many sessions and rollouts, a limit
that is a number), `CacheAssumption` and `NamesAssumption` (the empty title is no title, bounds are numbers), `SettingsAssumption` (commands are registered as sets of known
commands, the file at the start has each once), `CellAssumption` (a newline is no text, an empty line is not
valid), `StoreAssumption`, `NoFileAssumption` (the mark of an absent registry file is no
file), `AgentViewAssumption` and `StartAssumption` (what spawn calls and transcripts
are; a session starts with calls whose ids are their places and, at most,
transcripts of teammates of earlier runs, all updates being of a past time), `LineAssumption` (a proper prefix of a line never
parses, which holds of JSON objects; nor does a piece of an oversized line from
behind the limit on: the reader takes such a piece for a line when the tail was
longer than the limit before its newline came, and would show it), `EntryAssumption`, `ScanAssumption`,
`LogAssumption` (the kinds of cells of a debug log are distinct). TLC
evaluates them on every run.

Only model-checked: liveness (the provers have no rule for it under fairness);
and `NoPartialReads`, `ModeKept` and `PendingMeansUnanswered`, which fail. Every
safety property of the passing runs is proved.

## 5. Not modelled

Text extraction, formatting, timestamps, durations, token counts; entries of
several content blocks; the discovery scan's preview, mode, tokens and
durations; file names and hashing (a collision is a parameter). Of agents: colours, subjects and
descriptions of tasks, whether a member is still at work, transcripts filtered
for being warm-ups, compactions or empty, sessions of others that start within
the two minutes of grace, `scanmeta.go`. Of settings: key order, indentation, hooks
of a foreign shape. Of rollouts: working directories, session ids, the text of
messages. Of the registry: `Resolve`, `ResolvePane`, the process tree and
`LiveSessions`, which ask the operating system for processes. Of discovery: filters
by project, the encoding of project directories, whether a Codex session is
ongoing. Of the debug log: filters by level and text, categories. Without a
module, because they are pure functions of their input without state: hook and
statusline payloads, tool summaries and statistics, rendering helpers, paths and
patterns, the read-only queries of `settings.go`. A transcript cut short that
grows past the stored offset before the next tick cannot be told from an
appended one by the code; exactness is stated for append-only transcripts, the
truncation run only checks that an offset beyond the end does not stay.

## 6. Plan

1. Done: `JsonLines`, `OffsetStore`, `SessionTail`, `Entries`, `DiscoverScan`,
   `Chunks`, `Session`, `Subagents`, `Teams`, `AgentView`, `HookFile`,
   `HookRegister`, `Settings`, `Rollout`, `SessionCache`, `Names`, `Registry`,
   `Providers`, `Discovery`, `DebugLog`, with the proofs above.
2. Next components, as far as their code has state: entries of several content
   blocks in `Entries`, `scanmeta.go`'s filters in `Subagents`, `LiveSessions`
   over `Registry`.
