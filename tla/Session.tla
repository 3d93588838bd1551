------------------------------- MODULE Session -------------------------------
(***************************************************************************)
(* A session's transcript and what the program makes of it.  Claude Code   *)
(* appends entries; after each, a viewer rebuilds the chunks it shows      *)
(* (ReadSession, Classify, BuildChunks) while the discovery scan of        *)
(* DiscoverScan reads the same entry.  The program decides twice whether   *)
(* the session is ongoing: the scan from the entries (session lists),      *)
(* IsOngoing from the chunks (team members).                               *)
(***************************************************************************)
EXTENDS DiscoverScan, SequencesExt

VARIABLE chunks  \* what the viewer built last

Pipeline == INSTANCE Chunks

Class(e)  == Pipeline!Class(e)
IsCall(i) == Pipeline!IsCall(i)

(* ReadSession: every entry is read, classified and built into chunks.      *)
ReadSession(s) == Pipeline!BuildChunks(Pipeline!Classify(s))

SessionInit == Init /\ chunks = <<>>

Write(e) == Scan(e) /\ chunks' = ReadSession(Append(read, e))

SessionNext == \E e \in Entry : Write(e)

SessionSpec == SessionInit /\ [][SessionNext]_<<vars, chunks>>

----------------------------------------------------------------------------
(* The two verdicts. *)

(* IsOngoing(chunks), as reconstructTeamMember asks it.                     *)
ChunksSay == Pipeline!IsOngoing(chunks)

(* A result comes after its call, before any other result of the same call, *)
(* and nothing between the two starts a chunk or ends the work.             *)
Prompt(s, i) ==
    \E c \in 1 .. i - 1 :
        /\ s[c].kind \in {"tool", "agent"} /\ s[c].id = s[i].id
        /\ \A j \in c + 1 .. i - 1 :
              /\ Class(s[j]) \in {"ai", "meta", "teammate", "memory", "drop"}
              /\ ~ Ends(s, j)
              /\ ~ (s[j].kind \in Calls \cup Results /\ s[j].id = s[i].id)

(* Transcripts without what the two are known to see differently:           *)
(* sidechains, synthetic answers, interruptions and empty, rejected or late *)
(* results, redacted thinking, texts that commands expand to, a prompt that *)
(* waits for its answer, and a call left open before the end of the work.   *)
Ordinary(s) ==
    /\ \A i \in 1 .. Len(s) :
          /\ s[i].by = "main"
          /\ s[i].kind \notin {"interrupted", "empty", "rejected", "redacted", "expanded"}
          /\ s[i].kind \in Calls => s[i].id # NoId /\ \A j \in 1 .. i - 1 : s[j].id # s[i].id
          /\ s[i].kind = "result" => Prompt(s, i)
          /\ Unanswered(s, i) /\ s[i].kind = "tool" =>
                 \A j \in i + 1 .. Len(s) : ~ Ends(s, j)
    /\ s # <<>> =>
          LET shown == {i \in 1 .. Len(s) : Class(s[i]) # "drop"}
          IN  \A i \in shown : Class(s[i]) = "user" => \E j \in shown : j > i

(* On ordinary transcripts, teammates, memory loads, command output and     *)
(* compaction included, the two verdicts are the same.                      *)
VerdictsAgree == Ordinary(read) => (IsOngoing <=> ChunksSay)

----------------------------------------------------------------------------
(* What the viewer shows. *)

(* Reading a longer transcript never changes a chunk that another chunk     *)
(* already followed: what has been shown above the last one is settled.     *)
SettledChunks ==
    [][ \A k \in 1 .. Len(chunks) - 1 :
            Len(chunks') > k /\ chunks'[k] = chunks[k] ]_chunks

(* Entry i is shown at place <<k, 0>> when it is chunk k or its expansion,  *)
(* at <<k, n>> when it is item n of chunk k or the item's result.           *)
PlacesIn(c, k, i) ==
    (IF c.type # "ai" /\ i \in {c.at, c.expanded} THEN {<<k, 0>>} ELSE {})
    \cup {<<k, n>> : n \in {n \in DOMAIN c.items : i \in {c.items[n].at, c.items[n].result}}}

Places(cs, i) == UNION {PlacesIn(cs[k], k, i) : k \in DOMAIN cs}

(* Entries that are to be seen; the text a command expands to is seen only  *)
(* with that command.                                                       *)
Visible(e) == Class(e) # "drop" /\ e.kind \notin {"redacted", "expanded"}

(* Every entry that is to be seen is shown in one place, none twice and     *)
(* none lost in a flush between two chunks, and a dropped one nowhere.      *)
ShownOnce ==
    \A i \in DOMAIN read :
        /\ Visible(read[i]) => Cardinality(Places(chunks, i)) = 1
        /\ Class(read[i]) = "drop" => Places(chunks, i) = {}
        /\ read[i].kind = "expanded" => Cardinality(Places(chunks, i)) <= 1

(* The results in chunk c sit on the calls they answer.                     *)
Answered(s, c) ==
    \A n \in DOMAIN c.items :
        LET it == c.items[n] IN
        it.result # 0 =>
            /\ IsCall(it) /\ s[it.result].id = it.id /\ it.at < it.result
            /\ \A j \in it.at .. it.result : Class(s[j]) \notin {"user", "system", "compact"}

(* A result sits on the call it answers: same id, called before, nothing    *)
(* but entries of the same AI turn between them.                            *)
ResultsAnswerCalls == \A k \in DOMAIN chunks : Answered(read, chunks[k])

(* The cycles of chunk c cut its items from the first answer on.            *)
Partitioned(c) ==
    LET first == IF c.cycles = <<>> THEN Len(c.items) + 1 ELSE c.cycles[1].start
        calls == {n \in DOMAIN c.items : IsCall(c.items[n])}
    IN  /\ \A k \in DOMAIN c.cycles :
              LET range == c.cycles[k].start .. c.cycles[k].end
              IN  /\ c.cycles[k].start <= c.cycles[k].end + 1
                  /\ c.cycles[k].tools = Cardinality(calls \cap range)
                  /\ \A n \in DOMAIN c.items :
                        c.items[n].at = c.cycles[k].at => n \in range
        /\ \A k \in 1 .. Len(c.cycles) - 1 : c.cycles[k + 1].start = c.cycles[k].end + 1
        /\ c.cycles # <<>> => Last(c.cycles).end = Len(c.items)
        /\ \A n \in calls : n >= first

(* The inference cycles of a turn cut its items into consecutive ranges     *)
(* from the first answer on: every item of an answer is in its own cycle,   *)
(* and every call is in one cycle, which counts it.                         *)
CyclesPartition == \A k \in DOMAIN chunks : Partitioned(chunks[k])

----------------------------------------------------------------------------
(* What a comment says of IsOngoing, and it does not do. *)

(* Some call of these kinds has no result in the whole transcript.          *)
NoResult(kinds) ==
    \E i \in DOMAIN read :
        /\ Class(read[i]) = "ai" /\ read[i].kind \in kinds
        /\ \A j \in i + 1 .. Len(read) :
              ~ (Class(read[j]) = "meta" /\ read[j].kind \in Results /\ read[j].id = read[i].id)

(* "any agent/task tool call is still awaiting a result": an agent counts   *)
(* as pending only while its result is not in the transcript                *)
(* (hasPendingAgents).                                                      *)
PendingMeansUnanswered ==
    Pipeline!HasPendingAgents(Pipeline!Shown(chunks)) => NoResult({"agent"})
==============================================================================
