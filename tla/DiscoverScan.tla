---------------------------- MODULE DiscoverScan ----------------------------
(***************************************************************************)
(* scanSessionMetadata: the one-pass scan of a transcript that tells       *)
(* whether a session is still ongoing and how many turns it has.  It keeps *)
(* the position of the last event that ends the work, two flags, and the   *)
(* tool calls still without a result.  `read` is the part of the           *)
(* transcript scanned so far; the verdict it would give is defined after   *)
(* every entry.                                                            *)
(***************************************************************************)
EXTENDS Entries, Integers, FiniteSets

CONSTANT MaxEntries  \* bound on the transcript's length

ASSUME ScanAssumption == MaxEntries \in Nat

VARIABLES read,             \* the entries scanned
          turnCount,        \* turns counted
          awaitingAIGroup,  \* the last turn has no answer yet
          activityIndex,    \* activities and ending events so far
          lastEndingIndex,  \* index of the last ending event, or -1
          hasAny,           \* some AI activity
          hasAfter,         \* some AI activity after the last ending event
          shutdownIDs,      \* shutdown approvals
          pendingToolIDs    \* tool calls without a result

turns == <<turnCount, awaitingAIGroup>>
flags == <<activityIndex, lastEndingIndex, hasAny, hasAfter>>
vars  == <<read, turns, flags, shutdownIDs, pendingToolIDs>>

Init ==
    /\ read = <<>>
    /\ turnCount = 0 /\ awaitingAIGroup = FALSE
    /\ activityIndex = 0 /\ lastEndingIndex = -1
    /\ hasAny = FALSE /\ hasAfter = FALSE
    /\ shutdownIDs = {} /\ pendingToolIDs = {}

----------------------------------------------------------------------------
(* Turn counting: what the user sent, and the first answer after it. *)

(* Results, command output, reminders and teammates are not user turns; an *)
(* interruption is user content like any other.                            *)
IsUserTurn(e) == e.by = "main" /\ e.kind \in {"prompt", "slash", "interrupted"}

IsAnswer(e) == e.by = "main" /\ e.kind \in Assistant
(* Variant: every answer is a turn.                                        *)
CountTurnAlways(e) ==
    /\ turnCount' = IF IsUserTurn(e) \/ (awaitingAIGroup /\ IsAnswer(e))
                    THEN turnCount + 1 ELSE turnCount
    /\ awaitingAIGroup' = (awaitingAIGroup \/ IsUserTurn(e))

CountTurn(e) ==
    /\ turnCount' = IF IsUserTurn(e) \/ (awaitingAIGroup /\ IsAnswer(e))
                    THEN turnCount + 1 ELSE turnCount
    /\ awaitingAIGroup' = (IsUserTurn(e) \/ (awaitingAIGroup /\ ~ IsAnswer(e)))

(* One more entry of the transcript is read.                               *)
Reading(e) ==
    /\ Len(read) < MaxEntries
    /\ read' = Append(read, e)
    /\ CountTurn(e)

----------------------------------------------------------------------------
(* Ongoing detection. *)

Activity ==
    /\ hasAny' = TRUE
    /\ hasAfter' = (hasAfter \/ lastEndingIndex >= 0)
    /\ activityIndex' = activityIndex + 1
    /\ UNCHANGED lastEndingIndex
(* Variant: the activity before the event is still counted.                *)
EndingKept ==
    /\ lastEndingIndex' = activityIndex
    /\ activityIndex' = activityIndex + 1
    /\ UNCHANGED <<hasAny, hasAfter>>

Ending ==
    /\ lastEndingIndex' = activityIndex
    /\ hasAfter' = FALSE
    /\ activityIndex' = activityIndex + 1
    /\ UNCHANGED hasAny

(* Sidechain answers are skipped, synthetic ones are not.                  *)
Scanned(e) == e.kind \in Assistant /\ e.by # "side"

Thinking(e) ==
    /\ Scanned(e) /\ e.kind \in {"thinking", "redacted"}
    /\ Reading(e) /\ Activity
    /\ UNCHANGED <<shutdownIDs, pendingToolIDs>>

TextOutput(e) ==
    /\ Scanned(e) /\ e.kind = "text"
    /\ Reading(e) /\ Ending
    /\ UNCHANGED <<shutdownIDs, pendingToolIDs>>
(* Variant: calls without an id are tracked too.                           *)
ToolUseUnchecked(e) ==
    /\ Scanned(e) /\ e.kind \in {"tool", "agent"}
    /\ Reading(e) /\ Activity
    /\ pendingToolIDs' = pendingToolIDs \cup {e.id}
    /\ UNCHANGED shutdownIDs

ToolUse(e) ==
    /\ Scanned(e) /\ e.kind \in {"tool", "agent"} /\ e.id # NoId
    /\ Reading(e) /\ Activity
    /\ pendingToolIDs' = pendingToolIDs \cup {e.id}
    /\ UNCHANGED shutdownIDs

ExitPlanMode(e) ==
    /\ Scanned(e) /\ e.kind = "plan" /\ e.id # NoId
    /\ Reading(e) /\ Ending
    /\ UNCHANGED <<shutdownIDs, pendingToolIDs>>

ShutdownApproval(e) ==
    /\ Scanned(e) /\ e.kind = "approval" /\ e.id # NoId
    /\ Reading(e) /\ Ending
    /\ shutdownIDs' = shutdownIDs \cup {e.id}
    /\ UNCHANGED pendingToolIDs

(* Results are scanned in sidechain entries too.                           *)
ToolResult(e) ==
    /\ e.kind \in Results /\ e.id # NoId
    /\ Reading(e)
    /\ pendingToolIDs' = pendingToolIDs \ {e.id}
    /\ IF e.id \in shutdownIDs \/ e.kind = "rejected" THEN Ending ELSE Activity
    /\ UNCHANGED shutdownIDs

(* The process was killed, and every pending tool call with it.            *)
Interruption(e) ==
    /\ e.kind = "interrupted"
    /\ Reading(e) /\ Ending
    /\ pendingToolIDs' = {}
    /\ UNCHANGED shutdownIDs

(* Everything else leaves the ongoing detection alone.                     *)
Ignored(e) ==
    \/ e.kind \in Assistant /\ e.by = "side"
    \/ e.kind = "blank"
    \/ e.kind \in Calls \cup Results /\ e.id = NoId
    \/ e.kind \in User \ (Results \cup {"interrupted"})
    \/ e.kind \in Others

Skip(e) ==
    /\ Ignored(e)
    /\ Reading(e)
    /\ UNCHANGED <<flags, shutdownIDs, pendingToolIDs>>

Scan(e) ==
    \/ Thinking(e) \/ TextOutput(e) \/ ToolUse(e) \/ ExitPlanMode(e)
    \/ ShutdownApproval(e) \/ ToolResult(e) \/ Interruption(e) \/ Skip(e)

Next == \E e \in Entry : Scan(e)

Spec == Init /\ [][Next]_vars

(* The verdict when the scan ends here.                                    *)
IsOngoing ==
    \/ IF lastEndingIndex = -1 THEN hasAny ELSE hasAfter
    \/ pendingToolIDs # {}

----------------------------------------------------------------------------
(* What the verdict means, read off the transcript itself. *)

(* Entry i reports that a tool call ended the work: the result of a        *)
(* shutdown approved before it, or a rejected call.                        *)
Approved(s, i) ==
    \E j \in 1 .. i - 1 :
        Scanned(s[j]) /\ s[j].kind = "approval" /\ s[j].id = s[i].id

ResultOf(e) == e.kind \in Results /\ e.id # NoId

Ends(s, i) ==
    \/ Scanned(s[i]) /\ s[i].kind = "text"
    \/ Scanned(s[i]) /\ s[i].kind \in {"plan", "approval"} /\ s[i].id # NoId
    \/ s[i].kind = "interrupted"
    \/ ResultOf(s[i]) /\ (s[i].kind = "rejected" \/ Approved(s, i))

Works(s, i) ==
    \/ Scanned(s[i]) /\ s[i].kind \in {"thinking", "redacted"}
    \/ Scanned(s[i]) /\ s[i].kind \in {"tool", "agent"} /\ s[i].id # NoId
    \/ ResultOf(s[i]) /\ ~ Ends(s, i)

(* Some AI activity has no ending event after it.                          *)
WorkAfterLastEnding(s) ==
    \E i \in 1 .. Len(s) :
        Works(s, i) /\ \A j \in i + 1 .. Len(s) : ~ Ends(s, j)

(* Tool call i has had neither a result nor an interruption since.         *)
Unanswered(s, i) ==
    /\ Scanned(s[i]) /\ s[i].kind \in {"tool", "agent"} /\ s[i].id # NoId
    /\ \A j \in i + 1 .. Len(s) :
          s[j].kind # "interrupted" /\ ~ (ResultOf(s[j]) /\ s[j].id = s[i].id)

AwaitsResult(s) == \E i \in 1 .. Len(s) : Unanswered(s, i)

----------------------------------------------------------------------------
(* Properties. *)

(* The scan's state keeps its type.                                        *)
TypeOK ==
    /\ read \in Seq(Entry)
    /\ turnCount \in Nat /\ awaitingAIGroup \in BOOLEAN
    /\ activityIndex \in Nat /\ lastEndingIndex \in Nat \cup {-1}
    /\ hasAny \in BOOLEAN /\ hasAfter \in BOOLEAN
    /\ shutdownIDs \subseteq ToolId /\ pendingToolIDs \subseteq ToolId

(* The counters and flags of the single pass decide what a look at the     *)
(* whole transcript would: ongoing means AI activity after the last ending *)
(* event, or a tool call still waiting for a result, whatever the order in *)
(* which calls, results, rejections and interruptions come.                *)
VerdictExact == IsOngoing <=> WorkAfterLastEnding(read) \/ AwaitsResult(read)

(* An interruption leaves nothing ongoing until the next AI activity,      *)
(* however many calls were waiting for results.                            *)
InterruptionSettles ==
    \A i \in 1 .. Len(read) :
        /\ read[i].kind = "interrupted"
        /\ \A j \in i + 1 .. Len(read) : ~ Works(read, j)
        => ~ IsOngoing

(* A turn is what the user sent, or the first answer to the latest of it:  *)
(* no answer is counted twice, none is counted without a prompt.           *)
TurnCountExact ==
    LET Sent     == {i \in 1 .. Len(read) : IsUserTurn(read[i])}
        Latest(i) == \A j \in Sent : j <= i
        Answered == {i \in Sent :
                        \E k \in i + 1 .. Len(read) :
                            /\ IsAnswer(read[k])
                            /\ \A j \in i + 1 .. k : j \notin Sent}
    IN  /\ turnCount = Cardinality(Sent) + Cardinality(Answered)
        /\ awaitingAIGroup <=> \E i \in Sent \ Answered : Latest(i)
============================================================================
