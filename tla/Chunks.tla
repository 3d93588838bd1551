------------------------------- MODULE Chunks -------------------------------
(***************************************************************************)
(* The chunk pipeline: Classify turns entries into messages or drops them, *)
(* BuildChunks folds the messages into the chunks of the conversation, and *)
(* IsOngoing reads off the chunks whether the session is still running.    *)
(*                                                                         *)
(* Messages, items and chunks carry the position `at` of the entry they    *)
(* come from in place of its text and timestamp.                           *)
(***************************************************************************)
EXTENDS Entries, SequencesExt

(* Entries of type user: interruptions, reminders and team protocol         *)
(* messages are dropped, and so are types that are not known.               *)
UserClass(e) ==
    CASE e.kind = "teammate"                    -> "teammate"
      [] e.kind = "output"                      -> "system"
      [] e.kind \in {"prompt", "slash"}         -> "user"
      [] e.kind \in Results \cup {"expanded"}   -> "meta"
      [] OTHER                                  -> "drop"

(* Classify.  Sidechains and synthetic answers are dropped.                 *)
Class(e) ==
    CASE e.by # "main"                    -> "drop"
      [] e.kind \in {"compact", "memory"} -> e.kind
      [] e.kind \in Assistant             -> "ai"
      [] OTHER                            -> UserClass(e)

(* What the message types have in common; `kind` stands for their content.  *)
Message(log, i) == [class |-> Class(log[i]), kind |-> log[i].kind, id |-> log[i].id, at |-> i]

(* The messages of the first n entries.                                     *)
Classified(log) ==
    LET msgs[n \in 0 .. Len(log)] ==
            IF n = 0 THEN <<>>
            ELSE IF Class(log[n]) = "drop" THEN msgs[n - 1]
            ELSE Append(msgs[n - 1], Message(log, n))
    IN  msgs

Classify(log) == Classified(log)[Len(log)]

----------------------------------------------------------------------------
(* mergeAIBuffer. *)

(* `result` is the position of the matched tool result, 0 without one;      *)
(* `full` says that the item's text, or a call's result, is not empty.      *)
Item(type, m, full) ==
    [type |-> type, kind |-> m.kind, id |-> m.id, at |-> m.at, result |-> 0, full |-> full]

IsCall(it) == it.type \in {"tool", "subagent"}
(* Variant: any open call is taken for the one a result answers.           *)
PendingAny(items, id) ==
    {k \in DOMAIN items :
        /\ IsCall(items[k]) /\ items[k].result = 0
        /\ \A j \in k + 1 .. Len(items) : ~ IsCall(items[j])}

(* The item the pending map has for a tool id: the latest call with that   *)
(* id, unless it has been matched.                                         *)
Pending(items, id) ==
    {k \in DOMAIN items :
        /\ IsCall(items[k]) /\ items[k].id = id /\ items[k].result = 0
        /\ \A j \in k + 1 .. Len(items) : ~ (IsCall(items[j]) /\ items[j].id = id)}

(* The call's item with its result.                                        *)
WithResult(it, m) == [it EXCEPT !.result = m.at, !.full = m.kind # "empty"]
(* Variant: a result that matches no call is dropped.                      *)
MatchResultOnly(items, m) ==
    [k \in DOMAIN items |->
        IF k \in Pending(items, m.id) THEN WithResult(items[k], m) ELSE items[k]]

(* A result goes to its pending call, or becomes an output item.           *)
MatchResult(items, m) ==
    IF Pending(items, m.id) = {}
    THEN Append(items, Item("output", m, m.kind # "empty"))
    ELSE [k \in DOMAIN items |->
             IF k \in Pending(items, m.id) THEN WithResult(items[k], m) ELSE items[k]]

(* The type of the item a message adds; redacted thinking and meta text add *)
(* none.                                                                    *)
ItemType(m) ==
    CASE m.class \in {"teammate", "memory"}  -> m.class
      [] m.kind = "thinking"                 -> "thinking"
      [] m.kind \in {"text", "blank"}        -> "output"
      [] m.kind = "agent"                    -> "subagent"
      [] m.kind \in Calls \ {"agent"}        -> "tool"
      [] OTHER                               -> "none"

AddBlock(items, m) ==
    IF m.kind \in Results THEN MatchResult(items, m)
    ELSE IF ItemType(m) = "none" THEN items
    ELSE Append(items, Item(ItemType(m), m, m.kind \notin Calls \cup {"blank"}))

(* Where the answers among the first n messages are.                        *)
Answers(buf) ==
    LET at[n \in 0 .. Len(buf)] ==
            IF n = 0 THEN <<>>
            ELSE IF buf[n].class = "ai" THEN Append(at[n - 1], n) ELSE at[n - 1]
    IN  at

(* Variant: every cycle runs to the end of the turn.                       *)
BuildCyclesOpen(buf, starts, items) ==
    LET answers == Answers(buf)[Len(buf)]
    IN  [c \in DOMAIN answers |->
            LET from == starts[answers[c]] IN
            [at |-> buf[answers[c]].at, start |-> from + 1, end |-> Len(items),
             tools |-> Cardinality({k \in from + 1 .. Len(items) : IsCall(items[k])})]]

(* buildCycles: one cycle per assistant message, up to the next one's first *)
(* item; starts[i] is how many items there were before message i.           *)
BuildCycles(buf, starts, items) ==
    LET answers == Answers(buf)[Len(buf)]
        end(c)  == IF c < Len(answers) THEN starts[answers[c + 1]] ELSE Len(items)
    IN  [c \in DOMAIN answers |->
            LET from == starts[answers[c]] IN
            [at |-> buf[answers[c]].at, start |-> from + 1, end |-> end(c),
             tools |-> Cardinality({k \in from + 1 .. end(c) : IsCall(items[k])})]]

(* The items after the first n messages.                                    *)
Merged(buf) ==
    LET items[n \in 0 .. Len(buf)] ==
            IF n = 0 THEN <<>> ELSE AddBlock(items[n - 1], buf[n])
    IN  items

MergeAIBuffer(buf) ==
    LET merged == Merged(buf)
        starts == [i \in DOMAIN buf |-> Len(merged[i - 1])]
        items  == merged[Len(buf)]
    IN  [type |-> "ai", at |-> buf[1].at, expanded |-> 0,
         thinking |-> \E i \in DOMAIN buf : buf[i].kind \in {"thinking", "redacted"},
         items |-> items, cycles |-> BuildCycles(buf, starts, items)]

----------------------------------------------------------------------------
(* BuildChunks. *)

PlainChunk(m) ==
    [type |-> m.class, at |-> m.at, expanded |-> 0, thinking |-> FALSE,
     items |-> <<>>, cycles |-> <<>>]

Flush(acc) == IF acc.buf = <<>> THEN acc.chunks
                                ELSE Append(acc.chunks, MergeAIBuffer(acc.buf))
(* Variants: a teammate's message is a chunk of its own; a slash command    *)
(* stays the message before through what answers it.                        *)
AddMessageTeammate(acc, m) ==
    IF m.class \in {"user", "system", "compact", "teammate"}
    THEN [chunks |-> Append(Flush(acc), PlainChunk(m)), buf |-> <<>>, slash |-> FALSE]
    ELSE [acc EXCEPT !.buf = Append(@, m)]

AddMessageSlashKept(acc, m) ==
    CASE m.class \in {"user", "system", "compact"} ->
            [chunks |-> Append(Flush(acc), PlainChunk(m)), buf |-> <<>>,
             slash |-> m.kind = "slash"]
      [] m.kind = "expanded" /\ acc.slash ->
            [acc EXCEPT !.chunks[Len(acc.chunks)].expanded = m.at, !.slash = FALSE]
      [] OTHER -> [acc EXCEPT !.buf = Append(@, m)]

(* `slash`: the message before was a slash command, whose expansion would   *)
(* be attached to its chunk.                                                *)
AddMessage(acc, m) ==
    CASE m.class \in {"user", "system", "compact"} ->
            [chunks |-> Append(Flush(acc), PlainChunk(m)), buf |-> <<>>,
             slash |-> m.kind = "slash"]
      [] m.kind = "expanded" /\ acc.slash ->
            [acc EXCEPT !.chunks[Len(acc.chunks)].expanded = m.at, !.slash = FALSE]
      [] OTHER -> [acc EXCEPT !.buf = Append(@, m), !.slash = FALSE]

(* What has been built of the first n messages.                             *)
Built(msgs) ==
    LET acc[n \in 0 .. Len(msgs)] ==
            IF n = 0 THEN [chunks |-> <<>>, buf |-> <<>>, slash |-> FALSE]
            ELSE AddMessage(acc[n - 1], msgs[n])
    IN  acc

BuildChunks(msgs) == Flush(Built(msgs)[Len(msgs)])

----------------------------------------------------------------------------
(* IsOngoing. *)

ThinkingOnly == [type |-> "thinking", kind |-> "redacted", id |-> NoId, at |-> 0,
                 result |-> 0, full |-> TRUE]

(* The items of an AI chunk; one that has none but counts thinking is AI    *)
(* activity.                                                                *)
ShownIn(c) ==
    IF c.type # "ai" THEN <<>>
    ELSE IF c.items = <<>> /\ c.thinking THEN <<ThinkingOnly>> ELSE c.items

Shown(chunks) == FlattenSeq([k \in DOMAIN chunks |-> ShownIn(chunks[k])])

(* Item k is, or answers, a shutdown approval.                              *)
Shutdown(items, k) ==
    \E j \in 1 .. k : /\ items[j].type = "tool" /\ items[j].kind = "approval"
                      /\ items[j].id = items[k].id

CallActivity(it) ==
    IF it.type = "tool" /\ it.kind \in {"plan", "approval"} THEN "ending" ELSE "work"

ResultActivity(items, k) ==
    IF items[k].type = "tool" /\ Shutdown(items, k) THEN "ending" ELSE "work"

Activities(items, k) ==
    LET it == items[k] IN
    CASE it.type = "thinking" -> <<"work">>
      [] it.type = "output"   -> IF it.full THEN <<"ending">> ELSE <<>>
      [] IsCall(it) -> IF it.full THEN <<CallActivity(it), ResultActivity(items, k)>>
                                  ELSE <<CallActivity(it)>>
      [] OTHER -> <<>>

IsOngoingFromActivities(acts) ==
    \E i \in DOMAIN acts : acts[i] = "work" /\ \A j \in i + 1 .. Len(acts) : acts[j] = "work"
(* Variant: agents are not waited for.                                      *)
HasNoPendingAgents(items) == FALSE

(* Only Task, Agent and Skill calls are waited for.                         *)
HasPendingAgents(items) ==
    \E k \in DOMAIN items : items[k].type = "subagent" /\ ~ items[k].full

(* Without items the stop reason of the last AI chunk decides; entries of   *)
(* one block leave only meta chunks without items, and those have none.     *)
IsOngoing(chunks) ==
    LET items == Shown(chunks)
        acts  == FlattenSeq([k \in DOMAIN items |-> Activities(items, k)])
    IN  /\ chunks # <<>>
        /\ \/ Last(chunks).type = "user"
           \/ items # <<>> /\ IsOngoingFromActivities(acts)
           \/ items # <<>> /\ HasPendingAgents(items)
           \/ items = <<>> /\ \E k \in DOMAIN chunks : chunks[k].type = "ai"
=============================================================================
