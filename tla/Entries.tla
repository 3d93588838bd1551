------------------------------ MODULE Entries ------------------------------
(***************************************************************************)
(* The transcript entries of Claude Code, as far as the chunk pipeline and *)
(* the discovery scan tell them apart.  An entry carries one content       *)
(* block, the form in which a response is streamed to the transcript; `id` *)
(* is the tool_use id of a tool call or a tool result.  Text, names,       *)
(* inputs and timestamps are left out.                                     *)
(***************************************************************************)
EXTENDS Naturals, Sequences

CONSTANTS ToolId,  \* tool_use ids
          NoId,    \* the empty id, and the id of a block that has none
          Entry    \* the entries a transcript may hold

(* A "redacted" thinking block has an empty text, a "blank" text block only *)
(* white space.  An "agent" is a Task, Agent or Skill call, a "plan" an     *)
(* ExitPlanMode call, an "approval" a SendMessage that approves a shutdown. *)
Calls     == {"tool", "agent", "plan", "approval"}
Spoken    == {"thinking", "redacted", "text", "blank"}
Assistant == Calls \cup Spoken

(* An "empty" result has no content; a "rejected" one is marked at entry    *)
(* level as rejected by the user.                                           *)
Results == {"result", "empty", "rejected"}

(* A "prompt" is what the user typed, a "slash" a prompt that begins with   *)
(* "/"; "expanded" is the isMeta text a slash command expands to.           *)
(* "protocol" is a teammate message with a team protocol payload, "output"  *)
(* a command output or task notification, "reminder" text wrapped in a hard *)
(* noise tag.                                                               *)
User == Results \cup
        {"prompt", "slash", "expanded", "teammate", "protocol", "output",
         "interrupted", "reminder"}

(* Compaction boundaries, nested_memory attachments, and every other type.  *)
Others == {"compact", "memory", "other"}

(* `by` is "side" for a sidechain entry, "synthetic" for an assistant entry *)
(* of the model "<synthetic>".                                              *)
AllEntries ==
    [kind : Assistant \cup User \cup Others, id : ToolId \cup {NoId},
     by : {"main", "side", "synthetic"}]

ASSUME EntryAssumption ==
    /\ NoId \notin ToolId
    /\ Entry \subseteq AllEntries
    /\ \A e \in Entry : e.by = "synthetic" => e.kind \in Assistant
============================================================================
