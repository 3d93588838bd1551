------------------------------ MODULE Registry ------------------------------
(***************************************************************************)
(* Claude Code's processes and the files they keep in {root}/sessions, one *)
(* per pid, as registry.go and names.go read them.  A file lingers after   *)
(* its process has ended, a resumed session has another process and with   *)
(* it another file, and a session that a launcher started has its title    *)
(* stamped with the directory's name whenever its transcript is flushed.   *)
(* The processes are outside the repository; Read is its own.              *)
(***************************************************************************)
EXTENDS Names, FiniteSets

CONSTANTS Session, Pid, NoFile

VARIABLES running,  \* the pids of the processes that run
          files     \* the registry's files

RegistryInit == running = {} /\ files = [p \in Pid |-> NoFile]

(* registry.Read.                                                          *)
Read == {files[p] : p \in {q \in Pid : files[q] # NoFile}}

Of(s) == {p \in running : files[p].session = s}

(* A session starts, or is resumed while no other process has it, under a  *)
(* pid without a file.  A resumed session keeps its name or has none.      *)
Launch(p, s, name, t) ==
    /\ files[p] = NoFile /\ Of(s) = {}
    /\ running' = running \cup {p}
    /\ files' = [files EXCEPT ![p] =
           [pid |-> p, session |-> s, name |-> name, startedAt |-> t, updatedAt |-> t]]

(* The status is refreshed while the process runs.                         *)
Heartbeat(p, t) ==
    /\ p \in running /\ files[p].updatedAt # t
    /\ files' = [files EXCEPT ![p].updatedAt = t]
    /\ UNCHANGED running

SetName(p, name, t) ==
    /\ p \in running
    /\ files' = [files EXCEPT ![p].name = name, ![p].updatedAt = t]
    /\ UNCHANGED running

Exit(p) ==
    /\ p \in running
    /\ running' = running \ {p}
    /\ UNCHANGED files
============================================================================
