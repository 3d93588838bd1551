------------------------------- MODULE Settings -------------------------------
(***************************************************************************)
(* RegisterHooks on one settings.json, by processes that know nothing of   *)
(* each other, while Claude Code changes other keys of the file and the    *)
(* user hardens its permissions.  Every step is one call into the file     *)
(* system, and another process can come between any two.  The path may be  *)
(* a symbolic link to a copy kept elsewhere; the temporary file then lies  *)
(* beside the copy.                                                        *)
(***************************************************************************)
EXTENDS HookFile, FiniteSets

CONSTANTS Proc, Inode, None,
          Link,      \* a name that is a symbolic link to the copy
          Empty,     \* opened with O_TRUNC, nothing written yet
          Torn,      \* some bytes of a document, or of two
          Want,      \* the sets of commands that a process may register
          Start,     \* [link, exists, doc]: the file before anything runs
          MaxFaults  \* crashes and failing system calls (a bound)

Name == {"path", "copy"}

ASSUME SettingsAssumption ==
    /\ Inode # {} /\ None \notin Inode \cup {Link} /\ Link \notin Inode
    /\ {Empty, Torn} \cap Doc = {} /\ Empty # Torn
    /\ Want \subseteq SUBSET Cmd /\ MaxFaults \in Nat
    /\ \A s \in Start : s.doc \in Doc /\ Once(s.doc) /\ s.link \in BOOLEAN /\ s.exists \in BOOLEAN

VARIABLES file,    \* the inode of each name, or Link
          tmp,     \* the inode of each name with ".tmp" appended
          inode,   \* [data, mode]; mode 600 or 644
          reg,     \* the registrations
          acked,   \* commands reported as registered, or present from the start
          gear,    \* what Claude Code wrote last
          clash,   \* two registrations were at one temporary file at once
          raced,   \* the file changed between a registration's read and rename
          faults

disk  == <<file, tmp, inode>>
ghost == <<acked, gear, clash, raced>>
vars  == <<disk, reg, ghost, faults>>

Reg  == [pc : {"idle", "resolve", "stat", "open", "write", "rename"},
         want : SUBSET Cmd, base : Doc, to : Name, mode : {600, 644}, fd : Inode \cup {None}]
Idle == [pc |-> "idle", want |-> {}, base |-> Blank, to |-> "path", mode |-> 644, fd |-> None]

(* Between opening the temporary file and renaming it.                      *)
Writing(p) == reg[p].pc \in {"write", "rename"}

(* What a reader that follows the link opens.                               *)
Opened == IF file["path"] = Link THEN file["copy"] ELSE file["path"]

Current == IF Opened = None THEN Blank ELSE inode[Opened].data

Live == (({file[n] : n \in Name} \cup {tmp[n] : n \in Name}) \cap Inode)
        \cup {reg[p].fd : p \in {p \in Proc : Writing(p)}}

Init ==
    \E s \in Start :
        LET name  == IF s.link THEN "copy" ELSE "path"
            first == CHOOSE i \in Inode : TRUE
        IN
        /\ file = [n \in Name |-> IF n = name THEN IF s.exists THEN first ELSE None
                              ELSE IF n = "path" THEN Link ELSE None]
        /\ tmp = [n \in Name |-> None]
        /\ inode = [i \in Inode |-> [data |-> IF s.exists THEN s.doc ELSE Blank, mode |-> 644]]
        /\ reg = [p \in Proc |-> Idle]
        /\ acked = {} /\ gear = Current.gear
        /\ clash = FALSE /\ raced = FALSE /\ faults = 0

----------------------------------------------------------------------------
Fault == faults < MaxFaults /\ faults' = faults + 1

Goes(p, r) == reg' = [reg EXCEPT ![p] = r]

Return(p) == Goes(p, Idle)

(* readSettings and the loop over the commands.  A file that is not a JSON  *)
(* object is an error and nothing happens.                                  *)
ReadSettings(p, W) ==
    /\ reg[p] = Idle
    /\ Current \notin {Empty, Torn}
    /\ IF Present(Current, W)
       THEN acked' = acked \cup W /\ UNCHANGED reg
       ELSE /\ Goes(p, [Idle EXCEPT !.pc = "resolve", !.want = W, !.base = Current])
            /\ UNCHANGED acked
    /\ UNCHANGED <<disk, gear, clash, raced, faults>>

(* Variant: the link is not followed.                                       *)
TargetLink == "path"

(* EvalSymlinks fails on a link to nothing.                                 *)
Target == IF file["path"] = Link /\ file["copy"] # None THEN "copy" ELSE "path"

ResolveTarget(p) ==
    /\ reg[p].pc = "resolve"
    /\ Goes(p, [reg[p] EXCEPT !.pc = "stat", !.to = Target])
    /\ UNCHANGED <<disk, ghost, faults>>

(* What os.Stat(target) finds, at the time it is called.                    *)
Found(p) == IF reg[p].to = "path" THEN Opened ELSE file["copy"]

(* Variant: without a default for a file that does not exist yet.           *)
StatTargetNoMode(p) ==
    /\ reg[p].pc = "stat"
    /\ Goes(p, [reg[p] EXCEPT !.pc = "open",
                  !.mode = IF Found(p) = None THEN 0 ELSE inode[Found(p)].mode])
    /\ UNCHANGED <<disk, ghost, faults>>

StatTarget(p) ==
    /\ reg[p].pc = "stat"
    /\ Goes(p, [reg[p] EXCEPT !.pc = "open",
                  !.mode = IF Found(p) = None THEN 644 ELSE inode[Found(p)].mode])
    /\ UNCHANGED <<disk, ghost, faults>>

(* os.WriteFile opens the temporary file: a file that is there already is   *)
(* truncated and keeps its permissions.                                     *)
OpenTmp(p) ==
    LET to == reg[p].to IN
    /\ reg[p].pc = "open"
    /\ \E i \in IF tmp[to] = None THEN Inode \ Live ELSE {tmp[to]} :
          /\ tmp' = [tmp EXCEPT ![to] = i]
          /\ inode' = [inode EXCEPT ![i] =
                [data |-> Empty, mode |-> IF tmp[to] = None THEN reg[p].mode ELSE @.mode]]
          /\ Goes(p, [reg[p] EXCEPT !.pc = "write", !.fd = i])
    /\ clash' = (clash \/ \E q \in Proc \ {p} : Writing(q) /\ reg[q].to = to)
    /\ UNCHANGED <<file, acked, gear, raced, faults>>

(* A document written over what another process has written there since is  *)
(* whole only if it is the longer one.                                      *)
WrittenOver(old, new) == IF old = Empty THEN {new} ELSE {new, Torn}

WriteTmp(p) ==
    LET i == reg[p].fd IN
    /\ reg[p].pc = "write"
    /\ \E d \in WrittenOver(inode[i].data, Register(reg[p].base, reg[p].want)) :
          inode' = [inode EXCEPT ![i].data = d]
    /\ Goes(p, [reg[p] EXCEPT !.pc = "rename"])
    /\ UNCHANGED <<file, tmp, ghost, faults>>

(* Variant: the error is not looked at.                                     *)
WriteFailsIgnored(p) ==
    /\ reg[p].pc = "write" /\ Fault
    /\ inode' = [inode EXCEPT ![reg[p].fd].data = Torn]
    /\ Goes(p, [reg[p] EXCEPT !.pc = "rename"])
    /\ UNCHANGED <<file, tmp, ghost>>

(* A failed write is returned; the temporary file stays as it is.           *)
WriteFails(p) ==
    /\ reg[p].pc = "write" /\ Fault
    /\ inode' = [inode EXCEPT ![reg[p].fd].data = Torn]
    /\ Return(p)
    /\ UNCHANGED <<file, tmp, ghost>>

Rename(p) ==
    LET to == reg[p].to IN
    /\ reg[p].pc = "rename"
    /\ Return(p)
    /\ IF tmp[to] = None
       THEN UNCHANGED <<file, tmp, acked, raced>>
       ELSE /\ file' = [file EXCEPT ![to] = tmp[to]]
            /\ tmp' = [tmp EXCEPT ![to] = None]
            /\ acked' = acked \cup reg[p].want
            /\ raced' = (raced \/ reg[p].base # Current)
    /\ UNCHANGED <<inode, gear, clash, faults>>

(* Variant: success is reported all the same.                               *)
RenameFailsSilently(p) ==
    /\ reg[p].pc = "rename" /\ Fault
    /\ tmp' = [tmp EXCEPT ![reg[p].to] = None]
    /\ Return(p)
    /\ acked' = acked \cup reg[p].want
    /\ UNCHANGED <<file, inode, gear, clash, raced>>

(* The temporary file of that name is removed, whoever wrote it.            *)
RenameFails(p) ==
    /\ reg[p].pc = "rename" /\ Fault
    /\ tmp' = [tmp EXCEPT ![reg[p].to] = None]
    /\ Return(p)
    /\ UNCHANGED <<file, inode, ghost>>

Crash(p) ==
    /\ reg[p] # Idle /\ Fault
    /\ Return(p)
    /\ UNCHANGED <<disk, ghost>>

(* Claude Code changes its own keys; the user hardens the file.             *)
ClaudeEdits(g) ==
    /\ Opened # None /\ Current \notin {Empty, Torn}
    /\ inode' = [inode EXCEPT ![Opened].data.gear = g]
    /\ gear' = g
    /\ UNCHANGED <<file, tmp, reg, acked, clash, raced, faults>>

Harden ==
    /\ Opened # None
    /\ inode' = [inode EXCEPT ![Opened].mode = 600]
    /\ UNCHANGED <<file, tmp, reg, ghost, faults>>

Next ==
    \/ \E p \in Proc :
          \/ \E W \in Want : ReadSettings(p, W)
          \/ ResolveTarget(p)
          \/ StatTarget(p)
          \/ OpenTmp(p)
          \/ WriteTmp(p)
          \/ WriteFails(p)
          \/ Rename(p)
          \/ RenameFails(p)
          \/ Crash(p)
    \/ \E g \in Gear : ClaudeEdits(g)
    \/ Harden

Spec == Init /\ [][Next]_vars

----------------------------------------------------------------------------
Data == Doc \cup {Empty, Torn}

TypeOK ==
    /\ file \in [Name -> Inode \cup {None, Link}] /\ file["copy"] # Link
    /\ tmp \in [Name -> Inode \cup {None}]
    /\ inode \in [Inode -> [data : Data, mode : {600, 644}]]
    /\ reg \in [Proc -> Reg]
    /\ \A p \in Proc : Writing(p) => reg[p].fd \in Inode
    /\ acked \subseteq Cmd /\ gear \in Gear \cup {NoGear}
    /\ clash \in BOOLEAN /\ raced \in BOOLEAN /\ faults \in Nat

(* However registrations overlap, fail and are killed, no command is ever   *)
(* registered twice, in whichever of the two forms it was there.            *)
NoDuplicate == Current \in Doc => Once(Current)

(* A reader finds a complete document unless two registrations were at the  *)
(* temporary file at once; that a process was killed is no excuse.          *)
CompleteFile == ~ clash => Current \in Doc

(* Registrations that did not overlap with any other change lose nothing:   *)
(* the commands reported as registered are in the file, and what Claude     *)
(* Code wrote last is too.                                                  *)
NothingLost ==
    ~ clash /\ ~ raced => Present(Current, acked) /\ Current.gear = gear

(* A link that leads to a file stays a link; the file it leads to changes.  *)
LinkKept ==
    [][file["path"] = Link /\ file["copy"] # None => file'["path"] = Link]_file

(* The promise of the package: single steps between complete documents, as  *)
(* long as no two registrations meet at the temporary file.                 *)
Held == [p \in Proc |-> reg[p].base]

Promise == INSTANCE HookRegister WITH doc <- Current, seen <- Held

KeepsPromise == Promise!Init /\ [][clash' \/ Promise!Next]_<<Current, Held, acked>>

(* "the replacement file keeps the existing file's permissions": what a     *)
(* rename installs has the mode that the registration found on the file.    *)
ModeKept ==
    [][\A p \in Proc :
          reg[p].pc = "rename" /\ reg'[p] = Idle /\ file' # file
              => inode[file'[reg[p].to]].mode = reg[p].mode]_vars
===============================================================================
