---------------------------- MODULE SettingsProofs ----------------------------
(***************************************************************************)
(* For any number of processes, commands and inodes: Settings keeps its    *)
(* types, registers no command twice, keeps links, implements HookRegister *)
(* while no two registrations meet, and loses nothing that was not written *)
(* between a registration's read and rename.                               *)
(*                                                                         *)
(* The invariant says where everything is: while no two registrations met  *)
(* at the temporary file, at most one is writing it, the file under that   *)
(* name is the one it opened and no other name has, and what it renames is *)
(* the document it read with its commands added.                           *)
(***************************************************************************)
EXTENDS Settings, TLAPS

(* The name that registrations replace: it never changes.                   *)
Where == IF file["copy"] = None THEN "path" ELSE "copy"

NamesInv ==
    /\ file["copy"] # None => file["path"] = Link
    /\ \A p \in Proc : reg[p].pc \in {"stat", "open"} \/ Writing(p) => reg[p].to = Where
    /\ \A n \in Name : tmp[n] # None => n = Where /\ tmp[n] # Opened

OnceInv ==
    /\ \A i \in Inode : inode[i].data \in Doc => Once(inode[i].data)
    /\ \A p \in Proc : Once(reg[p].base)

AloneInv ==
    ~ clash =>
        /\ Current \in Doc
        /\ \A p \in Proc : Writing(p) =>
              /\ tmp[Where] = reg[p].fd
              /\ \A q \in Proc : Writing(q) => p = q
              /\ inode[reg[p].fd].data = IF reg[p].pc = "write" THEN Empty
                                         ELSE Register(reg[p].base, reg[p].want)

IInv == TypeOK /\ NamesInv /\ OnceInv /\ AloneInv /\ NothingLost

----------------------------------------------------------------------------
(* Facts about documents. *)

(* A missing file is an empty document.                                     *)
LEMMA BlankDoc == Blank \in Doc /\ Once(Blank) /\ Present(Blank, {})
BY DEF Blank, Doc, Once, Present, Entry, Form

(* Changing the other keys leaves the hooks alone.                          *)
LEMMA EditDoc ==
    ASSUME NEW d \in Doc, NEW g \in Gear
    PROVE  LET e == [d EXCEPT !.gear = g] IN
           /\ e \in Doc /\ e.gear = g
           /\ Once(d) => Once(e)
           /\ \A V : Present(d, V) => Present(e, V)
BY DEF Doc, Once, Present, HasHookCommand

(* Registering adds what is missing, once, and takes nothing away.          *)
LEMMA RegisterDoc ==
    ASSUME NEW d \in Doc, NEW W \in SUBSET Cmd
    PROVE  LET e == Register(d, W) IN
           /\ e \in Doc /\ e.gear = d.gear
           /\ Once(d) => Once(e)
           /\ Present(e, W)
           /\ \A V \in SUBSET Cmd : Present(d, V) => Present(e, V)
<1> DEFINE e == Register(d, W)
           l(c) == d.hooks[<<c, "legacy">>]
           x(c) == d.hooks[<<c, "exec">>]
<1>1. \A c \in Cmd : HasHookCommand(d.hooks, c) <=> (l(c) > 0 \/ x(c) > 0)
  BY DEF HasHookCommand, Form
<1>2. /\ DOMAIN d.hooks = Entry
      /\ \A c \in Cmd : l(c) \in Nat /\ x(c) \in Nat
      /\ d.hooks \in [Entry -> Nat] /\ d.gear \in Gear \cup {NoGear}
  BY DEF Doc, Entry, Form
<1> DEFINE h == [i \in Entry |-> IF i[1] \in W /\ i[2] = "exec" /\ ~ HasHookCommand(d.hooks, i[1])
                                 THEN d.hooks[i] + 1 ELSE d.hooks[i]]
<1>21. e = [hooks |-> h, gear |-> d.gear]
  BY DEF Register, Doc
<1>22. h \in [Entry -> Nat]
  BY <1>2
<1>23. e \in Doc /\ e.gear = d.gear /\ e.hooks = h
  BY <1>21, <1>22, <1>2 DEF Doc
<1>24. ASSUME NEW c \in Cmd
       PROVE  /\ h[<<c, "legacy">>] = l(c)
              /\ h[<<c, "exec">>] = IF c \in W /\ ~ (l(c) > 0 \/ x(c) > 0)
                                     THEN x(c) + 1 ELSE x(c)
  BY <1>1 DEF Entry, Form
<1> HIDE DEF e, h, l, x
<1>3. Once(d) => Once(e)
  <2>1. SUFFICES ASSUME Once(d), NEW c \in Cmd
                 PROVE  h[<<c, "legacy">>] + h[<<c, "exec">>] <= 1
    BY <1>23 DEF Once
  <2>2. l(c) + x(c) <= 1
    BY <2>1 DEF Once, l, x
  <2> QED BY <2>2, <1>24, <1>2
<1>4. ASSUME NEW c \in Cmd, HasHookCommand(d.hooks, c) \/ c \in W
      PROVE  HasHookCommand(e.hooks, c)
  <2>1. h[<<c, "legacy">>] > 0 \/ h[<<c, "exec">>] > 0
    BY <1>4, <1>1, <1>2, <1>24
  <2> QED BY <2>1, <1>23 DEF HasHookCommand, Form
<1>5. Present(e, W)
  BY <1>4 DEF Present
<1>6. \A V \in SUBSET Cmd : Present(d, V) => Present(e, V)
  BY <1>4 DEF Present
<1> QED BY <1>23, <1>3, <1>5, <1>6 DEF e
----------------------------------------------------------------------------
(* Type correctness. *)

LEMMA BlankIdle == Blank \in Doc /\ Idle \in Reg /\ Idle.pc = "idle"
BY BlankDoc DEF Idle, Reg, Name

(* What a reader opens, and what it finds there.                            *)
LEMMA CurrentType == TypeOK => /\ Opened \in Inode \cup {None}
                               /\ Current \in Data
                               /\ Opened # None => Current = inode[Opened].data
BY BlankDoc, SettingsAssumption DEF TypeOK, Opened, Current, Name, Data

(* The first state is well typed.                                           *)
LEMMA InitType == Init => TypeOK
<1> SUFFICES ASSUME Init PROVE TypeOK
  OBVIOUS
<1> PICK s \in Start : Init!(s)
  BY DEF Init
<1> DEFINE first == CHOOSE i \in Inode : TRUE
<1>1. first \in Inode /\ s.doc \in Doc
  BY SettingsAssumption
<1>2. file \in [Name -> Inode \cup {None, Link}] /\ file["copy"] # Link
  BY <1>1, SettingsAssumption DEF Name
<1>3. inode \in [Inode -> [data : Data, mode : {600, 644}]]
  BY <1>1, BlankDoc DEF Data
<1>4. tmp \in [Name -> Inode \cup {None}]
  OBVIOUS
<1>5. reg \in [Proc -> Reg] /\ \A p \in Proc : ~ Writing(p)
  BY BlankIdle DEF Writing
<1>6. gear \in Gear \cup {NoGear}
  BY <1>1, SettingsAssumption DEF Current, Opened, Blank, Name, Doc
<1> QED BY <1>2, <1>3, <1>4, <1>5, <1>6 DEF TypeOK

(* The records that a registration goes through.                            *)
LEMMA ReadReg ==
    ASSUME NEW p, NEW W, ReadSettings(p, W)
    PROVE  \/ reg' = reg
           \/ Goes(p, [pc |-> "resolve", want |-> W, base |-> Current, to |-> "path",
                       mode |-> 644, fd |-> None])
<1>1. PICK r : r = [Idle EXCEPT !.pc = "resolve", !.want = W, !.base = Current]
  OBVIOUS
<1>2. r = [pc |-> "resolve", want |-> W, base |-> Current, to |-> "path", mode |-> 644, fd |-> None]
  BY <1>1, ZenonT(60) DEF Idle
<1>3. reg' = reg \/ Goes(p, r)
  BY <1>1, ZenonT(60) DEF ReadSettings
<1> QED BY <1>2, <1>3, ZenonT(60)

LEMMA ResolveReg ==
    ASSUME NEW p, reg[p] \in Reg, ResolveTarget(p)
    PROVE  Goes(p, [pc |-> "stat", want |-> reg[p].want, base |-> reg[p].base, to |-> Target,
                    mode |-> reg[p].mode, fd |-> reg[p].fd])
<1>1. PICK r : r = [reg[p] EXCEPT !.pc = "stat", !.to = Target]
  OBVIOUS
<1>2. Goes(p, r)
  BY <1>1, ZenonT(60) DEF ResolveTarget
<1>3. r = [pc |-> "stat", want |-> reg[p].want, base |-> reg[p].base, to |-> Target,
           mode |-> reg[p].mode, fd |-> reg[p].fd]
  BY <1>1, ZenonT(60) DEF Reg
<1> QED BY <1>2, <1>3, ZenonT(60)

LEMMA StatReg ==
    ASSUME NEW p, reg[p] \in Reg, StatTarget(p)
    PROVE  Goes(p, [pc |-> "open", want |-> reg[p].want, base |-> reg[p].base, to |-> reg[p].to,
                    mode |-> IF Found(p) = None THEN 644 ELSE inode[Found(p)].mode,
                    fd |-> reg[p].fd])
<1> DEFINE m == IF Found(p) = None THEN 644 ELSE inode[Found(p)].mode
<1>1. PICK r : r = [reg[p] EXCEPT !.pc = "open", !.mode = m]
  OBVIOUS
<1>2. Goes(p, r)
  BY <1>1, ZenonT(60) DEF StatTarget
<1> HIDE DEF m
<1>3. r = [pc |-> "open", want |-> reg[p].want, base |-> reg[p].base, to |-> reg[p].to,
           mode |-> m, fd |-> reg[p].fd]
  BY <1>1, ZenonT(60) DEF Reg
<1> QED BY <1>2, <1>3, ZenonT(60) DEF m

LEMMA WriteReg ==
    ASSUME NEW p, reg[p] \in Reg, NEW i, Goes(p, [reg[p] EXCEPT !.pc = "write", !.fd = i])
    PROVE  Goes(p, [pc |-> "write", want |-> reg[p].want, base |-> reg[p].base, to |-> reg[p].to,
                    mode |-> reg[p].mode, fd |-> i])
<1>1. PICK r : r = [reg[p] EXCEPT !.pc = "write", !.fd = i]
  OBVIOUS
<1>2. r = [pc |-> "write", want |-> reg[p].want, base |-> reg[p].base, to |-> reg[p].to,
           mode |-> reg[p].mode, fd |-> i]
  BY <1>1, ZenonT(60) DEF Reg
<1> QED BY <1>1, <1>2, ZenonT(60)

LEMMA RenameReg ==
    ASSUME NEW p, reg[p] \in Reg, WriteTmp(p)
    PROVE  Goes(p, [pc |-> "rename", want |-> reg[p].want, base |-> reg[p].base, to |-> reg[p].to,
                    mode |-> reg[p].mode, fd |-> reg[p].fd])
<1>1. PICK r : r = [reg[p] EXCEPT !.pc = "rename"]
  OBVIOUS
<1>2. Goes(p, r)
  BY <1>1, ZenonT(60) DEF WriteTmp
<1>3. r = [pc |-> "rename", want |-> reg[p].want, base |-> reg[p].base, to |-> reg[p].to,
           mode |-> reg[p].mode, fd |-> reg[p].fd]
  BY <1>1, ZenonT(60) DEF Reg
<1> QED BY <1>2, <1>3, ZenonT(60)

(* A registration that goes on well typed keeps all of them well typed.     *)
LEMMA RegType ==
    ASSUME TypeOK, NEW p \in Proc, NEW r \in Reg, Goes(p, r),
           r.pc \in {"write", "rename"} => r.fd \in Inode
    PROVE  reg' \in [Proc -> Reg] /\ \A q \in Proc : Writing(q)' => reg'[q].fd \in Inode
BY DEF TypeOK, Writing, Goes

(* So does one that ends.                                                   *)
LEMMA ReturnType ==
    ASSUME TypeOK, NEW p \in Proc, Return(p)
    PROVE  reg' \in [Proc -> Reg] /\ \A q \in Proc : Writing(q)' => reg'[q].fd \in Inode
BY BlankIdle, RegType DEF Return

(* Writing a document, or a part of one, into a file.                       *)
LEMMA InodeType ==
    ASSUME TypeOK, NEW i \in Inode, NEW d \in Data, inode' = [inode EXCEPT ![i].data = d]
    PROVE  inode' \in [Inode -> [data : Data, mode : {600, 644}]]
BY DEF TypeOK

(* Every step keeps the types.                                              *)
LEMMA NextType == TypeOK /\ [Next]_vars => TypeOK'
<1> SUFFICES ASSUME TypeOK, [Next]_vars PROVE TypeOK'
  OBVIOUS
<1> USE DEF ghost
<1>1. ASSUME NEW p \in Proc, NEW W \in Want, ReadSettings(p, W) PROVE TypeOK'
  <2>1. W \subseteq Cmd /\ Current \in Doc
    BY <1>1, CurrentType, SettingsAssumption DEF ReadSettings, Data
  <2> DEFINE r == [pc |-> "resolve", want |-> W, base |-> Current, to |-> "path", mode |-> 644,
                   fd |-> None]
  <2>2. r \in Reg /\ r.pc = "resolve"
    BY <2>1 DEF Reg, Name
  <2> HIDE DEF r
  <2>3. reg' \in [Proc -> Reg] /\ \A q \in Proc : Writing(q)' => reg'[q].fd \in Inode
    <3>1. CASE UNCHANGED reg
      BY <3>1 DEF TypeOK, Writing
    <3>2. CASE Goes(p, r)
      BY <2>2, <3>2, RegType
    <3> QED BY <1>1, <3>1, <3>2, ReadReg DEF r
  <2> QED BY <1>1, <2>1, <2>3 DEF ReadSettings, TypeOK, disk
<1>2. ASSUME NEW p \in Proc, ResolveTarget(p) PROVE TypeOK'
  <2>1. Target \in Name /\ reg[p] \in Reg
    BY DEF TypeOK, Target, Name
  <2> DEFINE r == [pc |-> "stat", want |-> reg[p].want, base |-> reg[p].base, to |-> Target,
                   mode |-> reg[p].mode, fd |-> reg[p].fd]
  <2>2. r \in Reg /\ r.pc = "stat"
    BY <2>1 DEF Reg
  <2>3. Goes(p, r)
    BY <1>2, <2>1, ResolveReg
  <2> HIDE DEF r
  <2>4. reg' \in [Proc -> Reg] /\ \A q \in Proc : Writing(q)' => reg'[q].fd \in Inode
    BY <2>2, <2>3, RegType
  <2> QED BY <1>2, <2>4 DEF ResolveTarget, TypeOK, disk
<1>3. ASSUME NEW p \in Proc, StatTarget(p) PROVE TypeOK'
  <2> DEFINE m == IF Found(p) = None THEN 644 ELSE inode[Found(p)].mode
  <2>1. m \in {600, 644}
    BY CurrentType DEF TypeOK, Found, Name
  <2> HIDE DEF m
  <2>2. reg[p] \in Reg
    BY DEF TypeOK
  <2> DEFINE r == [pc |-> "open", want |-> reg[p].want, base |-> reg[p].base,
                   to |-> reg[p].to, mode |-> m, fd |-> reg[p].fd]
  <2>3. r \in Reg /\ r.pc = "open"
    BY <2>1, <2>2 DEF Reg
  <2>4. Goes(p, r)
    BY <1>3, <2>2, StatReg DEF m
  <2> HIDE DEF r
  <2>5. reg' \in [Proc -> Reg] /\ \A q \in Proc : Writing(q)' => reg'[q].fd \in Inode
    BY <2>3, <2>4, RegType
  <2> QED BY <1>3, <2>5 DEF StatTarget, TypeOK, disk
<1>4. ASSUME NEW p \in Proc, OpenTmp(p) PROVE TypeOK'
  <2> DEFINE to == reg[p].to
  <2>1. to \in Name /\ reg[p].mode \in {600, 644}
    BY DEF TypeOK, Reg
  <2>2. PICK i \in IF tmp[to] = None THEN Inode \ Live ELSE {tmp[to]} :
          /\ tmp' = [tmp EXCEPT ![to] = i]
          /\ inode' = [inode EXCEPT ![i] =
                [data |-> Empty, mode |-> IF tmp[to] = None THEN reg[p].mode ELSE @.mode]]
          /\ Goes(p, [reg[p] EXCEPT !.pc = "write", !.fd = i])
    BY <1>4 DEF OpenTmp
  <2>3. i \in Inode
    BY <2>1, <2>2 DEF TypeOK
  <2>4. reg' \in [Proc -> Reg] /\ \A q \in Proc : Writing(q)' => reg'[q].fd \in Inode
    <3> DEFINE r == [pc |-> "write", want |-> reg[p].want, base |-> reg[p].base,
                     to |-> reg[p].to, mode |-> reg[p].mode, fd |-> i]
    <3>1. reg[p] \in Reg
      BY DEF TypeOK
    <3>2. r \in Reg /\ r.fd \in Inode
      BY <2>3, <3>1 DEF Reg
    <3>3. Goes(p, r)
      BY <2>2, <3>1, WriteReg
    <3> HIDE DEF r
    <3> QED BY <3>2, <3>3, RegType
  <2>5. inode' \in [Inode -> [data : Data, mode : {600, 644}]]
    BY <2>1, <2>2, <2>3 DEF TypeOK, Data
  <2> QED BY <1>4, <2>1, <2>2, <2>3, <2>4, <2>5 DEF OpenTmp, TypeOK
<1>5. ASSUME NEW p \in Proc, WriteTmp(p) PROVE TypeOK'
  <2>1. reg' \in [Proc -> Reg] /\ \A q \in Proc : Writing(q)' => reg'[q].fd \in Inode
    <3> DEFINE r == [pc |-> "rename", want |-> reg[p].want, base |-> reg[p].base,
                     to |-> reg[p].to, mode |-> reg[p].mode, fd |-> reg[p].fd]
    <3>1. reg[p] \in Reg /\ reg[p].fd \in Inode
      BY <1>5 DEF TypeOK, WriteTmp, Writing
    <3>2. r \in Reg /\ r.fd \in Inode
      BY <3>1 DEF Reg
    <3>3. Goes(p, r)
      BY <1>5, <3>1, RenameReg
    <3> HIDE DEF r
    <3> QED BY <3>2, <3>3, RegType
  <2>2. reg[p].base \in Doc /\ reg[p].want \in SUBSET Cmd
    BY DEF TypeOK, Reg
  <2>3. WrittenOver(inode[reg[p].fd].data, Register(reg[p].base, reg[p].want)) \subseteq Data
    BY <2>2, RegisterDoc DEF WrittenOver, Data
  <2>4. inode' \in [Inode -> [data : Data, mode : {600, 644}]]
    <3>1. PICK d \in Data : inode' = [inode EXCEPT ![reg[p].fd].data = d]
      BY <1>5, <2>3 DEF WriteTmp
    <3>2. reg[p].fd \in Inode
      BY <1>5 DEF WriteTmp, Writing, TypeOK
    <3> QED BY <3>1, <3>2, InodeType
  <2> QED BY <1>5, <2>1, <2>4 DEF WriteTmp, TypeOK
<1>6. ASSUME NEW p \in Proc, WriteFails(p) PROVE TypeOK'
  <2>1. inode' \in [Inode -> [data : Data, mode : {600, 644}]]
    <3>1. reg[p].fd \in Inode /\ Torn \in Data
      BY <1>6 DEF WriteFails, Writing, TypeOK, Data
    <3> QED BY <1>6, <3>1, InodeType DEF WriteFails
  <2>2. reg' \in [Proc -> Reg] /\ \A q \in Proc : Writing(q)' => reg'[q].fd \in Inode
    BY <1>6, ReturnType DEF WriteFails
  <2> QED BY <1>6, <2>1, <2>2 DEF WriteFails, Fault, TypeOK
<1>7. ASSUME NEW p \in Proc, Rename(p) PROVE TypeOK'
  <2>1. reg' \in [Proc -> Reg] /\ \A q \in Proc : Writing(q)' => reg'[q].fd \in Inode
    BY <1>7, ReturnType DEF Rename
  <2>2. reg[p].to \in Name /\ reg[p].want \subseteq Cmd
    BY DEF TypeOK, Reg
  <2>3. /\ file' \in [Name -> Inode \cup {None, Link}] /\ file'["copy"] # Link
        /\ tmp' \in [Name -> Inode \cup {None}]
    BY <1>7, <2>2, SettingsAssumption DEF Rename, TypeOK, Name
  <2>4. acked' \subseteq Cmd /\ raced' \in BOOLEAN
    <3>1. CASE tmp[reg[p].to] = None
      BY <1>7, <3>1 DEF Rename, TypeOK
    <3>2. CASE tmp[reg[p].to] # None
      <4>1. acked' \subseteq Cmd
        BY <1>7, <2>2, <3>2 DEF Rename, TypeOK
      <4>2. raced' \in BOOLEAN
        BY <1>7, <3>2 DEF Rename, TypeOK
      <4> QED BY <4>1, <4>2
    <3> QED BY <3>1, <3>2
  <2> QED BY <1>7, <2>1, <2>3, <2>4 DEF Rename, TypeOK
<1>8. ASSUME NEW p \in Proc, RenameFails(p) PROVE TypeOK'
  <2>1. reg' \in [Proc -> Reg] /\ \A q \in Proc : Writing(q)' => reg'[q].fd \in Inode
    BY <1>8, ReturnType DEF RenameFails
  <2>2. tmp' \in [Name -> Inode \cup {None}]
    BY <1>8 DEF RenameFails, TypeOK
  <2> QED BY <1>8, <2>1, <2>2 DEF RenameFails, Fault, TypeOK
<1>9. ASSUME NEW p \in Proc, Crash(p) PROVE TypeOK'
  <2>1. reg' \in [Proc -> Reg] /\ \A q \in Proc : Writing(q)' => reg'[q].fd \in Inode
    BY <1>9, ReturnType DEF Crash
  <2> QED BY <1>9, <2>1 DEF Crash, Fault, TypeOK, disk
<1>10. ASSUME NEW g \in Gear, ClaudeEdits(g) PROVE TypeOK'
  <2>1. Current \in Doc /\ Opened \in Inode /\ Current = inode[Opened].data
    BY <1>10, CurrentType DEF ClaudeEdits, Data
  <2>2. [inode[Opened].data EXCEPT !.gear = g] \in Doc
    BY <2>1, EditDoc
  <2>3. inode' \in [Inode -> [data : Data, mode : {600, 644}]]
    <3>1. inode' = [inode EXCEPT ![Opened].data = [@ EXCEPT !.gear = g]]
      BY <1>10 DEF ClaudeEdits
    <3> QED BY <2>1, <2>2, <3>1, InodeType DEF Data
  <2> QED BY <1>10, <2>3 DEF ClaudeEdits, TypeOK, Writing
<1>11. CASE Harden
  <2>1. inode' \in [Inode -> [data : Data, mode : {600, 644}]]
    BY <1>11, CurrentType DEF Harden, TypeOK
  <2> QED BY <1>11, <2>1 DEF Harden, TypeOK, Writing
<1>12. CASE UNCHANGED vars
  BY <1>12 DEF vars, disk, TypeOK, Writing
<1> QED BY <1>1, <1>2, <1>3, <1>4, <1>5, <1>6, <1>7, <1>8, <1>9, <1>10, <1>11, <1>12 DEF Next

(* The variables keep their types.                                          *)
THEOREM TypeCorrect == Spec => []TypeOK
BY InitType, NextType, PTL DEF Spec
----------------------------------------------------------------------------
(* The invariant. *)

(* The invariant holds before anything runs.                                *)
LEMMA InitInv == Init => IInv
<1> SUFFICES ASSUME Init PROVE IInv
  OBVIOUS
<1> PICK s \in Start : Init!(s)
  BY DEF Init
<1>1. s.doc \in Doc /\ Once(s.doc) /\ TypeOK
  BY InitType, SettingsAssumption
<1>2. NamesInv
  BY BlankIdle, SettingsAssumption DEF NamesInv, Name, Writing, Idle
<1>3. OnceInv
  BY <1>1, BlankDoc DEF OnceInv, Idle
<1>4. Current \in Doc
  <2>1. \A i \in Inode : inode[i].data \in Doc
    BY <1>1, BlankDoc
  <2> QED BY <1>1, <2>1, BlankDoc, CurrentType DEF Current
<1>5. AloneInv
  BY <1>4, BlankIdle DEF AloneInv, Writing
<1>6. NothingLost
  BY DEF NothingLost, Present
<1> QED BY <1>1, <1>2, <1>3, <1>5, <1>6 DEF IInv

(* A step of p changes its own registration only.                           *)
LEMMA OwnReg ==
    ASSUME TypeOK, NEW p \in Proc, NEW r, Goes(p, r)
    PROVE  reg'[p] = r /\ \A q \in Proc : q # p => reg'[q] = reg[q]
BY DEF TypeOK, Goes

(* The name that registrations replace is the one that a reader opens.      *)
LEMMA Places ==
    ASSUME TypeOK, NamesInv
    PROVE  /\ Where \in Name /\ Target = Where
           /\ Opened # None => Opened = file[Where]
           /\ Opened \in Inode => Opened \in Live
<1>1. Where \in Name /\ Target = Where
  BY DEF NamesInv, Where, Target, Name
<1>2. Opened # None => Opened = file[Where]
  BY SettingsAssumption DEF NamesInv, Where, Opened, TypeOK, Name
<1>3. Opened \in Inode => Opened \in {file[n] : n \in Name} \cap Inode
  BY <1>1, <1>2, SettingsAssumption
<1> QED BY <1>1, <1>2, <1>3 DEF Live

(* A writer that is alone has the file under the temporary name open.       *)
LEMMA OwnFile ==
    ASSUME IInv, ~ clash, NEW p \in Proc, Writing(p)
    PROVE  /\ reg[p].fd \in Inode /\ reg[p].fd # Opened
           /\ reg[p].to = Where /\ tmp[Where] = reg[p].fd
BY Places, SettingsAssumption DEF IInv, TypeOK, NamesInv, AloneInv

(* What a step leaves as it is.                                             *)
LEMMA SameFile ==
    ASSUME file' = file
    PROVE  Opened' = Opened /\ Where' = Where
BY DEF Opened, Where

(* A step that leaves the opened file's content leaves what readers find.   *)
LEMMA SameCurrent ==
    ASSUME file' = file, Opened # None => inode'[Opened].data = inode[Opened].data
    PROVE  Current' = Current
BY SameFile DEF Current

(* Such a step loses nothing.                                               *)
LEMMA SameDocument ==
    ASSUME NothingLost, Current' = Current, UNCHANGED ghost
    PROVE  NothingLost'
BY DEF NothingLost, ghost, Present

(* What a step is to HookRegister, unless two registrations meet.           *)
Promised == clash' \/ Promise!Next \/ UNCHANGED <<Current, Held, acked>>

(* A step that readers and registrations do not notice.                     *)
LEMMA Stutters ==
    ASSUME Current' = Current, acked' = acked, \A q \in Proc : reg'[q].base = reg[q].base
    PROVE  Promised
BY DEF Promised, Held

(* A registration takes up, or drops, a document.                           *)
LEMMA SetsHeld ==
    ASSUME NEW p \in Proc, NEW d, reg'[p].base = d, \A q \in Proc : q # p => reg'[q] = reg[q]
    PROVE  Held' = [Held EXCEPT ![p] = d]
BY DEF Held

(* A registration that ends without a rename gives up.                      *)
LEMMA GivesUp ==
    ASSUME Current' = Current, acked' = acked, NEW p \in Proc, reg'[p].base = Blank,
           \A q \in Proc : q # p => reg'[q] = reg[q]
    PROVE  Promised
<1>1. Held' = [Held EXCEPT ![p] = Blank]
  BY SetsHeld
<1> QED BY <1>1 DEF Promised, Promise!Next, Promise!GiveUp, Promise!Blank, Blank,
                    Promise!Entry, Entry, Promise!Form, Form

(* Every step keeps the invariant and is a step of the promise.             *)
LEMMA NextInv == IInv /\ [Next]_vars => IInv' /\ Promised
<1> SUFFICES ASSUME IInv, [Next]_vars 
                 PROVE NamesInv' /\ OnceInv' /\ AloneInv' /\ NothingLost' /\ Promised
  BY NextType DEF IInv
<1> TypeOK /\ NamesInv /\ OnceInv /\ AloneInv /\ NothingLost
  BY DEF IInv
<1> DEFINE Goal == NamesInv' /\ OnceInv' /\ AloneInv' /\ NothingLost' /\ Promised
<1>1. ASSUME NEW p \in Proc, NEW W \in Want, ReadSettings(p, W) PROVE Goal
  <2>1. UNCHANGED disk /\ Current' = Current /\ Opened' = Opened /\ Where' = Where
    BY <1>1, SameFile, SameCurrent DEF ReadSettings, disk
  <2>2. Current \in Doc
    BY <1>1, CurrentType DEF ReadSettings, Data
  <2>3. Once(Current)
    BY <2>2, CurrentType, BlankDoc DEF OnceInv, Current
  <2>4. \/ reg' = reg
        \/ /\ \A q \in Proc : q # p => reg'[q] = reg[q]
           /\ reg'[p].pc = "resolve" /\ reg'[p].base = Current
    <3>1. CASE reg' = reg
      BY <3>1
    <3>2. CASE reg' # reg
      <4>1. PICK r : r = [pc |-> "resolve", want |-> W, base |-> Current, to |-> "path",
                          mode |-> 644, fd |-> None]
        OBVIOUS
      <4>2. Goes(p, r)
        BY <1>1, <3>2, <4>1, ReadReg, ZenonT(60)
      <4> QED BY <4>1, <4>2, OwnReg
    <3> QED BY <3>1, <3>2
  <2>5. NamesInv'
    BY <2>1, <2>4 DEF NamesInv, Writing, disk
  <2>6. OnceInv'
    BY <2>1, <2>3, <2>4 DEF OnceInv, disk
  <2>7. AloneInv'
    BY <1>1, <2>1, <2>4 DEF AloneInv, Writing, disk, ReadSettings
  <2>8. NothingLost'
    BY <1>1, <2>1 DEF ReadSettings, NothingLost, Present
  <2>9. Promised
    <3>1. CASE Present(Current, W)
      <4>1. Promise!AlreadyPresent(W)
        BY <1>1, <2>1, <3>1 DEF ReadSettings, Held, Promise!AlreadyPresent, Promise!Present,
              Present, Promise!HasHookCommand, HasHookCommand, Promise!Form, Form
      <4>2. W \in SUBSET Cmd
        BY SettingsAssumption
      <4> QED BY <4>1, <4>2 DEF Promised, Promise!Next
    <3>2. CASE ~ Present(Current, W)
      <4>1. acked' = acked
        BY <1>1, <3>2 DEF ReadSettings
      <4>2. CASE reg' = reg
        BY <2>1, <4>1, <4>2, Stutters
      <4>3. CASE reg' # reg
        BY <2>1, <2>4, <4>1, <4>3, SetsHeld DEF Promised, Promise!Next, Promise!Read
      <4> QED BY <4>2, <4>3
    <3> QED BY <3>1, <3>2
  <2> QED BY <2>5, <2>6, <2>7, <2>8, <2>9
<1>2. ASSUME NEW p \in Proc, ResolveTarget(p) PROVE Goal
  <2>1. /\ UNCHANGED disk /\ UNCHANGED ghost
        /\ Current' = Current /\ Opened' = Opened /\ Where' = Where
    BY <1>2, SameFile, SameCurrent DEF ResolveTarget, disk
  <2>2. /\ \A q \in Proc : q # p => reg'[q] = reg[q]
        /\ reg'[p].pc = "stat" /\ reg'[p].to = Where /\ reg'[p].base = reg[p].base
    <3>1. reg[p] \in Reg
      BY DEF TypeOK
    <3>2. PICK r : r = [pc |-> "stat", want |-> reg[p].want, base |-> reg[p].base,
                        to |-> Target, mode |-> reg[p].mode,
                        fd |-> reg[p].fd]
      OBVIOUS
    <3>3. Goes(p, [pc |-> "stat", want |-> reg[p].want, base |-> reg[p].base, to |-> Target,
                   mode |-> reg[p].mode,
                   fd |-> reg[p].fd])
      BY <1>2, <3>1, ResolveReg, ZenonT(60)
    <3>4. r.pc = "stat" /\ r.to = Where /\ r.base = reg[p].base
      BY <3>2, Places
    <3>5. Goes(p, r)
      BY <3>2, <3>3, ZenonT(60)
    <3> QED BY <3>4, <3>5, OwnReg
  <2>3. NamesInv'
    BY <2>1, <2>2 DEF NamesInv, Writing, disk
  <2>4. OnceInv'
    BY <2>1, <2>2 DEF OnceInv, disk
  <2>5. AloneInv'
    BY <2>1, <2>2 DEF AloneInv, Writing, disk, ghost
  <2>6. Promised
    BY <2>1, <2>2, Stutters DEF ghost
  <2> QED BY <2>1, <2>3, <2>4, <2>5, <2>6, SameDocument
<1>3. ASSUME NEW p \in Proc, StatTarget(p) PROVE Goal
  <2>1. /\ UNCHANGED disk /\ UNCHANGED ghost
        /\ Current' = Current /\ Opened' = Opened /\ Where' = Where
    BY <1>3, SameFile, SameCurrent DEF StatTarget, disk
  <2>2. /\ \A q \in Proc : q # p => reg'[q] = reg[q]
        /\ reg'[p].pc = "open" /\ reg'[p].to = Where /\ reg'[p].base = reg[p].base
    <3>1. reg[p] \in Reg
      BY DEF TypeOK
    <3>2. PICK r : r = [pc |-> "open", want |-> reg[p].want, base |-> reg[p].base,
                        to |-> reg[p].to,
                        mode |-> IF Found(p) = None THEN 644 ELSE inode[Found(p)].mode,
                        fd |-> reg[p].fd]
      OBVIOUS
    <3>3. Goes(p, [pc |-> "open", want |-> reg[p].want, base |-> reg[p].base, to |-> reg[p].to,
                   mode |-> IF Found(p) = None THEN 644 ELSE inode[Found(p)].mode,
                   fd |-> reg[p].fd])
      BY <1>3, <3>1, StatReg, ZenonT(60)
    <3>4. r.pc = "open" /\ r.to = Where /\ r.base = reg[p].base
      BY <1>3, <3>2 DEF StatTarget, NamesInv
    <3>5. Goes(p, r)
      BY <3>2, <3>3, ZenonT(60)
    <3> QED BY <3>4, <3>5, OwnReg
  <2>3. NamesInv'
    BY <2>1, <2>2 DEF NamesInv, Writing, disk
  <2>4. OnceInv'
    BY <2>1, <2>2 DEF OnceInv, disk
  <2>5. AloneInv'
    BY <2>1, <2>2 DEF AloneInv, Writing, disk, ghost
  <2>6. Promised
    BY <2>1, <2>2, Stutters DEF ghost
  <2> QED BY <2>1, <2>3, <2>4, <2>5, <2>6, SameDocument
<1>4. ASSUME NEW p \in Proc, OpenTmp(p) PROVE Goal
  <2>1. reg[p] \in Reg /\ reg[p].to = Where /\ Where \in Name
    BY <1>4, Places DEF OpenTmp, TypeOK, NamesInv
  <2>2. PICK i \in IF tmp[Where] = None THEN Inode \ Live ELSE {tmp[Where]} :
          /\ tmp' = [tmp EXCEPT ![Where] = i]
          /\ \E m : inode' = [inode EXCEPT ![i] = [data |-> Empty, mode |-> m]]
          /\ Goes(p, [reg[p] EXCEPT !.pc = "write", !.fd = i])
    BY <1>4, <2>1 DEF OpenTmp
  <2>3. i \in Inode /\ i # Opened
    BY <2>1, <2>2, Places DEF TypeOK, NamesInv
  <2>4. /\ tmp'[Where] = i /\ \A n \in Name : n # Where => tmp'[n] = tmp[n]
        /\ inode'[i].data = Empty /\ \A j \in Inode : j # i => inode'[j] = inode[j]
    BY <2>1, <2>2, <2>3 DEF TypeOK
  <2>5. /\ \A q \in Proc : q # p => reg'[q] = reg[q]
        /\ reg'[p].pc = "write" /\ reg'[p].fd = i
        /\ reg'[p].to = Where /\ reg'[p].base = reg[p].base
    <3>1. PICK r : r = [pc |-> "write", want |-> reg[p].want, base |-> reg[p].base,
                        to |-> reg[p].to, mode |-> reg[p].mode, fd |-> i]
      OBVIOUS
    <3>2. Goes(p, r)
      BY <2>1, <2>2, <3>1, WriteReg, ZenonT(60)
    <3> QED BY <2>1, <3>1, <3>2, OwnReg
  <2>6. Opened' = Opened /\ Where' = Where /\ Current' = Current
    <3>1. file' = file
      BY <1>4 DEF OpenTmp
    <3>2. Opened # None => inode'[Opened].data = inode[Opened].data
      BY <2>3, <2>4, CurrentType
    <3> QED BY <3>1, <3>2, SameFile, SameCurrent
  <2>7. NamesInv'
    BY <1>4, <2>3, <2>4, <2>5, <2>6 DEF NamesInv, Writing, OpenTmp
  <2>8. OnceInv'
    BY <2>4, <2>5, SettingsAssumption DEF OnceInv
  <2>9. AloneInv'
    <3>1. SUFFICES ASSUME ~ clash' PROVE AloneInv!2'
      BY DEF AloneInv
    <3>2. ~ clash /\ \A q \in Proc : q # p => ~ Writing(q)
      BY <1>4, <2>1, <3>1 DEF OpenTmp, NamesInv
    <3> QED BY <2>4, <2>5, <2>6, <3>2 DEF AloneInv, Writing
  <2>10. NothingLost'
    BY <1>4, <2>6 DEF OpenTmp, NothingLost, Present
  <2>11. Promised
    BY <1>4, <2>5, <2>6, Stutters DEF OpenTmp
  <2> QED BY <2>7, <2>8, <2>9, <2>10, <2>11
<1>5. ASSUME NEW p \in Proc, WriteTmp(p) PROVE Goal
  <2> DEFINE i == reg[p].fd
             e == Register(reg[p].base, reg[p].want)
  <2>1. reg[p] \in Reg /\ i \in Inode /\ Writing(p)
    BY <1>5 DEF WriteTmp, TypeOK, Writing
  <2>2. e \in Doc /\ Once(e)
    BY <2>1, RegisterDoc DEF Reg, OnceInv
  <2>3. PICK d \in {e, Torn} : /\ inode[i].data = Empty => d = e
                               /\ inode' = [inode EXCEPT ![i].data = d]
    BY <1>5 DEF WriteTmp, WrittenOver
  <2>4. inode'[i].data = d /\ \A j \in Inode : j # i => inode'[j] = inode[j]
    BY <2>1, <2>3 DEF TypeOK
  <2>5. /\ \A q \in Proc : q # p => reg'[q] = reg[q]
        /\ reg'[p].pc = "rename" /\ reg'[p].fd = i /\ reg'[p].to = reg[p].to
        /\ reg'[p].base = reg[p].base /\ reg'[p].want = reg[p].want
    <3>1. PICK r : r = [pc |-> "rename", want |-> reg[p].want, base |-> reg[p].base,
                        to |-> reg[p].to, mode |-> reg[p].mode, fd |-> reg[p].fd]
      OBVIOUS
    <3>2. Goes(p, r)
      BY <1>5, <2>1, <3>1, RenameReg, ZenonT(60)
    <3> QED BY <3>1, <3>2, OwnReg
  <2>6. UNCHANGED <<file, tmp, ghost>> /\ Opened' = Opened /\ Where' = Where
    BY <1>5, SameFile DEF WriteTmp
  <2>7. ~ clash => Current' = Current
    BY <2>1, <2>4, <2>6, OwnFile, SameCurrent, CurrentType
  <2> HIDE DEF i, e
  <2>8. NamesInv'
    BY <2>1, <2>5, <2>6 DEF NamesInv, Writing
  <2>9. OnceInv'
    BY <2>2, <2>3, <2>4, <2>5, SettingsAssumption DEF OnceInv
  <2>10. AloneInv'
    <3>1. SUFFICES ASSUME ~ clash PROVE AloneInv!2'
      BY <2>6 DEF AloneInv, ghost
    <3>2. inode[i].data = Empty /\ \A q \in Proc : q # p => ~ Writing(q)
      BY <1>5, <2>1, <3>1 DEF AloneInv, WriteTmp, i
    <3>3. tmp[Where] = i /\ Current \in Doc
      BY <2>1, <3>1 DEF AloneInv, i
    <3> QED BY <2>3, <2>4, <2>5, <2>6, <2>7, <3>1, <3>2, <3>3 DEF Writing, e
  <2>11. NothingLost'
    BY <2>6, <2>7, SameDocument DEF NothingLost, ghost
  <2>12. Promised
    <3>1. CASE clash
      BY <2>6, <3>1 DEF Promised, ghost
    <3>2. CASE ~ clash
      BY <2>5, <2>6, <2>7, <3>2, Stutters DEF ghost
    <3> QED BY <3>1, <3>2
  <2> QED BY <2>8, <2>9, <2>10, <2>11, <2>12
<1>6. ASSUME NEW p \in Proc, WriteFails(p) PROVE Goal
  <2> DEFINE i == reg[p].fd
  <2>1. i \in Inode /\ Writing(p)
    BY <1>6 DEF WriteFails, TypeOK, Writing
  <2>2. inode'[i].data = Torn /\ \A j \in Inode : j # i => inode'[j] = inode[j]
    BY <1>6, <2>1 DEF TypeOK, WriteFails
  <2>3. reg'[p].pc = "idle" /\ reg'[p].base = Blank /\ \A q \in Proc : q # p => reg'[q] = reg[q]
    BY <1>6, OwnReg DEF WriteFails, Return, Idle
  <2>4. UNCHANGED <<file, tmp, ghost>> /\ Opened' = Opened /\ Where' = Where
    BY <1>6, SameFile DEF WriteFails
  <2>5. ~ clash => Current' = Current
    BY <2>1, <2>2, <2>4, OwnFile, SameCurrent, CurrentType
  <2> HIDE DEF i
  <2>6. NamesInv'
    BY <2>3, <2>4 DEF NamesInv, Writing
  <2>7. OnceInv'
    BY <2>2, <2>3, BlankDoc, SettingsAssumption DEF OnceInv
  <2>8. AloneInv'
    BY <2>1, <2>3, <2>4, <2>5 DEF AloneInv, Writing, ghost
  <2>9. NothingLost'
    BY <2>4, <2>5, SameDocument DEF NothingLost, ghost
  <2>10. Promised
    <3>1. CASE clash
      BY <2>4, <3>1 DEF Promised, ghost
    <3>2. CASE ~ clash
      BY <2>3, <2>4, <2>5, <3>2, GivesUp DEF ghost
    <3> QED BY <3>1, <3>2
  <2> QED BY <2>6, <2>7, <2>8, <2>9, <2>10
<1>7. ASSUME NEW p \in Proc, Rename(p) PROVE Goal
  <2>1. reg[p] \in Reg /\ Writing(p) /\ reg[p].to = Where /\ Where \in Name
    BY <1>7, Places DEF Rename, TypeOK, Writing, NamesInv
  <2>2. reg'[p].pc = "idle" /\ reg'[p].base = Blank /\ \A q \in Proc : q # p => reg'[q] = reg[q]
    BY <1>7, OwnReg DEF Rename, Return, Idle
  <2>3. UNCHANGED <<inode, gear, clash>>
    BY <1>7 DEF Rename
  <2>4. CASE tmp[Where] = None
    <3>1. UNCHANGED <<file, tmp, ghost>>
      BY <1>7, <2>1, <2>4 DEF Rename, ghost
    <3>2. clash /\ Opened' = Opened /\ Where' = Where /\ Current' = Current
      BY <2>1, <2>3, <2>4, <3>1, OwnFile, SettingsAssumption, SameFile, SameCurrent
    <3>3. NamesInv'
      BY <2>2, <3>1, <3>2 DEF NamesInv, Writing
    <3>4. OnceInv'
      BY <2>2, <2>3, BlankDoc DEF OnceInv
    <3>5. Promised
      BY <2>3, <3>2 DEF Promised
    <3> QED BY <2>3, <3>1, <3>2, <3>3, <3>4, <3>5, SameDocument DEF AloneInv
  <2>5. CASE tmp[Where] # None
    <3> DEFINE f == tmp[Where]
    <3>1. /\ file' = [file EXCEPT ![Where] = f] /\ tmp' = [tmp EXCEPT ![Where] = None]
          /\ acked' = acked \cup reg[p].want /\ raced' = (raced \/ reg[p].base # Current)
      BY <1>7, <2>1, <2>5 DEF Rename
    <3>2. f \in Inode
      BY <2>1, <2>5 DEF TypeOK
    <3>3. /\ file'[Where] = f /\ \A n \in Name : n # Where => file'[n] = file[n]
          /\ \A n \in Name : tmp'[n] = None
      BY <2>1, <3>1 DEF TypeOK, NamesInv
    <3>4. Opened' = f /\ Where' = Where
      BY <3>2, <3>3, SettingsAssumption DEF Opened, Where, NamesInv, Name
    <3>5. Current' = inode[f].data
      BY <2>3, <3>2, <3>4, SettingsAssumption DEF Current
    <3> HIDE DEF f
    <3>6. NamesInv'
      BY <2>2, <3>2, <3>3, <3>4, SettingsAssumption DEF NamesInv, Writing, Where, Name
    <3>7. OnceInv'
      BY <2>2, <2>3, BlankDoc DEF OnceInv
    <3>8. ~ clash => /\ Current' = Register(reg[p].base, reg[p].want)
                     /\ \A q \in Proc : q # p => ~ Writing(q)
      BY <1>7, <2>1, <3>5 DEF AloneInv, Rename, f
    <3>9. /\ Register(reg[p].base, reg[p].want) \in Doc
          /\ Register(reg[p].base, reg[p].want).gear = reg[p].base.gear
          /\ Present(Register(reg[p].base, reg[p].want), reg[p].want)
          /\ Present(reg[p].base, acked)
                => Present(Register(reg[p].base, reg[p].want), acked)
      BY <2>1, RegisterDoc DEF Reg, TypeOK
    <3>10. AloneInv'
      BY <2>2, <2>3, <3>8, <3>9 DEF AloneInv, Writing
    <3>11. NothingLost'
      <4>1. SUFFICES ASSUME ~ clash, ~ raced, reg[p].base = Current
                     PROVE  Present(Current', acked') /\ Current'.gear = gear
        BY <2>3, <3>1 DEF NothingLost
      <4> QED BY <3>1, <3>8, <3>9, <4>1 DEF NothingLost, Present
    <3>12. Promised
      <4>1. CASE clash
        BY <2>3, <4>1 DEF Promised
      <4>2. CASE ~ clash
        <5>1. Promise!Install(p, reg[p].want)
          BY <2>2, <3>1, <3>8, <4>2, SetsHeld
             DEF Held, Promise!Install, Promise!Register, Register, Promise!HasHookCommand,
                 HasHookCommand, Promise!Form, Form, Promise!Entry, Entry, Promise!Blank, Blank
        <5>2. reg[p].want \in SUBSET Cmd
          BY <2>1 DEF Reg
        <5> QED BY <5>1, <5>2 DEF Promised, Promise!Next
      <4> QED BY <4>1, <4>2
    <3> QED BY <3>6, <3>7, <3>10, <3>11, <3>12
  <2> QED BY <2>4, <2>5
<1>8. ASSUME NEW p \in Proc, RenameFails(p) PROVE Goal
  <2>1. Writing(p)
    BY <1>8 DEF RenameFails, Writing
  <2>2. /\ UNCHANGED <<file, inode, ghost>>
        /\ Current' = Current /\ Opened' = Opened /\ Where' = Where
    BY <1>8, SameFile, SameCurrent DEF RenameFails
  <2>3. \A n \in Name : tmp'[n] \in {tmp[n], None}
    BY <1>8 DEF RenameFails, TypeOK
  <2>4. reg'[p].pc = "idle" /\ reg'[p].base = Blank /\ \A q \in Proc : q # p => reg'[q] = reg[q]
    BY <1>8, OwnReg DEF RenameFails, Return, Idle
  <2>5. NamesInv'
    BY <2>2, <2>3, <2>4 DEF NamesInv, Writing
  <2>6. OnceInv'
    BY <2>2, <2>4, BlankDoc DEF OnceInv
  <2>7. AloneInv'
    BY <2>1, <2>2, <2>4 DEF AloneInv, Writing, ghost
  <2>8. Promised
    BY <2>2, <2>4, GivesUp DEF ghost
  <2> QED BY <2>2, <2>5, <2>6, <2>7, <2>8, SameDocument
<1>9. ASSUME NEW p \in Proc, Crash(p) PROVE Goal
  <2>1. /\ UNCHANGED disk /\ UNCHANGED ghost
        /\ Current' = Current /\ Opened' = Opened /\ Where' = Where
    BY <1>9, SameFile, SameCurrent DEF Crash, disk
  <2>2. reg'[p].pc = "idle" /\ reg'[p].base = Blank /\ \A q \in Proc : q # p => reg'[q] = reg[q]
    BY <1>9, OwnReg DEF Crash, Return, Idle
  <2>3. NamesInv'
    BY <2>1, <2>2 DEF NamesInv, Writing, disk
  <2>4. OnceInv'
    BY <2>1, <2>2, BlankDoc DEF OnceInv, disk
  <2>5. AloneInv'
    BY <2>1, <2>2 DEF AloneInv, Writing, disk, ghost
  <2>6. Promised
    BY <2>1, <2>2, GivesUp DEF ghost
  <2> QED BY <2>1, <2>3, <2>4, <2>5, <2>6, SameDocument
<1>10. ASSUME NEW g \in Gear, ClaudeEdits(g) PROVE Goal
  <2>1. Opened \in Inode /\ Current \in Doc /\ Current = inode[Opened].data
    BY <1>10, CurrentType DEF ClaudeEdits, Data
  <2>2. PICK e : e = [Current EXCEPT !.gear = g]
    OBVIOUS
  <2>3. /\ e \in Doc /\ e.gear = g /\ Once(e)
        /\ Present(Current, acked) => Present(e, acked)
    BY <2>1, <2>2, EditDoc DEF OnceInv
  <2>4. inode'[Opened].data = e /\ \A j \in Inode : j # Opened => inode'[j] = inode[j]
    BY <1>10, <2>1, <2>2 DEF ClaudeEdits, TypeOK
  <2>5. /\ UNCHANGED <<file, tmp, reg, acked, clash, raced>> /\ gear' = g
        /\ Opened' = Opened /\ Where' = Where
    BY <1>10, SameFile DEF ClaudeEdits
  <2>6. Current' = e
    BY <2>1, <2>4, <2>5, SettingsAssumption DEF Current
  <2>7. NamesInv'
    BY <2>5 DEF NamesInv, Writing
  <2>8. OnceInv'
    BY <2>3, <2>4, <2>5 DEF OnceInv
  <2>9. AloneInv'
    <3>1. \A q \in Proc : ~ clash /\ Writing(q) => reg[q].fd \in Inode /\ reg[q].fd # Opened
      BY OwnFile
    <3> QED BY <2>3, <2>4, <2>5, <2>6, <3>1 DEF AloneInv, Writing
  <2>10. NothingLost'
    BY <2>3, <2>5, <2>6 DEF NothingLost, Present
  <2>11. Promised
    BY <2>2, <2>5, <2>6 DEF Held, Promised, Promise!Next, Promise!Edit
  <2> QED BY <2>7, <2>8, <2>9, <2>10, <2>11
<1>11. CASE Harden
  <2>1. \A j \in Inode : inode'[j].data = inode[j].data
    BY <1>11 DEF Harden, TypeOK
  <2>2. /\ UNCHANGED <<file, tmp, reg, ghost>>
        /\ Opened' = Opened /\ Where' = Where /\ Current' = Current
    BY <1>11, <2>1, SameFile, SameCurrent, CurrentType DEF Harden
  <2>3. NamesInv'
    BY <2>2 DEF NamesInv, Writing
  <2>4. OnceInv'
    BY <2>1, <2>2 DEF OnceInv
  <2>5. AloneInv'
    <3>1. \A q \in Proc : Writing(q) => reg[q].fd \in Inode
      BY DEF TypeOK
    <3> QED BY <2>1, <2>2, <3>1 DEF AloneInv, Writing, ghost
  <2>6. Promised
    BY <2>2, Stutters DEF ghost
  <2> QED BY <2>2, <2>3, <2>4, <2>5, <2>6, SameDocument
<1>12. CASE UNCHANGED vars
  <2>1. /\ UNCHANGED <<disk, ghost, reg>>
        /\ Current' = Current /\ Opened' = Opened /\ Where' = Where
    BY <1>12, SameFile, SameCurrent DEF vars, disk
  <2>2. NamesInv'
    BY <2>1 DEF NamesInv, Writing, disk
  <2>3. OnceInv'
    BY <2>1 DEF OnceInv, disk
  <2>4. AloneInv'
    BY <2>1 DEF AloneInv, Writing, disk, ghost
  <2>5. Promised
    BY <2>1, Stutters DEF ghost
  <2> QED BY <2>1, <2>2, <2>3, <2>4, <2>5, SameDocument
<1> QED BY <1>1, <1>2, <1>3, <1>4, <1>5, <1>6, <1>7, <1>8, <1>9, <1>10, <1>11, <1>12 DEF Next

(* The invariant holds throughout.                                          *)
THEOREM Invariant == Spec => []IInv
BY InitInv, NextInv, PTL DEF Spec

(* However registrations overlap, fail and are killed, no command is ever   *)
(* registered twice.                                                        *)
THEOREM RegisteredOnce == Spec => []NoDuplicate
<1>1. IInv => NoDuplicate
  BY CurrentType, BlankDoc DEF IInv, NoDuplicate, OnceInv, Current
<1> QED BY <1>1, Invariant, PTL

(* A reader finds a complete document unless two registrations were at the  *)
(* temporary file at once.                                                  *)
THEOREM FileComplete == Spec => []CompleteFile
<1>1. IInv => CompleteFile
  BY DEF IInv, AloneInv, CompleteFile
<1> QED BY <1>1, Invariant, PTL

(* Registrations that did not overlap with another change lose nothing.     *)
THEOREM NoLoss == Spec => []NothingLost
<1>1. IInv => NothingLost
  BY DEF IInv
<1> QED BY <1>1, Invariant, PTL

(* A link that leads to a file stays a link.                                *)
THEOREM LinkSurvives == Spec => LinkKept
<1>1. ASSUME IInv, [Next]_vars, file["path"] = Link, file["copy"] # None
      PROVE  file'["path"] = Link
  <2>1. ASSUME NEW p \in Proc, Rename(p)
        PROVE  file'["path"] = Link
    <3>1. reg[p].to = "copy"
      BY <1>1, <2>1 DEF IInv, NamesInv, Rename, Writing, Where
    <3>2. file' = file \/ file' = [file EXCEPT !["copy"] = tmp["copy"]]
      BY <2>1, <3>1 DEF Rename
    <3> QED BY <1>1, <3>2 DEF IInv, TypeOK, Name
  <2>2. (\A p \in Proc : ~ Rename(p)) => file' = file
    BY <1>1 DEF Next, vars, disk, ReadSettings, ResolveTarget, StatTarget, OpenTmp, WriteTmp,
                WriteFails, RenameFails, Crash, ClaudeEdits, Harden
  <2> QED BY <1>1, <2>1, <2>2
<1> QED BY <1>1, Invariant, PTL DEF Spec, LinkKept

(* The promise: unless two registrations meet at the temporary file, every  *)
(* step installs a document that was read with its commands added, changes  *)
(* Claude Code's keys, or is invisible.                                     *)
THEOREM PromiseKept == Spec => KeepsPromise
<1>1. ASSUME Init PROVE Promise!Init
  <2>1. Current \in Doc
    BY <1>1, InitInv DEF IInv, AloneInv, Init
  <2>2. Held = [p \in Proc |-> Blank]
    BY <1>1 DEF Held, Init, Idle
  <2>3. acked = {}
    BY <1>1 DEF Init
  <2> QED BY <2>1, <2>2, <2>3 DEF Promise!Init, Promise!Doc, Doc, Promise!Entry, Entry,
                 Promise!Form, Form, Promise!Blank, Blank
<1>2. IInv /\ [Next]_vars => [clash' \/ Promise!Next]_<<Current, Held, acked>>
  BY NextInv DEF Promised
<1> QED BY <1>1, <1>2, Invariant, PTL DEF Spec, KeepsPromise
===============================================================================
