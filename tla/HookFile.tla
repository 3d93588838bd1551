------------------------------- MODULE HookFile -------------------------------
(***************************************************************************)
(* What a settings.json holds, as far as RegisterHooks looks at it: how    *)
(* many entries it has for each hook command, in the legacy shell-string   *)
(* form and in the exec form, and the rest of the file, which must survive *)
(* (`gear`, the keys that /model and /effort write).                       *)
(***************************************************************************)
EXTENDS Integers

CONSTANTS Cmd,    \* hook commands, each with the event it is for
          Gear,   \* values of the other keys
          NoGear  \* a file without them

Form  == {"legacy", "exec"}
Entry == Cmd \X Form

Doc == [hooks : [Entry -> Nat], gear : Gear \cup {NoGear}]

(* readSettings of a missing file.                                          *)
Blank == [hooks |-> [e \in Entry |-> 0], gear |-> NoGear]

(* Variant: an entry of the legacy form is not recognised.                  *)
HasHookCommandExec(hooks, c) == hooks[<<c, "exec">>] > 0

(* hasHookCommand: in either form.                                          *)
HasHookCommand(hooks, c) == \E f \in Form : hooks[<<c, f>>] > 0

(* Variant: the file is decoded into the known fields and encoded anew.     *)
RegisterKnown(d, W) ==
    [d EXCEPT !.gear = NoGear, !.hooks =
        [e \in Entry |-> IF e[1] \in W /\ e[2] = "exec" /\ ~ HasHookCommand(@, e[1])
                         THEN @[e] + 1 ELSE @[e]]]

(* The loop of RegisterHooks: what is missing is appended in exec form.     *)
Register(d, W) ==
    [d EXCEPT !.hooks =
        [e \in Entry |-> IF e[1] \in W /\ e[2] = "exec" /\ ~ HasHookCommand(@, e[1])
                         THEN @[e] + 1 ELSE @[e]]]

Present(d, W) == \A c \in W : HasHookCommand(d.hooks, c)

(* No command is registered twice, in whichever forms.                      *)
Once(d) == \A c \in Cmd : d.hooks[<<c, "legacy">>] + d.hooks[<<c, "exec">>] <= 1
===============================================================================
