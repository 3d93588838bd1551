------------------------------- MODULE Names -------------------------------
(***************************************************************************)
(* Which name a session is shown under, and which sessions a name given as *)
(* an argument finds (claude/names.go, discover.FindTitleMatches).  Names  *)
(* and titles are compared after lowering their case; what is a substring  *)
(* of what is the constant Contains.  The order of results is left out.    *)
(***************************************************************************)
EXTENDS Integers

CONSTANTS Title, NoTitle,  \* names and titles; the empty one
          Stamp,           \* the name of the project directory
          Contains         \* the pairs <<a, b>> where b is a proper part of a

----------------------------------------------------------------------------
(* The registry's names: `entries` is a set of registry files. *)

NewerEntry(a, b) ==
    \/ a.updatedAt > b.updatedAt
    \/ a.updatedAt = b.updatedAt /\ a.startedAt > b.startedAt
    \/ a.updatedAt = b.updatedAt /\ a.startedAt = b.startedAt /\ a.pid > b.pid
(* Variant: a nameless entry may win.                                      *)
WinnersNameless(entries) ==
    {e \in entries : \A f \in entries \ {e} : f.session = e.session => NewerEntry(e, f)}

WinnersBySession(entries) ==
    LET named == {e \in entries : e.name # NoTitle}
    IN  {e \in named : \A f \in named \ {e} : f.session = e.session => NewerEntry(e, f)}

RegistryName(entries, s) ==
    LET own == {e \in WinnersBySession(entries) : e.session = s}
    IN  IF own = {} THEN NoTitle ELSE (CHOOSE e \in own : TRUE).name

(* A launcher writes the directory's name as a custom title on every flush. *)
IsStampedTitle(title) == title = Stamp

DisplayName(entries, s, title) ==
    LET name == RegistryName(entries, s)
    IN  IF name # NoTitle /\ (title = NoTitle \/ IsStampedTitle(title)) THEN name ELSE title

----------------------------------------------------------------------------
(* Finding sessions by name; a reference pairs a session with the title it *)
(* was found under. *)

Exact(refs, q) == {r \in refs : r.title = q}

Matches(refs, q) ==
    IF Exact(refs, q) # {} THEN Exact(refs, q)
                           ELSE {r \in refs : <<r.title, q>> \in Contains}

FindTitleMatches(titled, q) == Matches(titled, q)

(* Sessions without a transcript, which are not in `present`, are skipped. *)
FindNameMatches(entries, present, q) ==
    Matches({[session |-> e.session, title |-> e.name] :
                e \in {w \in WinnersBySession(entries) : w.session \in present}}, q)

MergeTitleRefs(base, extra) ==
    base \cup {r \in extra : \A b \in base : b.session # r.session}

PreferExact(refs, q) == IF Exact(refs, q) # {} THEN Exact(refs, q) ELSE refs
(* Variant: the merged references are not narrowed.                        *)
LookupUnnarrowed(titled, entries, present, q) ==
    MergeTitleRefs(FindTitleMatches(titled, q), FindNameMatches(entries, present, q))

Lookup(titled, entries, present, q) ==
    PreferExact(MergeTitleRefs(FindTitleMatches(titled, q),
                               FindNameMatches(entries, present, q)), q)
============================================================================
