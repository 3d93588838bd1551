--------------------------- MODULE MCSessionTail ---------------------------
(* Small instances of SessionTail for TLC: an entry, a short line that is  *)
(* no entry, and an entry over the size limit.                             *)
EXTENDS SessionTail

EntryJSON == {<<"{", "}">>, <<"{", "o", "}">>}
Texts == {<<"{", "}">>, <<"x">>, <<"{", "o", "}">>}
============================================================================
