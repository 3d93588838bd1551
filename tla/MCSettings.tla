------------------------------ MODULE MCSettings ------------------------------
(* Settings for TLC: one command is in the file already, in the old form,   *)
(* or no file is there; the path is a file or a link.                       *)
EXTENDS Settings

CONSTANTS c1, c2

WithLegacy == [Blank EXCEPT !.hooks[<<c1, "legacy">>] = 1]

MCWant == {{c1}, {c1, c2}}

MCStart == [link : BOOLEAN, exists : {TRUE}, doc : {WithLegacy}]
           \cup [link : BOOLEAN, exists : {FALSE}, doc : {Blank}]
===============================================================================
