--------------------------- MODULE MCOffsetStore ---------------------------
(* Small instances of OffsetStore for TLC. *)
EXTENDS OffsetStore, TLC

(* Any nonempty run of "v" parses, so a half-written line may: "v" is a    *)
(* proper prefix of "vv", as 1 is of 12.                                   *)
GenericJSON == {<<"v">>, <<"v", "v">>}

(* A transcript of blank lines, for the runs about offsets alone. *)
NoJSON == {}

CONSTANTS t1, t2

(* Ticks of one transcript and version overlap; a sweep joins them before   *)
(* the transcript has its last cell.                                        *)
Interleaved ==
    /\ data[t2] = <<>> /\ (sweeping \/ stale # {} => Len(data[t1]) < MaxLen)
    /\ \A i \in Proc : store[i].path # t2 /\ store[i].schema = 1
    /\ \A n \in Inode : IsStateFile(content[n]) => content[n].path = t1 /\ content[n].schema = 1

(* One tick after another, of transcripts whose hashes collide and of two  *)
(* versions.                                                               *)
Sequential ==
    /\ Len(data[t1]) <= 2 /\ Len(data[t2]) <= 1
    /\ \E i \in Proc : \A j \in Proc \ {i} : pc[j] = "idle"

MCSpec == Init /\ [][Next /\ (Interleaved' \/ Sequential')]_vars

Symmetry == Permutations(Proc)
============================================================================
