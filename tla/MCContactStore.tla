--------------------------- MODULE MCContactStore ---------------------------
(* Small instances of ContactStore for TLC.                                *)
EXTENDS ContactStore, TLC

\* Ids short enough for every event id the bounds allow.
ShortIdBytes == [id \in Ids |-> 1]

\* An id RecordId::parse accepts, whose tenth event id is one byte too long.
LongIdBytes == [id \in Ids |-> MaxIdBytes - 2]

ProcKeySymmetry == Permutations(Procs) \cup Permutations(Keys)

PayloadAndProcSymmetry == Permutations(Procs) \cup Permutations(Payloads)
=============================================================================
