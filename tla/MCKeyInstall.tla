---------------------------- MODULE MCKeyInstall ----------------------------
(* Small instances of KeyInstall for TLC.                                  *)
EXTENDS KeyInstall, TLC

Symmetry == Permutations(Procs) \cup Permutations(Pids) \cup Permutations(Passphrases)
=============================================================================
