-------------------------- MODULE MCFieldEnvelope --------------------------
(* Small instances of FieldEnvelope for TLC: ids that run into each other  *)
(* where nothing says how long they are, and bytes that look like lengths. *)
EXTENDS FieldEnvelope, TLC

SmallRecords == {<<1>>, <<1, 1>>}

SmallFields == {<<1, 2>>, <<2>>}

SmallTombstoneField == <<2>>

Symmetry == Permutations(Keys)
=============================================================================
