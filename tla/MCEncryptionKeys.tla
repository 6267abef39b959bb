-------------------------- MODULE MCEncryptionKeys --------------------------
(* Instances of EncryptionKeys for TLC. *)
EXTENDS EncryptionKeys, TLC

CONSTANTS o, c

DevicesOf == [u \in Accounts |-> IF u = o THEN 2 ELSE 1]
KeysOfVersion == [u \in Accounts |-> IF u = o THEN 2 ELSE 1]

Symmetry == Permutations(Requests)
=============================================================================
