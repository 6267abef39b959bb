------------------------- MODULE MCTrustedContacts -------------------------
(* Instances of TrustedContacts for TLC. *)
EXTENDS TrustedContacts, TLC

CONSTANTS u1, u2, e1, e2

\* The first address belongs to an account, the second does not yet.
Accounts == [e \in Emails |-> IF e = e1 THEN u1 ELSE Null]

Symmetry == Permutations(Requests)
=============================================================================
