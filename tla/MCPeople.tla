------------------------------ MODULE MCPeople ------------------------------
(* Instances of People for TLC. *)
EXTENDS People, TLC

CONSTANTS o, x, y, p1, p2, p3

MCIdentities == {o, x, y}
MCOwners == {o}
MCPersons == {p1, p2, p3}

\* Row IDs, names and codes are only compared.  x and y are the identities the
\* configuration does not name.
Symmetry == Permutations(MCPersons) \cup Permutations(Names) \cup Permutations(Codes)
            \cup Permutations({x, y})
=============================================================================
