-------------------------- MODULE MCCommissionFlow --------------------------
(* Rows for CommissionFlow. *)
EXTENDS CommissionFlow

Indexes  == {"first", "second", "third"}
Cheap    == {"first", "third"}
TwoFaces == {"cargo", "patrol"}
\* The first two rows look the same, and the second costs oil.
Twins    == [r \in Indexes |-> IF r = "third" THEN "patrol" ELSE "cargo"]
=============================================================================
