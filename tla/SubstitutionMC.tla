--------------------------- MODULE SubstitutionMC ---------------------------
(* Limits for Substitution: one unit of output, none of errors.              *)
EXTENDS Substitution

MCLimit == [stdout |-> 1, stderr |-> 0]

=============================================================================
