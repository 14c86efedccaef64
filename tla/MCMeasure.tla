------------------------------ MODULE MCMeasure ------------------------------
(* A small instance of Measure: the third and the fourth environment have the *)
(* same slug (a/b-c and a-b/c); the first is of a packet that failed, the      *)
(* second of one that lost its Dockerfile.                                     *)
EXTENDS Measure

CONSTANTS shared, own

FourEnvs  == 1..4
TwoSlugs  == {shared, own}
SlugOf    == [e \in FourEnvs |-> IF e <= 2 THEN own ELSE shared]
HarvestOf == [e \in FourEnvs |-> IF e = 1 THEN "error" ELSE "produced"]
=============================================================================
