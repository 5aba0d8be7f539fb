----------------------------- MODULE MCResolve -----------------------------
(* Model-checking instances of Resolve.                                    *)
EXTENDS Resolve, SequencesExt

(* Two addresses of each family.                                           *)
TwoOfEach == {"v4", "v6"} \X {1, 2}

(* Every result list of at most three addresses, errors included.          *)
UpToThree == BoundedSeq(TwoOfEach, 3)
=============================================================================
