--------------------------- MODULE MCRunLifecycle ---------------------------
(***************************************************************************)
(* Instances of RunLifecycle for TLC.                                       *)
(***************************************************************************)
EXTENDS RunLifecycle, TLC

CONSTANTS d1, d2

\* A purge beside a deletion by the user.
PurgeAndDelete == [d \in Deleters |-> IF d = d1 THEN "purge" ELSE "delete"]

\* The uploads are alike.
UploadSymmetry == Permutations(Uploads)
=============================================================================
