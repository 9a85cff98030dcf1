--------------------------- MODULE MCPayslipVault ---------------------------
(***************************************************************************)
(* Small instances of PayslipVault for TLC.  Uploads play identical roles  *)
(* and no safety property tells them apart; the liveness run and the       *)
(* ordered constants do without the symmetry.                              *)
(***************************************************************************)
EXTENDS PayslipVault, TLC

UploadSymmetry == Permutations(Uploads)
=============================================================================
