---------------------------- MODULE MCBulkUpload ----------------------------
(* BulkUpload on files that a matricule, a name or the file name identify. *)
EXTENDS BulkUpload, TLC

CONSTANTS f1, f2, f3, e1, p1, p2

Says(readable, matricule, names, period, fileMatricule, filePeriod) ==
    [readable |-> readable, matricule |-> matricule, names |-> names, period |-> period,
     fileMatricule |-> fileMatricule, filePeriod |-> filePeriod]

(* f1 is damaged; f2 is recognised by its matricule; f3 by the name it     *)
(* has, its period by the name of the file.                                *)
MCInfo ==
    f1 :> Says(FALSE, None, <<>>, None, None, None)
    @@ f2 :> Says(TRUE, e1, <<>>, p1, None, None)
    @@ f3 :> Says(TRUE, "unknown", <<e1>>, None, "unknown", p2)

MCSymmetry == Permutations(Confirms)

MCDrops == {<<f1, f2>>, <<f3, f2>>}
=============================================================================
