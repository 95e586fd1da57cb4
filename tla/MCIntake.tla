------------------------------ MODULE MCIntake ------------------------------
(* Intake for TLC: a reviewer who may only reach its own intakes and an      *)
(* admin who reaches every one; c2 carries on the mail thread of c1.         *)
EXTENDS Intake, TLC

CONSTANTS user, admin, c1, c2

MCRole      == (user :> "user") @@ (admin :> "admin")
MCContinues == {<<c2, c1>>}

\* Ids are only compared, so a permutation of them changes nothing.
IdSymmetry == Permutations(Intakes) \union Permutations(BlockIds)
=============================================================================
