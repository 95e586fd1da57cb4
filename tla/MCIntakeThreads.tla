-------------------------- MODULE MCIntakeThreads --------------------------
(* IntakeThreads for TLC: a reviewer and an admin; c2 carries on the mail    *)
(* thread of c1.                                                             *)
EXTENDS IntakeThreads, TLC

CONSTANTS user, admin, c1, c2

MCRole      == [p \in Personas |-> IF p = admin THEN "admin" ELSE "user"]
MCContinues == {<<c2, c1>>}

\* Two intakes: one the reviewer has just opened, and one the admin has seen
\* through to acceptance, its evidence live and waiting to be matched.
CONSTANTS open, accepted, n1

Seeded ==
    [intake   |-> (open :> [BlankIntake EXCEPT !.status = "draft", !.owner = user])
                  @@ (accepted :> [BlankIntake EXCEPT !.status = "admin-accepted", !.owner = admin]),
     evidence |-> {[intake |-> accepted, name |-> n1, content |-> c1, live |-> TRUE]},
     block    |-> [b \in BlockIds |-> BlankBlock],
     audit    |-> (open :> Stated(user, "draft")) @@ (accepted :> Stated(admin, "admin-accepted"))]

SeededInit ==
    /\ db = Seeded
    /\ disk = Seeded
    /\ files = [k \in Intakes \X Names |-> IF k[1] = accepted THEN c1 ELSE NoBytes]
    /\ req = [w \in Workers |-> Idle]

SeededSpec == SeededInit /\ [][Next]_vars

\* Ids and workers are only compared, so a permutation of them changes nothing.
IdSymmetry     == Permutations(Intakes)
WorkerSymmetry == Permutations(BlockIds) \union Permutations(Pool)
=============================================================================
