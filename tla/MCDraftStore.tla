---------------------------- MODULE MCDraftStore ----------------------------
(* DraftStore for TLC: one override and one defined mapping.               *)
EXTENDS DraftStore, TLC

CONSTANTS holder, code

MCDomainOf == [k \in Keys |-> IF k = code THEN AppCode ELSE Override]

\* Ids are only compared.
IdSymmetry == Permutations(DraftIds) \union Permutations(Requests)
=============================================================================
