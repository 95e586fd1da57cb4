---------------------------- MODULE ComponentProofs ----------------------------
(***************************************************************************)
(* The composition of the components that share no state: each of them     *)
(* takes only its own steps in it, so what is proved of a component holds  *)
(* of the composition.                                                     *)
(***************************************************************************)
EXTENDS MCComponents, ConsoleProofs, LoadProofs

LEMMA StartsAreTheirs ==
    Init => /\ AccountsInit /\ SpecInit /\ ExportInit /\ QuestionInit
            /\ StagingInit /\ SnapshotInit /\ AttributionInit /\ FixInit
  BY DEF Init

LEMMA StepsAreTheirs ==
    [Next]_vars => /\ [AccountsNext]_accountVars /\ [SpecNext]_specVars
                   /\ [ExportNext]_exportVars /\ [QuestionNext]_questionVars
                   /\ [StagingNext]_stagingVars /\ [SnapshotNext]_snapshotVars
                   /\ [AttributionNext]_attributionVars /\ [FixNext]_fixVars
  <1> SUFFICES ASSUME [Next]_vars
               PROVE  /\ [AccountsNext]_accountVars /\ [SpecNext]_specVars
                      /\ [ExportNext]_exportVars /\ [QuestionNext]_questionVars
                      /\ [StagingNext]_stagingVars /\ [SnapshotNext]_snapshotVars
                      /\ [AttributionNext]_attributionVars /\ [FixNext]_fixVars
    OBVIOUS
  <1>1. [AccountsNext]_accountVars
    BY DEF Next, vars, AllButSpecs, AllButExports, AllButQuestion, AllButStaging,
           AllButSnapshots, AllButAttribution, AllButFixes
  <1>2. [SpecNext]_specVars
    BY DEF Next, vars, AllButAccounts, AllButExports, AllButQuestion, AllButStaging,
           AllButSnapshots, AllButAttribution, AllButFixes
  <1>3. [ExportNext]_exportVars
    BY DEF Next, vars, AllButAccounts, AllButSpecs, AllButQuestion, AllButStaging,
           AllButSnapshots, AllButAttribution, AllButFixes
  <1>4. [QuestionNext]_questionVars
    BY DEF Next, vars, AllButAccounts, AllButSpecs, AllButExports, AllButStaging,
           AllButSnapshots, AllButAttribution, AllButFixes
  <1>5. [StagingNext]_stagingVars
    BY DEF Next, vars, AllButAccounts, AllButSpecs, AllButExports, AllButQuestion,
           AllButSnapshots, AllButAttribution, AllButFixes
  <1>6. [SnapshotNext]_snapshotVars
    BY DEF Next, vars, AllButAccounts, AllButSpecs, AllButExports, AllButQuestion,
           AllButStaging, AllButAttribution, AllButFixes
  <1>7. [AttributionNext]_attributionVars
    BY DEF Next, vars, AllButAccounts, AllButSpecs, AllButExports, AllButQuestion,
           AllButStaging, AllButSnapshots, AllButFixes
  <1>8. [FixNext]_fixVars
    BY DEF Next, vars, AllButAccounts, AllButSpecs, AllButExports, AllButQuestion,
           AllButStaging, AllButSnapshots, AllButAttribution
  <1> QED
    BY <1>1, <1>2, <1>3, <1>4, <1>5, <1>6, <1>7, <1>8

(***************************************************************************)
(* Seen through a component's own variables, a behaviour of the            *)
(* composition is one of that component (of the question's pipeline        *)
(* without its fairness, which ENABLED puts out of reach).                 *)
(***************************************************************************)
THEOREM ComponentsBehave ==
    Spec => /\ AccountsSpec /\ SpecSpec /\ ExportStreamSpec
            /\ QuestionInit /\ [][QuestionNext]_questionVars
            /\ StagingSpec /\ SnapshotSpec /\ AttributionSpec /\ FixSpec
  BY StartsAreTheirs, StepsAreTheirs, PTL
     DEF Spec, AccountsSpec, SpecSpec, ExportStreamSpec, StagingSpec, SnapshotSpec,
         AttributionSpec, FixSpec

(***************************************************************************)
(* Every component keeps its types in the composition, whichever of them   *)
(* runs.                                                                   *)
(***************************************************************************)
THEOREM ComponentsTypeCorrect ==
    Spec => []ComponentsTypeOK
  BY ComponentsBehave, AccountsTypeCorrect, RegistryTypeCorrect, ExportTypeCorrect, QuestionTyped,
     StagingTypeCorrect, SnapshotTypeCorrect, AttributionTypeCorrect, FixTypeCorrect, PTL
     DEF ComponentsTypeOK
===============================================================================
