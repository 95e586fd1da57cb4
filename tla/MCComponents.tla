---------------------------- MODULE MCComponents ----------------------------
(***************************************************************************)
(* The components that share no state with one another, each on a small    *)
(* instance.  A behaviour is one of one component, which the initial state *)
(* picks; the others stay where they start.                                *)
(***************************************************************************)
EXTENDS Accounts, SpecRegistry, ExportStream, Question, Staging, Snapshots,
        FolderAttribution, FixTracking

CONSTANTS f1, f2, c1, c2

VARIABLE component

\* An application's folder, and one under a platform's code.
SmallCodeOf == f1 :> c1 @@ f2 :> c2

SmallPlatforms == {c2}

\* Whichever other component is picked, the console has no credential file.
Init ==
    /\ component \in {"accounts", "specs", "exports", "question", "staging", "snapshots",
                      "attribution", "fixes"}
    /\ AccountsInit /\ SpecInit /\ ExportInit /\ QuestionInit
    /\ StagingInit /\ SnapshotInit /\ AttributionInit /\ FixInit
    /\ component # "accounts" => ~file.there

AllButAccounts ==
    UNCHANGED <<specVars, exportVars, questionVars, stagingVars, snapshotVars, attributionVars,
                fixVars, component>>
AllButSpecs ==
    UNCHANGED <<accountVars, exportVars, questionVars, stagingVars, snapshotVars, attributionVars,
                fixVars, component>>
AllButExports ==
    UNCHANGED <<accountVars, specVars, questionVars, stagingVars, snapshotVars, attributionVars,
                fixVars, component>>
AllButQuestion ==
    UNCHANGED <<accountVars, specVars, exportVars, stagingVars, snapshotVars, attributionVars,
                fixVars, component>>
AllButStaging ==
    UNCHANGED <<accountVars, specVars, exportVars, questionVars, snapshotVars, attributionVars,
                fixVars, component>>
AllButSnapshots ==
    UNCHANGED <<accountVars, specVars, exportVars, questionVars, stagingVars, attributionVars,
                fixVars, component>>
AllButAttribution ==
    UNCHANGED <<accountVars, specVars, exportVars, questionVars, stagingVars, snapshotVars,
                fixVars, component>>
AllButFixes ==
    UNCHANGED <<accountVars, specVars, exportVars, questionVars, stagingVars, snapshotVars,
                attributionVars, component>>

Next ==
    \/ component = "accounts" /\ AccountsNext /\ AllButAccounts
    \/ component = "specs" /\ SpecNext /\ AllButSpecs
    \/ component = "exports" /\ ExportNext /\ AllButExports
    \/ component = "question" /\ QuestionNext /\ AllButQuestion
    \/ component = "staging" /\ StagingNext /\ AllButStaging
    \/ component = "snapshots" /\ SnapshotNext /\ AllButSnapshots
    \/ component = "attribution" /\ AttributionNext /\ AllButAttribution
    \/ component = "fixes" /\ FixNext /\ AllButFixes

vars == <<accountVars, specVars, exportVars, questionVars, stagingVars, snapshotVars,
          attributionVars, fixVars, component>>

\* QuestionFairness, of the composition's steps.
Fairness ==
    /\ WF_vars(component = "question" /\ Pipeline /\ AllButQuestion)
    /\ WF_vars(component = "question" /\ Bridge /\ AllButQuestion)

Spec == Init /\ [][Next]_vars /\ Fairness

\* Every variable of every component keeps its type.
ComponentsTypeOK ==
    /\ AccountsTypeOK /\ SpecTypeOK /\ ExportTypeOK /\ QuestionTypeOK
    /\ StagingTypeOK /\ SnapshotTypeOK /\ AttributionTypeOK /\ FixTypeOK

\* A question that is asked ends, and its stream with it (Question.EveryQuestionEnds).
AskedQuestionEnds == component = "question" => EveryQuestionEnds
=============================================================================
