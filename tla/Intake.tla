------------------------------- MODULE Intake -------------------------------
(***************************************************************************)
(* The SME context-intake store, drydocs_api/intake.py, one request at a   *)
(* time: every handler is a single step from its first SELECT to its       *)
(* commit.  IntakeThreads opens the handlers up statement by statement.    *)
(*                                                                         *)
(* A refused request raises before it writes, so it changes nothing and is *)
(* a stuttering step here: each action's guard is the conjunction of the   *)
(* checks that its handler passes.  A request without a live session is    *)
(* refused first of all (_authorize); who is asking is a persona.          *)
(***************************************************************************)
EXTENDS IntakeRules

VARIABLES
    intake,     \* the intake table, one row per id
    evidence,   \* the evidence table
    block,      \* the persona_block table
    audit       \* the newest row of the event table that states a status

vars == <<intake, evidence, block, audit>>

----------------------------------------------------------------------------
(* The handlers. *)

Init ==
    /\ intake = [i \in Intakes |-> BlankIntake]
    /\ evidence = {}
    /\ block = [b \in BlockIds |-> BlankBlock]
    /\ audit = [i \in Intakes |-> BlankAudit]

\* create_intake: a fresh id, stamped with its owner, in draft.
CreateIntake(p, i) ==
    /\ ~Issued(intake[i])
    /\ intake' = [intake EXCEPT ![i].status = "draft", ![i].owner = p]
    /\ audit' = [audit EXCEPT ![i] = Stated(p, "draft")]
    /\ UNCHANGED <<evidence, block>>

\* Mutant: the re-queue is not logged.
AddEvidenceUnlogged(p, i, n, c) ==
    LET old     == LiveRows(evidence, i, n)
        requeue == old # {} /\ intake[i].status \in RequeueFrom
    IN  /\ Issued(intake[i])
        /\ MayReach(p, intake[i])
        /\ intake[i].status \notin UploadClosed
        /\ \A r \in old : r.content # c
        /\ evidence' = (evidence \ old) \union Superseded(old)
                          \union {[intake |-> i, name |-> n, content |-> c, live |-> TRUE]}
        /\ intake' = [intake EXCEPT
                         ![i] = Uploaded(@, requeue, PriorIntakes(evidence, i, c))]
        /\ UNCHANGED <<audit, block>>

\* Mutant: the old version is matched by its bytes, so it is never superseded.
AddEvidenceBeside(p, i, n, c) ==
    /\ Issued(intake[i])
    /\ MayReach(p, intake[i])
    /\ intake[i].status \notin UploadClosed
    /\ evidence' = evidence \union
                       {[intake |-> i, name |-> n, content |-> c, live |-> TRUE]}
    /\ intake' = [intake EXCEPT ![i] = Uploaded(@, FALSE, PriorIntakes(evidence, i, c))]
    /\ UNCHANGED <<audit, block>>

\* add_evidence: changed bytes under a known name supersede the old row and put
\* a record under review back to draft; every upload is matched against the live
\* evidence of the other intakes.  The same bytes again are a no-op.
AddEvidence(p, i, n, c) ==
    LET old     == LiveRows(evidence, i, n)
        requeue == old # {} /\ intake[i].status \in RequeueFrom
        priors  == PriorIntakes(evidence, i, c)
    IN  /\ Issued(intake[i])
        /\ MayReach(p, intake[i])
        /\ intake[i].status \notin UploadClosed
        /\ \A r \in old : r.content # c
        /\ evidence' = (evidence \ old) \union Superseded(old)
                          \union {[intake |-> i, name |-> n, content |-> c, live |-> TRUE]}
        /\ intake' = [intake EXCEPT ![i] = Uploaded(@, requeue, priors)]
        /\ audit' = IF requeue THEN [audit EXCEPT ![i] = Stated(p, "draft")] ELSE audit
        /\ UNCHANGED block

\* Mutant: the block is asked for on the correlated path alone.
TransitionReconfirmOpen(p, i, to) ==
    /\ Issued(intake[i])
    /\ MayReach(p, intake[i])
    /\ \E edge \in TRANSITIONS :
          edge[1] = intake[i].status /\ edge[2] = to /\ Role[p] \in edge[3]
    /\ ~AwaitsDecision(intake[i])
    /\ intake[i].status = "correlated" /\ to = "sme-confirmed" => OpenBlocks(block, p) = {}
    /\ intake' = [intake EXCEPT ![i].status = to]
    /\ audit' = [audit EXCEPT ![i] = Stated(p, to)]
    /\ UNCHANGED <<evidence, block>>

\* transition: a legal edge for the caller's role.  A draft waiting for its
\* thread decision does not move, and a blocked persona does not submit.
Transition(p, i, to) ==
    /\ Issued(intake[i])
    /\ MayReach(p, intake[i])
    /\ \E edge \in TRANSITIONS :
          edge[1] = intake[i].status /\ edge[2] = to /\ Role[p] \in edge[3]
    /\ ~AwaitsDecision(intake[i])
    /\ to = "sme-confirmed" => OpenBlocks(block, p) = {}
    /\ intake' = [intake EXCEPT ![i].status = to]
    /\ audit' = [audit EXCEPT ![i] = Stated(p, to)]
    /\ UNCHANGED <<evidence, block>>

\* Mutant: a recorded ruling may be overwritten.
ThreadDecisionAgain(p, i, d) ==
    /\ Issued(intake[i])
    /\ MayReach(p, intake[i])
    /\ intake[i].flagged
    /\ intake' = [intake EXCEPT ![i] = Ruled(@, d)]
    /\ audit' = IF d = "no-new-value" THEN [audit EXCEPT ![i] = Stated(p, d)] ELSE audit
    /\ UNCHANGED <<evidence, block>>

\* thread_decision: once per record, whatever its status; no-new-value closes it.
ThreadDecision(p, i, d) ==
    /\ Issued(intake[i])
    /\ MayReach(p, intake[i])
    /\ intake[i].flagged
    /\ intake[i].decision = Undecided
    /\ intake' = [intake EXCEPT ![i] = Ruled(@, d)]
    /\ audit' = IF d = "no-new-value" THEN [audit EXCEPT ![i] = Stated(p, d)] ELSE audit
    /\ UNCHANGED <<evidence, block>>

\* Mutant: blocks stack.
BlockPersonaAgain(p, target, b) ==
    /\ Role[p] = "admin"
    /\ block[b].persona = Nobody
    /\ block' = [block EXCEPT ![b] = [persona |-> target, open |-> TRUE]]
    /\ UNCHANGED <<intake, evidence, audit>>

\* block_persona: an admin opens a block on a persona that has none open.
BlockPersona(p, target, b) ==
    /\ Role[p] = "admin"
    /\ OpenBlocks(block, target) = {}
    /\ block[b].persona = Nobody
    /\ block' = [block EXCEPT ![b] = [persona |-> target, open |-> TRUE]]
    /\ UNCHANGED <<intake, evidence, audit>>

\* unblock_persona: an admin closes the open row; the row stays.
UnblockPersona(p, target) ==
    /\ Role[p] = "admin"
    /\ \E b \in OpenBlocks(block, target) :
          block' = [block EXCEPT ![b].open = FALSE]
    /\ UNCHANGED <<intake, evidence, audit>>

Next ==
    \/ \E p \in Personas, i \in Intakes : CreateIntake(p, i)
    \/ \E p \in Personas, i \in Intakes, n \in Names, c \in Contents : AddEvidence(p, i, n, c)
    \/ \E p \in Personas, i \in Intakes, to \in Statuses : Transition(p, i, to)
    \/ \E p \in Personas, i \in Intakes, d \in Decisions : ThreadDecision(p, i, d)
    \/ \E p, target \in Personas, b \in BlockIds : BlockPersona(p, target, b)
    \/ \E p, target \in Personas : UnblockPersona(p, target)

Spec == Init /\ [][Next]_vars

----------------------------------------------------------------------------
(* Properties. *)

TypeOK ==
    /\ intake \in [Intakes -> IntakeRow]
    /\ evidence \in SUBSET EvidenceRow
    /\ block \in [BlockIds -> BlockRow]
    /\ audit \in [Intakes -> AuditRow]

\* The audit trail and the record agree: the last status the log states is the
\* record's status, so the table can be rebuilt from the log.
AuditAgrees == \A i \in Intakes : audit[i].status = intake[i].status

\* Whoever the log names as the last to move a record was entitled to: a
\* user-tier persona only ever moved its own intake (_authorize_record runs
\* before the write), and only an admin accepted or returned one.
MovesWereAuthorized ==
    \A i \in Intakes :
        /\ audit[i].actor \in Personas /\ Role[audit[i].actor] = "user" =>
              intake[i].owner = audit[i].actor
        /\ intake[i].status \in {"admin-accepted", "admin-returned"} =>
              audit[i].actor \in Personas /\ Role[audit[i].actor] = "admin"

\* A record is closed as no-new-value exactly when that was the SME's ruling on
\* its thread: no later request moves it out, none closes it without the ruling.
RulingIsFinal ==
    \A i \in Intakes :
        intake[i].decision = "no-new-value" <=> intake[i].status = "no-new-value"

\* A name once uploaded to an intake has exactly one live row: superseding never
\* leaves a name without evidence, nor with two versions under review.
OneLiveRowPerName ==
    \A r \in evidence : \E q \in evidence :
        {x \in evidence : x.intake = r.intake /\ x.name = r.name /\ x.live} = {q}

\* The flag and the linkage tell the same story, and a link leads somewhere:
\* flagged exactly when prior intakes are named, never the intake itself, each
\* of them holding live evidence.
LinksResolve ==
    \A i \in Intakes :
        /\ intake[i].flagged <=> intake[i].threadOf # {}
        /\ intake[i].decision # Undecided => intake[i].flagged
        /\ \A j \in intake[i].threadOf :
              j # i /\ \E r \in evidence : r.intake = j /\ r.live

\* At most one open block per persona, so lifting it lifts the block.
OneOpenBlock ==
    \A b, c \in BlockIds :
        block[b].open /\ block[c].open /\ block[b].persona = block[c].persona => b = c

InReview(row) ==
    row.status \in {"ontology-reviewed", "correlated", "sme-confirmed",
                    "admin-accepted", "admin-returned"}

\* Changed evidence is never silently swapped under a review in flight: while a
\* record stays in review or accepted, what was live in it stays live.
NoSilentSwap ==
    [][\A i \in Intakes :
          InReview(intake[i]) /\ InReview(intake'[i]) =>
              {r \in evidence : r.intake = i /\ r.live} \subseteq evidence']_vars

\* A blocked reviewer cannot hand a record on, by either path into sme-confirmed.
BlockedDoNotSubmit ==
    [][\A i \in Intakes :
          intake[i].status # "sme-confirmed" /\ intake'[i].status = "sme-confirmed" =>
              ~ \E b \in BlockIds : block[b].open /\ block[b].persona = audit'[i].actor]_vars

\* admin-accepted is parked: no request of this API moves a record out of it.
AcceptedIsParked ==
    [][\A i \in Intakes :
          intake[i].status = "admin-accepted" => intake'[i].status = "admin-accepted"]_vars
=============================================================================
