---------------------------- MODULE IntakeProofs ----------------------------
(***************************************************************************)
(* Intake for every set of personas, intakes, names, contents and blocks.  *)
(* Rows stay opaque where they can: a handler that writes intake[i] writes *)
(* a typed row, so the table stays typed.                                  *)
(***************************************************************************)
EXTENDS Intake, TLAPS

\* The bytes a name already holds, and the status an upload leaves behind.
LEMMA PriorsTyped ==
    ASSUME TypeOK, NEW i \in Intakes, NEW c \in Contents
    PROVE  PriorIntakes(evidence, i, c) \in SUBSET Intakes
  BY DEF TypeOK, PriorIntakes, EvidenceRow

LEMMA SupersededTyped ==
    ASSUME TypeOK, NEW rows \in SUBSET evidence
    PROVE  Superseded(rows) \in SUBSET EvidenceRow
  <1>1. ASSUME NEW r \in rows PROVE [r EXCEPT !.live = FALSE] \in EvidenceRow
    <2>1. r \in EvidenceRow
      BY DEF TypeOK
    <2>2. QED
      BY <2>1 DEF EvidenceRow
  <1>2. QED
    BY <1>1 DEF Superseded

LEMMA CreateIntakeTyped ==
    ASSUME TypeOK, NEW p \in Personas, NEW i \in Intakes, CreateIntake(p, i)
    PROVE  TypeOK'
  <1>1. intake[i] \in IntakeRow
    BY DEF TypeOK
  <1>2. [intake[i] EXCEPT !.status = "draft", !.owner = p] \in IntakeRow
    BY <1>1 DEF IntakeRow, Statuses
  <1>3. intake' \in [Intakes -> IntakeRow]
    BY <1>2 DEF CreateIntake, TypeOK
  <1>4. audit' \in [Intakes -> AuditRow]
    BY DEF CreateIntake, TypeOK, AuditRow, Stated, Statuses
  <1>5. QED
    BY <1>3, <1>4 DEF CreateIntake, TypeOK

LEMMA AddEvidenceTyped ==
    ASSUME TypeOK, NEW p \in Personas, NEW i \in Intakes, NEW n \in Names, NEW c \in Contents,
           AddEvidence(p, i, n, c)
    PROVE  TypeOK'
  <1> DEFINE old     == LiveRows(evidence, i, n)
             requeue == old # {} /\ intake[i].status \in RequeueFrom
             priors  == PriorIntakes(evidence, i, c)
             row     == Uploaded(intake[i], requeue, priors)
             added   == [intake |-> i, name |-> n, content |-> c, live |-> TRUE]
  <1>1. row \in IntakeRow
    <2>1. intake[i] \in IntakeRow
      BY DEF TypeOK
    <2>2. priors \in SUBSET Intakes
      BY PriorsTyped
    <2> HIDE DEF priors, requeue
    <2>3. QED
      BY <2>1, <2>2 DEF Uploaded, IntakeRow, Statuses
  <1>2. intake' = [intake EXCEPT ![i] = row]
    BY DEF AddEvidence
  <1>3. intake' \in [Intakes -> IntakeRow]
    <2> HIDE DEF row
    <2>1. QED
      BY <1>1, <1>2 DEF TypeOK
  <1>4. evidence' \in SUBSET EvidenceRow
    <2>1. Superseded(old) \in SUBSET EvidenceRow
      BY SupersededTyped DEF LiveRows
    <2>2. added \in EvidenceRow
      BY DEF EvidenceRow
    <2>3. evidence' = (evidence \ old) \union Superseded(old) \union {added}
      BY DEF AddEvidence
    <2> HIDE DEF old, added
    <2>4. QED
      BY <2>1, <2>2, <2>3 DEF TypeOK
  <1>5. audit' \in [Intakes -> AuditRow]
    BY DEF AddEvidence, TypeOK, AuditRow, Stated, Statuses
  <1>6. QED
    BY <1>3, <1>4, <1>5 DEF AddEvidence, TypeOK

LEMMA TransitionTyped ==
    ASSUME TypeOK, NEW p \in Personas, NEW i \in Intakes, NEW to \in Statuses,
           Transition(p, i, to)
    PROVE  TypeOK'
  <1>1. intake[i] \in IntakeRow
    BY DEF TypeOK
  <1>2. [intake[i] EXCEPT !.status = to] \in IntakeRow
    BY <1>1 DEF IntakeRow
  <1>3. intake' \in [Intakes -> IntakeRow]
    BY <1>2 DEF Transition, TypeOK
  <1>4. audit' \in [Intakes -> AuditRow]
    BY DEF Transition, TypeOK, AuditRow, Stated
  <1>5. QED
    BY <1>3, <1>4 DEF Transition, TypeOK

LEMMA ThreadDecisionTyped ==
    ASSUME TypeOK, NEW p \in Personas, NEW i \in Intakes, NEW d \in Decisions,
           ThreadDecision(p, i, d)
    PROVE  TypeOK'
  <1> DEFINE row == Ruled(intake[i], d)
  <1>1. intake[i] \in IntakeRow
    BY DEF TypeOK
  <1>2. row \in IntakeRow
    BY <1>1 DEF Ruled, IntakeRow, Statuses, Decisions
  <1>3. intake' = [intake EXCEPT ![i] = row]
    BY DEF ThreadDecision
  <1>4. intake' \in [Intakes -> IntakeRow]
    <2> HIDE DEF row
    <2>1. QED
      BY <1>2, <1>3 DEF TypeOK
  <1>5. audit' \in [Intakes -> AuditRow]
    BY DEF ThreadDecision, TypeOK, AuditRow, Stated, Statuses, Decisions
  <1>6. QED
    BY <1>4, <1>5 DEF ThreadDecision, TypeOK

\* The block table is written by these two handlers alone.
LEMMA BlockTyped ==
    ASSUME TypeOK, NEW p \in Personas, NEW target \in Personas,
           \/ \E b \in BlockIds : BlockPersona(p, target, b)
           \/ UnblockPersona(p, target)
    PROVE  TypeOK'
  <1>1. intake' = intake /\ evidence' = evidence /\ audit' = audit
    BY DEF BlockPersona, UnblockPersona
  <1>2. ASSUME NEW b \in BlockIds, BlockPersona(p, target, b) PROVE block' \in [BlockIds -> BlockRow]
    BY <1>2 DEF BlockPersona, TypeOK, BlockRow
  <1>3. ASSUME UnblockPersona(p, target) PROVE block' \in [BlockIds -> BlockRow]
    <2>1. PICK b \in BlockIds : block' = [block EXCEPT ![b].open = FALSE]
      BY <1>3 DEF UnblockPersona, OpenBlocks
    <2>2. [block[b] EXCEPT !.open = FALSE] \in BlockRow
      BY DEF TypeOK, BlockRow
    <2>3. QED
      BY <2>1, <2>2 DEF TypeOK
  <1>4. QED
    BY <1>1, <1>2, <1>3 DEF TypeOK

\* Every handler leaves the tables typed.
THEOREM TypeCorrect == Spec => []TypeOK
  <1>1. Init => TypeOK
    BY DEF Init, TypeOK, IntakeRow, EvidenceRow, BlockRow, AuditRow, BlankIntake, BlankBlock,
       BlankAudit
  <1>2. TypeOK /\ [Next]_vars => TypeOK'
    <2> SUFFICES ASSUME TypeOK, [Next]_vars PROVE TypeOK'
      OBVIOUS
    <2>1. CASE UNCHANGED vars
      BY <2>1 DEF vars, TypeOK
    <2>2. CASE Next
      BY <2>2, CreateIntakeTyped, AddEvidenceTyped, TransitionTyped, ThreadDecisionTyped,
         BlockTyped DEF Next
    <2>3. QED
      BY <2>1, <2>2
  <1>3. QED
    BY <1>1, <1>2, PTL DEF Spec

----------------------------------------------------------------------------
(* The invariants of the record, its log and the blocks: inductive as they     *)
(* stand, next to TypeOK.                                                      *)

Safe == AuditAgrees /\ MovesWereAuthorized /\ RulingIsFinal /\ OneOpenBlock

LEMMA SafeStep == TypeOK /\ Safe /\ [Next]_vars => Safe'
  <1> SUFFICES ASSUME TypeOK, Safe, [Next]_vars PROVE Safe'
    OBVIOUS
  <1> USE DEF Safe, AuditAgrees, MovesWereAuthorized, RulingIsFinal, OneOpenBlock
  <1>0. /\ \A i \in Intakes : intake[i] \in IntakeRow /\ audit[i] \in AuditRow
        /\ DOMAIN intake = Intakes /\ DOMAIN audit = Intakes
    BY DEF TypeOK
  <1>1. ASSUME NEW p \in Personas, NEW i \in Intakes, CreateIntake(p, i) PROVE Safe'
    BY <1>0, <1>1, NobodyAssumption DEF CreateIntake, Stated, Issued, IntakeRow, AuditRow, Unissued
  <1>2. ASSUME NEW p \in Personas, NEW i \in Intakes, NEW n \in Names, NEW c \in Contents,
               AddEvidence(p, i, n, c)
        PROVE  Safe'
    <2> DEFINE requeue == LiveRows(evidence, i, n) # {} /\ intake[i].status \in RequeueFrom
               priors  == PriorIntakes(evidence, i, c)
    <2>1. /\ intake' = [intake EXCEPT ![i] = Uploaded(@, requeue, priors)]
          /\ audit' = IF requeue THEN [audit EXCEPT ![i] = Stated(p, "draft")] ELSE audit
          /\ block' = block
          /\ MayReach(p, intake[i])
      BY <1>2 DEF AddEvidence
    <2>2. requeue => intake[i].status \in RequeueFrom
      OBVIOUS
    <2> HIDE DEF requeue, priors
    <2>3. QED
      BY <1>0, <2>1, <2>2 DEF Uploaded, Stated, MayReach, RequeueFrom, IntakeRow, AuditRow
  <1>3. ASSUME NEW p \in Personas, NEW i \in Intakes, NEW to \in Statuses, Transition(p, i, to)
        PROVE  Safe'
    BY <1>0, <1>3 DEF Transition, TRANSITIONS, Stated, MayReach, IntakeRow, AuditRow
  <1>4. ASSUME NEW p \in Personas, NEW i \in Intakes, NEW d \in Decisions, ThreadDecision(p, i, d)
        PROVE  Safe'
    BY <1>0, <1>4 DEF ThreadDecision, Ruled, Stated, MayReach, Decisions, Undecided, IntakeRow,
       AuditRow
  <1>5. ASSUME NEW p \in Personas, NEW target \in Personas, NEW b \in BlockIds,
               BlockPersona(p, target, b)
        PROVE  Safe'
    BY <1>5 DEF BlockPersona, OpenBlocks, TypeOK, BlockRow
  <1>6. ASSUME NEW p \in Personas, NEW target \in Personas, UnblockPersona(p, target) PROVE Safe'
    BY <1>6 DEF UnblockPersona, OpenBlocks, TypeOK, BlockRow
  <1>7. CASE UNCHANGED vars
    BY <1>7 DEF vars
  <1>8. QED
    BY <1>1, <1>2, <1>3, <1>4, <1>5, <1>6, <1>7 DEF Next

LEMMA SafeInit == Init => Safe
  BY NobodyAssumption DEF Init, BlankIntake, BlankBlock, BlankAudit, Safe, AuditAgrees, MovesWereAuthorized, RulingIsFinal,
     OneOpenBlock, Unissued, Undecided

\* Together they are inductive, next to the types.
THEOREM SafeAlways == Spec => []Safe
  <1>1. TypeOK /\ Safe /\ [Next]_vars => Safe'
    BY SafeStep
  <1> QED
    BY <1>1, SafeInit, TypeCorrect, PTL DEF Spec

\* The status of every record is the one its log states last.
THEOREM AuditTrailAgrees == Spec => []AuditAgrees
  <1>1. Safe => AuditAgrees
    BY DEF Safe
  <1> QED
    BY <1>1, SafeAlways, PTL

\* Whoever moved a record last was entitled to, by ownership and by role.
THEOREM MoversWereEntitled == Spec => []MovesWereAuthorized
  <1>1. Safe => MovesWereAuthorized
    BY DEF Safe
  <1> QED
    BY <1>1, SafeAlways, PTL

\* A record is closed by the ruling no-new-value, only by it, and for good.
THEOREM RulingsStand == Spec => []RulingIsFinal
  <1>1. Safe => RulingIsFinal
    BY DEF Safe
  <1> QED
    BY <1>1, SafeAlways, PTL

\* A persona never has two open blocks.
THEOREM BlocksAreSingle == Spec => []OneOpenBlock
  <1>1. Safe => OneOpenBlock
    BY DEF Safe
  <1> QED
    BY <1>1, SafeAlways, PTL

----------------------------------------------------------------------------
(* The evidence table: only add_evidence writes it, and it moves one name.     *)

\* What is live after an upload: the new row under its name, and elsewhere what
\* was live before.
LEMMA LiveAfterUpload ==
    ASSUME TypeOK, NEW p \in Personas, NEW i \in Intakes, NEW n \in Names, NEW c \in Contents,
           AddEvidence(p, i, n, c), NEW r \in EvidenceRow, r.live
    PROVE  r \in evidence' <=>
              IF r.intake = i /\ r.name = n
                 THEN r = [intake |-> i, name |-> n, content |-> c, live |-> TRUE]
                 ELSE r \in evidence
  <1> DEFINE old   == LiveRows(evidence, i, n)
             added == [intake |-> i, name |-> n, content |-> c, live |-> TRUE]
  <1>1. evidence' = (evidence \ old) \union Superseded(old) \union {added}
    BY DEF AddEvidence
  <1>2. r \notin Superseded(old)
    <2>1. ASSUME NEW q \in old, r = [q EXCEPT !.live = FALSE] PROVE FALSE
      BY <2>1 DEF LiveRows, TypeOK, EvidenceRow
    <2>2. QED
      BY <2>1 DEF Superseded
  <1>3. r \in old <=> r \in evidence /\ r.intake = i /\ r.name = n
    BY DEF LiveRows
  <1>4. added.intake = i /\ added.name = n
    OBVIOUS
  <1> HIDE DEF old, added
  <1>5. QED
    BY <1>1, <1>2, <1>3, <1>4 DEF added

\* Every row the table keeps was there before, is the new one, or carries the
\* intake and the name of a row that was.
LEMMA RowsAfterUpload ==
    ASSUME TypeOK, NEW p \in Personas, NEW i \in Intakes, NEW n \in Names, NEW c \in Contents,
           AddEvidence(p, i, n, c), NEW r \in evidence', ~(r.intake = i /\ r.name = n)
    PROVE  r \in evidence
  <1> DEFINE old   == LiveRows(evidence, i, n)
             added == [intake |-> i, name |-> n, content |-> c, live |-> TRUE]
  <1>1. evidence' = (evidence \ old) \union Superseded(old) \union {added}
    BY DEF AddEvidence
  <1>2. r \notin Superseded(old)
    <2>1. ASSUME NEW q \in old, r = [q EXCEPT !.live = FALSE] PROVE FALSE
      BY <2>1 DEF LiveRows, TypeOK, EvidenceRow
    <2>2. QED
      BY <2>1 DEF Superseded
  <1>3. r # added
    OBVIOUS
  <1> HIDE DEF old, added
  <1>4. QED
    BY <1>1, <1>2, <1>3

\* A name once uploaded keeps exactly one live row, whatever is uploaded, by
\* whom and in which order.
THEOREM OneLiveRow == Spec => []OneLiveRowPerName
  <1>1. Init => OneLiveRowPerName
    BY DEF Init, OneLiveRowPerName
  <1>2. TypeOK /\ TypeOK' /\ OneLiveRowPerName /\ [Next]_vars => OneLiveRowPerName'
    <2> SUFFICES ASSUME TypeOK, TypeOK', OneLiveRowPerName, [Next]_vars, NEW r \in evidence'
                 PROVE  \E q \in evidence' :
                           {x \in evidence' : x.intake = r.intake /\ x.name = r.name /\ x.live}
                              = {q}
      BY DEF OneLiveRowPerName
    <2>1. CASE evidence' = evidence
      BY <2>1 DEF OneLiveRowPerName
    <2>2. ASSUME NEW p \in Personas, NEW i \in Intakes, NEW n \in Names, NEW c \in Contents,
                 AddEvidence(p, i, n, c)
          PROVE  \E q \in evidence' :
                    {x \in evidence' : x.intake = r.intake /\ x.name = r.name /\ x.live} = {q}
      <3> DEFINE added == [intake |-> i, name |-> n, content |-> c, live |-> TRUE]
      <3>0. evidence' \subseteq EvidenceRow
        BY DEF TypeOK
      <3>1. CASE r.intake = i /\ r.name = n
        <4>1. added \in EvidenceRow /\ added.live /\ added.intake = i /\ added.name = n
          BY DEF EvidenceRow
        <4>2. added \in evidence'
          BY <2>2, <4>1, LiveAfterUpload
        <4>3. \A x \in evidence' : x.intake = i /\ x.name = n /\ x.live => x = added
          BY <2>2, <3>0, LiveAfterUpload
        <4> HIDE DEF added
        <4>4. {x \in evidence' : x.intake = i /\ x.name = n /\ x.live} = {added}
          BY <4>1, <4>2, <4>3
        <4>5. QED
          BY <3>1, <4>2, <4>4
      <3>2. CASE ~(r.intake = i /\ r.name = n)
        <4>1. r \in evidence
          BY <2>2, <3>2, RowsAfterUpload
        <4>2. PICK q \in evidence :
                 {x \in evidence : x.intake = r.intake /\ x.name = r.name /\ x.live} = {q}
          BY <4>1 DEF OneLiveRowPerName
        <4>3. \A x \in EvidenceRow : x.live /\ x.intake = r.intake /\ x.name = r.name =>
                 (x \in evidence' <=> x \in evidence)
          BY <2>2, <3>2, LiveAfterUpload
        <4>4. evidence \subseteq EvidenceRow
          BY DEF TypeOK
        <4>5. {x \in evidence' : x.intake = r.intake /\ x.name = r.name /\ x.live}
                 = {x \in evidence : x.intake = r.intake /\ x.name = r.name /\ x.live}
          BY <3>0, <4>3, <4>4
        <4>6. q \in evidence'
          BY <4>2, <4>5
        <4>7. QED
          BY <4>2, <4>5, <4>6
      <3>3. QED
        BY <3>1, <3>2
    <2>3. QED
      BY <2>1, <2>2 DEF Next, vars, CreateIntake, Transition, ThreadDecision, BlockPersona,
         UnblockPersona
  <1>3. QED
    BY <1>1, <1>2, TypeCorrect, PTL DEF Spec

----------------------------------------------------------------------------
(* Thread linkage. *)

LEMMA LinksStep == TypeOK /\ TypeOK' /\ LinksResolve /\ [Next]_vars => LinksResolve'
  <1> SUFFICES ASSUME TypeOK, TypeOK', LinksResolve, [Next]_vars, NEW k \in Intakes
               PROVE  /\ intake'[k].flagged <=> intake'[k].threadOf # {}
                      /\ intake'[k].decision # Undecided => intake'[k].flagged
                      /\ \A j \in intake'[k].threadOf :
                            j # k /\ \E r \in evidence' : r.intake = j /\ r.live
    BY DEF LinksResolve
  <1>0. /\ intake[k] \in IntakeRow /\ DOMAIN intake = Intakes
        /\ intake[k].flagged <=> intake[k].threadOf # {}
        /\ intake[k].decision # Undecided => intake[k].flagged
        /\ \A j \in intake[k].threadOf :
              j # k /\ \E r \in evidence : r.intake = j /\ r.live
    BY DEF TypeOK, LinksResolve
  <1>1. ASSUME NEW p \in Personas, NEW i \in Intakes, CreateIntake(p, i)
        PROVE  /\ intake'[k].flagged = intake[k].flagged
               /\ intake'[k].decision = intake[k].decision
               /\ intake'[k].threadOf = intake[k].threadOf
               /\ evidence' = evidence
    BY <1>0, <1>1 DEF CreateIntake, IntakeRow, TypeOK
  <1>2. ASSUME NEW p \in Personas, NEW i \in Intakes, NEW to \in Statuses, Transition(p, i, to)
        PROVE  /\ intake'[k].flagged = intake[k].flagged
               /\ intake'[k].decision = intake[k].decision
               /\ intake'[k].threadOf = intake[k].threadOf
               /\ evidence' = evidence
    BY <1>0, <1>2 DEF Transition, IntakeRow, TypeOK
  <1>3. ASSUME NEW p \in Personas, NEW i \in Intakes, NEW d \in Decisions, ThreadDecision(p, i, d)
        PROVE  /\ intake'[k].flagged = intake[k].flagged
               /\ intake'[k].decision # Undecided => intake'[k].flagged
               /\ intake'[k].threadOf = intake[k].threadOf
               /\ evidence' = evidence
    BY <1>0, <1>3 DEF ThreadDecision, Ruled, IntakeRow, TypeOK
  <1>4. ASSUME NEW p \in Personas, NEW i \in Intakes, NEW n \in Names, NEW c \in Contents,
               AddEvidence(p, i, n, c)
        PROVE  /\ intake'[k].flagged <=> intake'[k].threadOf # {}
               /\ intake'[k].decision # Undecided => intake'[k].flagged
               /\ \A j \in intake'[k].threadOf :
                     j # k /\ \E r \in evidence' : r.intake = j /\ r.live
    <2> DEFINE requeue == LiveRows(evidence, i, n) # {} /\ intake[i].status \in RequeueFrom
               priors  == PriorIntakes(evidence, i, c)
               added   == [intake |-> i, name |-> n, content |-> c, live |-> TRUE]
    <2>1. intake' = [intake EXCEPT ![i] = Uploaded(@, requeue, priors)]
      BY <1>4 DEF AddEvidence
    <2>2. \A j \in priors : j # i /\ \E r \in evidence : r.intake = j /\ r.live
      BY DEF PriorIntakes
    <2>3. ASSUME NEW j, NEW r \in evidence, r.intake = j, r.live
          PROVE  \E q \in evidence' : q.intake = j /\ q.live
      <3>1. r \in EvidenceRow
        BY DEF TypeOK
      <3>2. CASE r.intake = i /\ r.name = n
        <4>1. added \in EvidenceRow /\ added.live /\ added.intake = i /\ added.name = n
          BY DEF EvidenceRow
        <4>2. added \in evidence'
          BY <1>4, <4>1, LiveAfterUpload
        <4> HIDE DEF added
        <4>3. QED
          BY <2>3, <3>2, <4>1, <4>2
      <3>3. CASE ~(r.intake = i /\ r.name = n)
        BY <1>4, <2>3, <3>1, <3>3, LiveAfterUpload
      <3>4. QED
        BY <3>2, <3>3
    <2>4. priors \in SUBSET Intakes
      BY PriorsTyped
    <2> HIDE DEF requeue, priors
    <2>5. CASE k = i
      <3>1. /\ intake'[k].flagged = (intake[k].flagged \/ priors # {})
            /\ intake'[k].threadOf = intake[k].threadOf \union priors
            /\ intake'[k].decision = intake[k].decision
        BY <1>0, <2>1, <2>5 DEF Uploaded, IntakeRow
      <3>2. QED
        BY <1>0, <2>2, <2>3, <2>5, <3>1
    <2>6. CASE k # i
      <3>1. intake'[k] = intake[k]
        BY <1>0, <2>1, <2>6
      <3>2. QED
        BY <1>0, <2>3, <3>1
    <2>7. QED
      BY <2>5, <2>6
  <1>5. CASE intake' = intake /\ evidence' = evidence
    BY <1>0, <1>5
  <1>6. QED
    BY <1>0, <1>1, <1>2, <1>3, <1>4, <1>5 DEF Next, vars, BlockPersona, UnblockPersona

\* A flagged intake names the prior intakes it continues, never itself, and each
\* of them still holds live evidence to compare against.
THEOREM LinksSafe == Spec => []LinksResolve
  <1>1. Init => LinksResolve
    BY DEF Init, BlankIntake, LinksResolve
  <1>2. QED
    BY <1>1, LinksStep, TypeCorrect, PTL DEF Spec

----------------------------------------------------------------------------
(* What a step may never do. *)

\* Evidence under review is replaced only together with the return to draft.
THEOREM ReviewedEvidenceStays == Spec => NoSilentSwap
  <1> DEFINE Kept == \A i \in Intakes :
                        InReview(intake[i]) /\ InReview(intake'[i]) =>
                           {r \in evidence : r.intake = i /\ r.live} \subseteq evidence'
  <1>1. TypeOK /\ [Next]_vars => [Kept]_vars
    <2> SUFFICES ASSUME TypeOK, Next PROVE Kept
      BY DEF vars
    <2>1. CASE evidence' = evidence
      BY <2>1
    <2>2. ASSUME NEW p \in Personas, NEW i \in Intakes, NEW n \in Names, NEW c \in Contents,
                 AddEvidence(p, i, n, c)
          PROVE  Kept
      <3> SUFFICES ASSUME NEW k \in Intakes, InReview(intake[k]), InReview(intake'[k]),
                          NEW r \in evidence, r.intake = k, r.live
                   PROVE  r \in evidence'
        OBVIOUS
      <3>1. r \in EvidenceRow
        BY DEF TypeOK
      <3>2. CASE k = i /\ LiveRows(evidence, i, n) # {}
        <4>1. intake[i].status \in RequeueFrom
          BY <2>2, <3>2 DEF AddEvidence, InReview, RequeueFrom, UploadClosed
        <4>2. intake'[i].status = "draft"
          BY <2>2, <3>2, <4>1 DEF AddEvidence, Uploaded, TypeOK, IntakeRow
        <4>3. QED
          BY <3>2, <4>2 DEF InReview
      <3>3. CASE k = i /\ LiveRows(evidence, i, n) = {}
        <4>1. r.name # n
          BY <3>3 DEF LiveRows
        <4>2. QED
          BY <2>2, <3>1, <4>1, LiveAfterUpload
      <3>4. CASE k # i
        BY <2>2, <3>1, <3>4, LiveAfterUpload
      <3>5. QED
        BY <3>2, <3>3, <3>4
    <2>3. QED
      BY <2>1, <2>2 DEF Next, CreateIntake, Transition, ThreadDecision, BlockPersona,
         UnblockPersona
  <1>2. QED
    BY <1>1, TypeCorrect, PTL DEF Spec, NoSilentSwap

\* No request carries a record into sme-confirmed for a persona with an open block.
THEOREM BlockHolds == Spec => BlockedDoNotSubmit
  <1> DEFINE Held == \A i \in Intakes :
                        intake[i].status # "sme-confirmed" /\ intake'[i].status = "sme-confirmed" =>
                           ~ \E b \in BlockIds :
                                block[b].open /\ block[b].persona = audit'[i].actor
  <1>1. TypeOK /\ [Next]_vars => [Held]_vars
    <2> SUFFICES ASSUME TypeOK, Next, NEW k \in Intakes,
                        intake[k].status # "sme-confirmed", intake'[k].status = "sme-confirmed"
                 PROVE  ~ \E b \in BlockIds : block[b].open /\ block[b].persona = audit'[k].actor
      BY DEF vars
    <2>0. \A i \in Intakes : intake[i] \in IntakeRow /\ audit[i] \in AuditRow
      BY DEF TypeOK
    <2>1. PICK p \in Personas, i \in Intakes, to \in Statuses : Transition(p, i, to)
      <3>1. ASSUME NEW p \in Personas, NEW i \in Intakes, CreateIntake(p, i) PROVE FALSE
        BY <2>0, <3>1 DEF CreateIntake, IntakeRow, TypeOK
      <3>2. ASSUME NEW p \in Personas, NEW i \in Intakes, NEW n \in Names, NEW c \in Contents,
                   AddEvidence(p, i, n, c)
            PROVE  FALSE
        BY <2>0, <3>2 DEF AddEvidence, Uploaded, IntakeRow, TypeOK
      <3>3. ASSUME NEW p \in Personas, NEW i \in Intakes, NEW d \in Decisions,
                   ThreadDecision(p, i, d)
            PROVE  FALSE
        BY <2>0, <3>3 DEF ThreadDecision, Ruled, IntakeRow, TypeOK
      <3>4. intake' # intake
        OBVIOUS
      <3>5. QED
        BY <3>1, <3>2, <3>3, <3>4 DEF Next, BlockPersona, UnblockPersona
    <2>2. k = i /\ to = "sme-confirmed"
      BY <2>0, <2>1 DEF Transition, IntakeRow, TypeOK
    <2>3. audit'[k].actor = p /\ OpenBlocks(block, p) = {}
      BY <2>1, <2>2 DEF Transition, Stated, TypeOK
    <2>4. QED
      BY <2>3 DEF OpenBlocks
  <1>2. QED
    BY <1>1, TypeCorrect, PTL DEF Spec, BlockedDoNotSubmit
=============================================================================
