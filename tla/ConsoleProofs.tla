---------------------------- MODULE ConsoleProofs -----------------------------
(****************************************************************************)
(* What the console's components promise, for any sizes: a question to the  *)
(* graph (Question), an export (ExportStream), the accounts and their       *)
(* sign-in workers (Accounts) and the store of registered queries           *)
(* (SpecRegistry).                                                          *)
(****************************************************************************)
EXTENDS Question, ExportStream, Accounts, SpecRegistry, FiniteSetTheorems, TLAPS

----------------------------------------------------------------------------
(* Question. *)

\* Calls by the end of round i of Tier 2; none of its rounds is the end of Tier 1.
Base(i) == 1 + TextCalls + i * RoundCalls

\* The calls that may still come before the round, or Tier 1's retrieval, is over.
Rest(r) ==
    CASE r.at \in {"start", "router"} -> 1 + TextCalls
      [] r.at \in {"spec", "generate"} -> TextCalls
      [] r.at \in {"try", "fix"} -> MaxFixRetries - r.attempt
      [] r.at = "vote" -> VoteSamples - r.votes + 1 + TextCalls
      [] r.at = "decompose" -> 1 + TextCalls
      [] OTHER -> 0

Over(r) == r.at \in {"ended", "failed"}

\* Retries, votes and rounds within their limits, and rounds only in Tier 2.
Within(r) ==
    /\ r.at = "try" => r.attempt <= MaxFixRetries
    /\ r.at = "fix" => r.attempt < MaxFixRetries
    /\ r.at = "vote" => r.votes < VoteSamples
    /\ r.iteration <= MaxIterations
    /\ r.at \in {"round", "vote", "decompose", "gathered", "close", "solve"} => r.tier2
    /\ r.at \in {"start", "router", "spec", "choose", "answer"} => ~r.tier2

\* What the retrievals so far have given, which tier claims it, and whether rows were found.
Tiering(r, rowsFound) ==
    /\ r.at \in {"start", "router", "spec"} =>
          r.spec = "none" /\ r.rows = "none" /\ r.tier = "unanswered" /\ ~rowsFound
    /\ r.at \in {"generate", "try", "fix", "choose"} /\ ~r.tier2 =>
          /\ r.spec \in {"none", "empty"} /\ r.rows = r.spec
          /\ r.tier = IF r.spec = "none" THEN "unanswered" ELSE "spec"
          /\ rowsFound <=> (r.at = "choose" /\ r.t2c = "rows")
    /\ r.tier2 => ~rowsFound /\ r.tier \in {"unanswered", "tier2"}
    /\ r.at = "answer" => r.tier \in {"spec", "text2cypher"}
    /\ r.at = "answer" \/ (r.at = "ended" /\ r.tier \in {"spec", "text2cypher"}) =>
          /\ rowsFound <=> r.rows = "rows"
          /\ r.rows = IF r.tier = "spec" THEN r.spec ELSE r.t2c

\* The calls made and still to come.
Counted == calls + Rest(run) <= Base(run.iteration)

\* The call that used up the budget is not one over it.
Overran ==
    /\ ~run.tier2 \/ ~OverBudget => overrun = 0
    /\ run.tier2 => overrun + Rest(run) <= IF OverBudget THEN RoundCalls - 1 ELSE RoundCalls

RunOK == run \in Run /\ calls \in Nat /\ overrun \in Nat /\ found \in BOOLEAN

QuestionInv ==
    /\ RunOK
    /\ Within(run) /\ Tiering(run, found)
    /\ IF Over(run) THEN calls <= Base(MaxIterations) + 1 /\ overrun <= RoundCalls
                    ELSE Counted /\ Overran

LEMMA RoundsAreCalls == TextCalls \in Nat \ {0} /\ RoundCalls \in Nat /\ RoundCalls > TextCalls + 1
  BY QuestionAssumption DEF TextCalls, RoundCalls

LEMMA BaseGrows ==
    /\ \A i \in Nat : Base(i) \in Nat /\ Base(i + 1) = Base(i) + RoundCalls
    /\ Base(0) = 1 + TextCalls
    /\ \A i \in 0 .. MaxIterations : Base(i) <= Base(MaxIterations)
  <1>1. ASSUME NEW i \in Nat PROVE Base(i) \in Nat /\ Base(i + 1) = Base(i) + RoundCalls
    BY RoundsAreCalls DEF Base
  <1>2. ASSUME NEW i \in 0 .. MaxIterations PROVE Base(i) <= Base(MaxIterations)
    <2>1. (MaxIterations - i) * RoundCalls >= 0
      BY RoundsAreCalls, QuestionAssumption
    <2>2. MaxIterations * RoundCalls = (MaxIterations - i) * RoundCalls + i * RoundCalls
      BY RoundsAreCalls, QuestionAssumption
    <2> QED
      BY <2>1, <2>2, RoundsAreCalls, QuestionAssumption DEF Base
  <1>3. Base(0) = 1 + TextCalls
    BY RoundsAreCalls DEF Base
  <1> QED
    BY <1>1, <1>2, <1>3

LEMMA RestIsNat ==
    ASSUME NEW r \in Run, Within(r)
    PROVE  Rest(r) \in Nat
  BY QuestionAssumption, RoundsAreCalls DEF Rest, Within, Run

LEMMA QuestionInitInv == QuestionInit => QuestionInv
  <1> SUFFICES ASSUME QuestionInit PROVE QuestionInv
    OBVIOUS
  <1>1. run = Asked /\ calls = 0 /\ overrun = 0 /\ found = FALSE
    BY DEF QuestionInit
  <1>2. Asked \in Run
    BY QuestionAssumption DEF Asked, Run, Result
  <1>3. RunOK
    BY <1>1, <1>2 DEF RunOK
  <1>4. run.at = "start" /\ run.iteration = 0 /\ run.tier2 = FALSE /\ run.spec = "none"
        /\ run.rows = "none" /\ run.tier = "unanswered"
    BY <1>1 DEF Asked
  <1>5. Within(run)
    BY <1>4, QuestionAssumption DEF Within
  <1>6. Tiering(run, found)
    BY <1>1, <1>4 DEF Tiering
  <1>7. Counted
    BY <1>1, <1>4, BaseGrows, RoundsAreCalls DEF Counted, Rest
  <1>8. Overran
    BY <1>1, <1>4 DEF Overran
  <1> QED
    BY <1>3, <1>4, <1>5, <1>6, <1>7, <1>8 DEF QuestionInv, Over

\* A call changes nothing of the envelope it is given but the tokens.
Same(s, r) ==
    /\ s.at = r.at /\ s.spec = r.spec /\ s.t2c = r.t2c /\ s.rows = r.rows
    /\ s.attempt = r.attempt /\ s.tier2 = r.tier2 /\ s.iteration = r.iteration
    /\ s.votes = r.votes /\ s.tier = r.tier

LEMMA CallEffect ==
    ASSUME RunOK, NEW r \in Run, r.tokens = run.tokens, Call(r)
    PROVE  /\ run' \in Run /\ Same(run', r)
           /\ calls' = calls + 1
           /\ OverBudget => OverBudget'
           /\ overrun' = overrun + (IF run.tier2 /\ OverBudget THEN 1 ELSE 0)
  <1> PICK cost \in CallTokens : run' = [r EXCEPT !.tokens = Spend(cost)]
    BY DEF Call
  <1>1. run.tokens \in 0 .. TokenBudget /\ cost \in Nat /\ TokenBudget \in Nat
    BY QuestionAssumption DEF RunOK, Run
  <1>2. Spend(cost) \in 0 .. TokenBudget /\ (OverBudget => Spend(cost) >= TokenBudget)
    BY <1>1 DEF Spend, OverBudget
  <1>3. run' \in Run /\ Same(run', r) /\ run'.tokens = Spend(cost)
    BY <1>2 DEF Run, Same
  <1>4. OverBudget => OverBudget'
    BY <1>2, <1>3 DEF OverBudget
  <1> QED
    BY <1>3, <1>4 DEF Call

LEMMA SameKeeps ==
    ASSUME NEW s, NEW r, Same(s, r), NEW rowsFound
    PROVE  /\ Rest(s) = Rest(r) /\ (Over(s) <=> Over(r))
           /\ Within(r) => Within(s)
           /\ Tiering(r, rowsFound) => Tiering(s, rowsFound)
  BY DEF Same, Rest, Over, Within, Tiering

\* A call that brings the end of the round nearer, or the end of the question.
LEMMA CallKeepsInv ==
    ASSUME QuestionInv, ~Over(run), NEW r \in Run, Call(r), UNCHANGED found,
           r.tokens = run.tokens, r.tier2 = run.tier2, r.iteration = run.iteration,
           Within(r), Tiering(r, found),
           r.at = "ended" \/ (~Over(r) /\ Rest(r) + 1 <= Rest(run))
    PROVE  QuestionInv'
  <1>1. RunOK /\ Within(run) /\ Counted /\ Overran
    BY DEF QuestionInv
  <1>2. /\ run' \in Run /\ Same(run', r)
        /\ calls' = calls + 1
        /\ OverBudget => OverBudget'
        /\ overrun' = overrun + (IF run.tier2 /\ OverBudget THEN 1 ELSE 0)
    BY <1>1, CallEffect
  <1>3. calls \in Nat /\ overrun \in Nat /\ Rest(run) \in Nat /\ Rest(r) \in Nat
        /\ run.iteration \in 0 .. MaxIterations /\ Base(run.iteration) \in Nat
        /\ RoundCalls \in Nat \ {0} /\ run.tier2 \in BOOLEAN
    BY <1>1, RestIsNat, BaseGrows, RoundsAreCalls, QuestionAssumption
       DEF RunOK, Run, Within
  <1>4. Rest(run') = Rest(r) /\ (Over(run') <=> Over(r)) /\ Within(run')
        /\ Tiering(run', found') /\ run'.iteration = run.iteration /\ run'.tier2 = run.tier2
    BY <1>2, SameKeeps DEF Same
  <1>5. RunOK'
    BY <1>1, <1>2, <1>3 DEF RunOK
  <1>6. CASE r.at = "ended"
    <2>1. Over(run')
      BY <1>4, <1>6 DEF Over
    <2>2. calls' <= Base(MaxIterations) + 1
      BY <1>1, <1>2, <1>3, BaseGrows, QuestionAssumption DEF Counted
    <2>3. overrun' <= RoundCalls
      BY <1>1, <1>2, <1>3 DEF Overran
    <2> QED
      BY <1>4, <1>5, <2>1, <2>2, <2>3 DEF QuestionInv
  <1>7. CASE ~Over(r) /\ Rest(r) + 1 <= Rest(run)
    <2>1. Counted'
      BY <1>1, <1>2, <1>3, <1>4, <1>7 DEF Counted
    <2>2. Overran'
      BY <1>1, <1>2, <1>3, <1>4, <1>7 DEF Overran
    <2> QED
      BY <1>4, <1>5, <1>7, <2>1, <2>2 DEF QuestionInv
  <1> QED
    BY <1>6, <1>7

\* A step without a call that brings no end further away.
LEMMA FreeStepKeepsInv ==
    ASSUME QuestionInv, ~Over(run), NEW r \in Run, run' = r, found' \in BOOLEAN,
           UNCHANGED <<calls, overrun>>,
           r.tokens = run.tokens, r.tier2 = run.tier2, r.iteration = run.iteration,
           Within(r), Tiering(r, found'),
           Over(r) \/ Rest(r) <= Rest(run)
    PROVE  QuestionInv'
  <1>1. RunOK /\ Within(run) /\ Counted /\ Overran
    BY DEF QuestionInv
  <1>2. calls \in Nat /\ overrun \in Nat /\ Rest(run) \in Nat /\ Rest(r) \in Nat
        /\ run.iteration \in 0 .. MaxIterations /\ Base(run.iteration) \in Nat
        /\ RoundCalls \in Nat \ {0} /\ run.tier2 \in BOOLEAN
    BY <1>1, RestIsNat, BaseGrows, RoundsAreCalls, QuestionAssumption
       DEF RunOK, Run, Within
  <1>3. RunOK' /\ (OverBudget' <=> OverBudget)
    BY <1>1 DEF RunOK, OverBudget
  <1>4. CASE Over(r)
    <2>1. calls <= Base(MaxIterations) + 1
      BY <1>1, <1>2, BaseGrows, QuestionAssumption DEF Counted
    <2>2. overrun <= RoundCalls
      BY <1>1, <1>2 DEF Overran
    <2> QED
      BY <1>3, <1>4, <2>1, <2>2 DEF QuestionInv
  <1>5. CASE ~Over(r) /\ Rest(r) <= Rest(run)
    <2>1. Counted'
      BY <1>1, <1>2, <1>5 DEF Counted
    <2>2. Overran'
      BY <1>1, <1>2, <1>3, <1>5 DEF Overran
    <2> QED
      BY <1>3, <1>5, <2>1, <2>2 DEF QuestionInv
  <1> QED
    BY <1>4, <1>5

\* The facts every action starts from.
LEMMA AtHand ==
    ASSUME QuestionInv
    PROVE  /\ run \in Run /\ found \in BOOLEAN /\ run.iteration \in 0 .. MaxIterations
           /\ Within(run) /\ Tiering(run, found)
           /\ run.attempt \in Nat /\ run.votes \in Nat /\ run.enhance \in Nat
           /\ run.evidence \in Nat /\ TextCalls = 1 + MaxFixRetries
           /\ MaxFixRetries \in Nat /\ VoteSamples \in Nat \ {0}
  BY QuestionAssumption DEF QuestionInv, RunOK, Run, Within, TextCalls

LEMMA OpenInv == QuestionInv /\ Open => QuestionInv'
  <1> SUFFICES ASSUME QuestionInv, Open PROVE QuestionInv'
    OBVIOUS
  <1>1. run.at = "start" /\ ~Over(run) /\ UNCHANGED <<calls, overrun, found>>
    BY DEF Open, Over
  <1>2. ASSUME NEW r \in Run, run' = r,
               \/ r = [run EXCEPT !.at = "router"]
               \/ \E tier \in {"declared", "clarification"} :
                     r = [run EXCEPT !.at = "ended", !.tier = tier]
        PROVE  QuestionInv'
    <2>1. /\ r.tokens = run.tokens /\ r.tier2 = run.tier2 /\ r.iteration = run.iteration
          /\ r.spec = run.spec /\ r.rows = run.rows
          /\ \/ r.at = "router" /\ r.tier = run.tier
             \/ r.at = "ended" /\ r.tier \in {"declared", "clarification"}
      BY <1>2, AtHand DEF Run
    <2>2. Within(r)
      BY <1>1, <2>1, AtHand DEF Within
    <2>3. Tiering(r, found')
      BY <1>1, <2>1, AtHand DEF Tiering, Within
    <2>4. Over(r) \/ Rest(r) <= Rest(run)
      BY <1>1, <2>1, RoundsAreCalls DEF Over, Rest
    <2> QED
      BY <1>1, <1>2, <2>1, <2>2, <2>3, <2>4, AtHand, FreeStepKeepsInv
  <1>3. /\ run' \in Run
        /\ \/ run' = [run EXCEPT !.at = "router"]
           \/ \E tier \in {"declared", "clarification"} :
                 run' = [run EXCEPT !.at = "ended", !.tier = tier]
    <2>1. /\ [run EXCEPT !.at = "router"] \in Run
          /\ \A tier \in {"declared", "clarification"} :
                [run EXCEPT !.at = "ended", !.tier = tier] \in Run
      BY AtHand DEF Run
    <2> QED
      BY <2>1 DEF Open, Goto
  <1> QED
    BY <1>2, <1>3

LEMMA RouteInv == QuestionInv /\ Route => QuestionInv'
  <1> SUFFICES ASSUME QuestionInv, Route PROVE QuestionInv'
    OBVIOUS
  <1>1. run.at = "router" /\ ~Over(run) /\ UNCHANGED found
    BY DEF Route, Over
  <1> PICK next \in {"spec", "generate"} : Call([run EXCEPT !.at = next])
    BY DEF Route
  <1> DEFINE r == [run EXCEPT !.at = next]
  <1>2. /\ r \in Run /\ r.at = next
        /\ r.tokens = run.tokens /\ r.tier2 = run.tier2 /\ r.iteration = run.iteration
        /\ r.spec = run.spec /\ r.rows = run.rows /\ r.tier = run.tier /\ r.t2c = run.t2c
    BY AtHand DEF Run
  <1>3. Call(r)
    OBVIOUS
  <1> HIDE DEF r
  <1>4. Within(r)
    BY <1>1, <1>2, AtHand DEF Within
  <1>5. Tiering(r, found)
    BY <1>1, <1>2, AtHand DEF Tiering, Within
  <1>6. ~Over(r) /\ Rest(r) + 1 <= Rest(run)
    BY <1>1, <1>2, RoundsAreCalls DEF Over, Rest
  <1> QED
    BY <1>1, <1>2, <1>3, <1>4, <1>5, <1>6, CallKeepsInv

LEMMA RunSpecInv == QuestionInv /\ RunSpec => QuestionInv'
  <1> SUFFICES ASSUME QuestionInv, RunSpec PROVE QuestionInv'
    OBVIOUS
  <1>1. run.at = "spec" /\ ~Over(run) /\ UNCHANGED <<calls, overrun>>
    BY DEF RunSpec, Over
  <1> PICK result \in Result :
        /\ run' = [run EXCEPT !.spec = result, !.rows = result,
                              !.tier = IF result = "none" THEN @ ELSE "spec",
                              !.at = IF result = "rows" THEN "answer" ELSE "generate"]
        /\ found' = (found \/ result = "rows")
    BY DEF RunSpec
  <1>2. /\ run' \in Run
        /\ run'.at = IF result = "rows" THEN "answer" ELSE "generate"
        /\ run'.tokens = run.tokens /\ run'.tier2 = run.tier2
        /\ run'.iteration = run.iteration /\ run'.t2c = run.t2c
        /\ run'.spec = result /\ run'.rows = result
        /\ run'.tier = IF result = "none" THEN run.tier ELSE "spec"
    <2> DEFINE tier == IF result = "none" THEN run.tier ELSE "spec"
               step == IF result = "rows" THEN "answer" ELSE "generate"
    <2>1. tier \in {"unanswered", "declared", "clarification", "spec", "text2cypher", "tier2"}
          /\ step \in {"answer", "generate"}
      BY AtHand DEF Run
    <2>2. run' = [run EXCEPT !.spec = result, !.rows = result, !.tier = tier, !.at = step]
      OBVIOUS
    <2> HIDE DEF tier, step
    <2>3. /\ run' \in Run /\ run'.at = step
          /\ run'.tokens = run.tokens /\ run'.tier2 = run.tier2
          /\ run'.iteration = run.iteration /\ run'.t2c = run.t2c
          /\ run'.spec = result /\ run'.rows = result /\ run'.tier = tier
      BY <2>1, <2>2, AtHand DEF Run
    <2> QED
      BY <2>3 DEF tier, step
  <1>3. found' \in BOOLEAN /\ (found' <=> result = "rows")
    BY <1>1, AtHand DEF Tiering
  <1>4. Within(run')
    BY <1>1, <1>2, AtHand DEF Within
  <1>5. Tiering(run', found')
    <2>1. CASE result = "rows"
      BY <1>1, <1>2, <1>3, <2>1, AtHand DEF Tiering, Within
    <2>2. CASE result # "rows"
      <3>1. result \in {"none", "empty"} /\ ~found' /\ run'.at = "generate"
        BY <1>2, <1>3, <2>2 DEF Result
      <3>2. run.tier = "unanswered" /\ ~run.tier2
        BY <1>1, AtHand DEF Tiering, Within
      <3> QED
        BY <1>2, <3>1, <3>2 DEF Tiering
    <2> QED
      BY <2>1, <2>2
  <1>6. Rest(run') <= Rest(run)
    BY <1>1, <1>2, RoundsAreCalls DEF Rest
  <1> QED
    BY <1>1, <1>2, <1>3, <1>4, <1>5, <1>6, FreeStepKeepsInv

LEMMA GenerateInv == QuestionInv /\ Generate => QuestionInv'
  <1> SUFFICES ASSUME QuestionInv, Generate PROVE QuestionInv'
    OBVIOUS
  <1> DEFINE r == [run EXCEPT !.at = "try", !.attempt = 0]
  <1>1. run.at = "generate" /\ ~Over(run) /\ UNCHANGED found /\ Call(r)
    BY DEF Generate, Over
  <1>2. /\ r \in Run /\ r.at = "try" /\ r.attempt = 0
        /\ r.tokens = run.tokens /\ r.tier2 = run.tier2 /\ r.iteration = run.iteration
        /\ r.spec = run.spec /\ r.rows = run.rows /\ r.tier = run.tier /\ r.t2c = run.t2c
    BY AtHand DEF Run
  <1> HIDE DEF r
  <1>3. Within(r)
    BY <1>1, <1>2, AtHand DEF Within
  <1>4. Tiering(r, found)
    BY <1>1, <1>2, AtHand DEF Tiering
  <1>5. ~Over(r) /\ Rest(r) + 1 <= Rest(run)
    BY <1>1, <1>2, AtHand DEF Over, Rest
  <1> QED
    BY <1>1, <1>2, <1>3, <1>4, <1>5, CallKeepsInv

LEMMA TryInv == QuestionInv /\ Try => QuestionInv'
  <1> SUFFICES ASSUME QuestionInv, Try PROVE QuestionInv'
    OBVIOUS
  <1>1. run.at = "try" /\ ~Over(run) /\ UNCHANGED <<calls, overrun>>
        /\ run.attempt <= MaxFixRetries
    BY AtHand DEF Try, Over, Within
  <1>2. ASSUME NEW result \in Result, run' = Returned(result),
               found' = (found \/ (result = "rows" /\ ~run.tier2))
        PROVE  QuestionInv'
    <2>1. CASE run.tier2
      <3>1. /\ run' \in Run /\ run'.at = "gathered" /\ run'.tokens = run.tokens
            /\ run'.tier2 = run.tier2 /\ run'.iteration = run.iteration
            /\ run'.tier = run.tier
        <4> DEFINE n == IF result = "none" THEN run.evidence ELSE run.evidence + 1
        <4>1. n \in Nat
          BY AtHand
        <4>2. run' = [run EXCEPT !.at = "gathered", !.attempt = 0, !.evidence = n]
          BY <1>2, <2>1 DEF Returned
        <4> HIDE DEF n
        <4> QED
          BY <4>1, <4>2, AtHand DEF Run
      <3>2. found' \in BOOLEAN /\ ~found'
        BY <1>2, <2>1, AtHand DEF Tiering
      <3>4. Within(run') /\ Tiering(run', found')
        BY <2>1, <3>1, <3>2, AtHand DEF Within, Tiering
      <3>3. Rest(run') <= Rest(run)
        BY <1>1, <3>1, AtHand DEF Rest
      <3> QED
        BY <1>1, <3>1, <3>2, <3>3, <3>4, FreeStepKeepsInv
    <2>2. CASE ~run.tier2
      <3>1. /\ run' \in Run /\ run'.at = "choose" /\ run'.tokens = run.tokens
            /\ run'.tier2 = run.tier2 /\ run'.iteration = run.iteration
            /\ run'.spec = run.spec /\ run'.rows = run.rows /\ run'.tier = run.tier
            /\ run'.t2c = result
        BY <1>2, <2>2, AtHand DEF Returned, Run, Result
      <3>2. found' = (result = "rows")
        BY <1>1, <1>2, <2>2, AtHand DEF Tiering
      <3>3. Within(run') /\ Tiering(run', found')
        BY <1>1, <2>2, <3>1, <3>2, AtHand DEF Within, Tiering
      <3>4. Rest(run') <= Rest(run)
        BY <1>1, <3>1, AtHand DEF Rest
      <3> QED
        BY <1>1, <3>1, <3>2, <3>3, <3>4, AtHand, FreeStepKeepsInv
    <2> QED
      BY <2>1, <2>2, AtHand DEF Run
  <1>3. ASSUME RetriesLeft, run' = [run EXCEPT !.at = "fix"], UNCHANGED found
        PROVE  QuestionInv'
    <2>1. /\ run' \in Run /\ run'.at = "fix" /\ run'.attempt = run.attempt
          /\ run'.tokens = run.tokens /\ run'.tier2 = run.tier2
          /\ run'.iteration = run.iteration /\ run'.spec = run.spec
          /\ run'.rows = run.rows /\ run'.tier = run.tier /\ run'.t2c = run.t2c
      BY <1>3, AtHand DEF Run
    <2>2. Within(run')
      BY <1>1, <1>3, <2>1, AtHand DEF Within, RetriesLeft
    <2>3. Tiering(run', found')
      BY <1>1, <1>3, <2>1, AtHand DEF Tiering
    <2>4. Rest(run') <= Rest(run)
      BY <1>1, <2>1, AtHand DEF Rest
    <2> QED
      BY <1>1, <1>3, <2>1, <2>2, <2>3, <2>4, AtHand, FreeStepKeepsInv
  <1>4. ASSUME run' = Returned("none"), UNCHANGED found PROVE QuestionInv'
    <2>1. "none" \in Result /\ found' = (found \/ ("none" = "rows" /\ ~run.tier2))
      BY <1>4, AtHand DEF Result
    <2> QED
      BY <1>2, <1>4, <2>1
  <1> QED
    BY <1>2, <1>3, <1>4 DEF Try, Result

LEMMA FixQueryInv == QuestionInv /\ FixQuery => QuestionInv'
  <1> SUFFICES ASSUME QuestionInv, FixQuery PROVE QuestionInv'
    OBVIOUS
  <1> DEFINE r == [run EXCEPT !.at = "try", !.attempt = @ + 1]
  <1>1. run.at = "fix" /\ ~Over(run) /\ UNCHANGED found /\ Call(r)
        /\ run.attempt < MaxFixRetries
    BY AtHand DEF FixQuery, Over, Within
  <1>2. /\ r \in Run /\ r.at = "try" /\ r.attempt = run.attempt + 1
        /\ r.tokens = run.tokens /\ r.tier2 = run.tier2 /\ r.iteration = run.iteration
        /\ r.spec = run.spec /\ r.rows = run.rows /\ r.tier = run.tier /\ r.t2c = run.t2c
    <2> DEFINE n == run.attempt + 1
    <2>1. n \in Nat /\ r = [run EXCEPT !.at = "try", !.attempt = n]
      BY AtHand
    <2> HIDE DEF n
    <2>2. /\ r \in Run /\ r.at = "try" /\ r.attempt = n
          /\ r.tokens = run.tokens /\ r.tier2 = run.tier2 /\ r.iteration = run.iteration
          /\ r.spec = run.spec /\ r.rows = run.rows /\ r.tier = run.tier /\ r.t2c = run.t2c
      BY <2>1, AtHand DEF Run
    <2> QED
      BY <2>2 DEF n
  <1> HIDE DEF r
  <1>3. Within(r)
    BY <1>1, <1>2, AtHand DEF Within
  <1>4. Tiering(r, found)
    BY <1>1, <1>2, AtHand DEF Tiering
  <1>5. ~Over(r) /\ Rest(r) + 1 <= Rest(run)
    BY <1>1, <1>2, AtHand DEF Over, Rest
  <1> QED
    BY <1>1, <1>2, <1>3, <1>4, <1>5, CallKeepsInv

\* The one step from Tier 1 to Tier 2.
LEMMA ChooseInv == QuestionInv /\ Choose => QuestionInv'
  <1> SUFFICES ASSUME QuestionInv, Choose PROVE QuestionInv'
    OBVIOUS
  <1>1. run.at = "choose" /\ ~Over(run) /\ ~run.tier2 /\ UNCHANGED <<calls, overrun, found>>
    BY AtHand DEF Choose, Over, Within, Quiet
  <1>2. run.spec \in {"none", "empty"} /\ run.rows = run.spec
        /\ run.tier = (IF run.spec = "none" THEN "unanswered" ELSE "spec")
        /\ (found <=> run.t2c = "rows") /\ run.t2c \in Result
    BY <1>1, AtHand DEF Tiering, Run
  <1>3. CASE Prefers
    <2>1. run' = [run EXCEPT !.at = "answer", !.rows = run.t2c, !.tier = "text2cypher"]
      BY <1>3 DEF Choose
    <2>2. /\ run' \in Run /\ run'.at = "answer" /\ run'.rows = run.t2c /\ run'.t2c = run.t2c
          /\ run'.tokens = run.tokens /\ run'.tier2 = run.tier2
          /\ run'.iteration = run.iteration /\ run'.tier = "text2cypher"
      BY <1>2, <2>1, AtHand DEF Run
    <2>3. Within(run') /\ Tiering(run', found')
      BY <1>1, <1>2, <2>2, AtHand DEF Within, Tiering
    <2>4. Rest(run') <= Rest(run)
      BY <1>1, <2>2 DEF Rest
    <2> QED
      BY <1>1, <2>2, <2>3, <2>4, AtHand, FreeStepKeepsInv
  <1>4. CASE ~Prefers /\ run.spec # "none"
    <2>1. run' = [run EXCEPT !.at = "answer"]
      BY <1>4 DEF Choose
    <2>2. /\ run' \in Run /\ run'.at = "answer" /\ run'.rows = run.rows /\ run'.spec = run.spec
          /\ run'.tokens = run.tokens /\ run'.tier2 = run.tier2
          /\ run'.iteration = run.iteration /\ run'.tier = run.tier
      BY <2>1, AtHand DEF Run
    <2>3. run.spec = "empty" /\ ~found
      BY <1>2, <1>4 DEF Prefers
    <2>4. Within(run') /\ Tiering(run', found')
      BY <1>1, <1>2, <2>2, <2>3, AtHand DEF Within, Tiering
    <2>5. Rest(run') <= Rest(run)
      BY <1>1, <2>2 DEF Rest
    <2> QED
      BY <1>1, <2>2, <2>4, <2>5, AtHand, FreeStepKeepsInv
  <1>5. CASE ~Prefers /\ run.spec = "none"
    <2>1. run' = [run EXCEPT !.at = "round", !.tier2 = TRUE]
      BY <1>5 DEF Choose
    <2>2. /\ run' \in Run /\ run'.at = "round" /\ run'.tier2 = TRUE
          /\ run'.tokens = run.tokens /\ run'.iteration = run.iteration /\ run'.tier = run.tier
      BY <2>1, AtHand DEF Run
    <2>3. ~found /\ run.tier = "unanswered"
      BY <1>2, <1>5 DEF Prefers
    <2>4. Within(run') /\ Tiering(run', found')
      BY <1>1, <2>2, <2>3, AtHand DEF Within, Tiering
    <2>5. RunOK /\ Counted /\ Overran
      BY <1>1 DEF QuestionInv
    <2>6. Rest(run') = 0 /\ Rest(run) = 0
      BY <1>1, <2>2 DEF Rest
    <2>7. Counted'
      BY <1>1, <2>2, <2>5, <2>6 DEF Counted
    <2>8. overrun = 0
      BY <1>1, <2>5 DEF Overran
    <2>9. Overran'
      BY <1>1, <2>6, <2>8, RoundsAreCalls DEF Overran
    <2>10. RunOK'
      BY <1>1, <2>2, <2>5 DEF RunOK
    <2> QED
      BY <2>2, <2>4, <2>7, <2>9, <2>10 DEF QuestionInv, Over
  <1> QED
    BY <1>3, <1>4, <1>5

LEMMA AnswerInv == QuestionInv /\ Answer => QuestionInv'
  <1> SUFFICES ASSUME QuestionInv, Answer PROVE QuestionInv'
    OBVIOUS
  <1> DEFINE r == [run EXCEPT !.at = "ended"]
  <1>1. run.at = "answer" /\ ~Over(run) /\ UNCHANGED found /\ Call(r)
    BY DEF Answer, Over
  <1>2. /\ r \in Run /\ r.at = "ended"
        /\ r.tokens = run.tokens /\ r.tier2 = run.tier2 /\ r.iteration = run.iteration
        /\ r.spec = run.spec /\ r.rows = run.rows /\ r.tier = run.tier /\ r.t2c = run.t2c
    BY AtHand DEF Run
  <1> HIDE DEF r
  <1>3. Within(r) /\ Tiering(r, found)
    BY <1>1, <1>2, AtHand DEF Within, Tiering
  <1> QED
    BY <1>1, <1>2, <1>3, CallKeepsInv

\* The head of a round: what was spent so far is below the budget, or the loop ends.
LEMMA RoundInv == QuestionInv /\ Round => QuestionInv'
  <1> SUFFICES ASSUME QuestionInv, Round PROVE QuestionInv'
    OBVIOUS
  <1>1. run.at = "round" /\ ~Over(run) /\ run.tier2 /\ UNCHANGED <<calls, overrun, found>>
    BY AtHand DEF Round, Over, Within, Quiet
  <1>2. RunOK /\ Counted /\ Overran /\ Rest(run) = 0
    BY <1>1 DEF QuestionInv, Rest
  <1>3. run.iteration \in Nat /\ MaxIterations \in Nat /\ calls \in Nat /\ overrun \in Nat
        /\ Base(run.iteration) \in Nat /\ RoundCalls = VoteSamples + 1 + TextCalls
        /\ Base(run.iteration + 1) = Base(run.iteration) + RoundCalls
        /\ calls <= Base(run.iteration) /\ TextCalls \in Nat /\ RoundCalls \in Nat
    BY <1>2, AtHand, BaseGrows, RoundsAreCalls, QuestionAssumption
       DEF Counted, RunOK, RoundCalls
  <1>4. CASE run.iteration = MaxIterations
    <2>1. run' = [run EXCEPT !.at = "close", !.forced = TRUE]
      BY <1>3, <1>4 DEF Round
    <2>2. /\ run' \in Run /\ run'.at = "close" /\ run'.tokens = run.tokens
          /\ run'.tier2 = run.tier2 /\ run'.iteration = run.iteration /\ run'.tier = run.tier
      BY <2>1, AtHand DEF Run
    <2>3. Within(run') /\ Tiering(run', found')
      BY <1>1, <2>2, AtHand DEF Within, Tiering
    <2>4. Rest(run') <= Rest(run)
      BY <1>2, <2>2 DEF Rest
    <2> QED
      BY <1>1, <2>2, <2>3, <2>4, AtHand, FreeStepKeepsInv
  <1>5. ASSUME run.iteration < MaxIterations, NEW r \in Run, run' = r,
               r.iteration = run.iteration + 1, r.tier2 = run.tier2, r.tokens = run.tokens,
               r.tier = run.tier,
               r.at = "close" \/ (r.at = "vote" /\ r.votes = 0 /\ ~OverBudget)
        PROVE  QuestionInv'
    <2>1. Within(r) /\ Tiering(r, found')
      BY <1>1, <1>3, <1>5, AtHand DEF Within, Tiering
    <2>2. RunOK' /\ (OverBudget' <=> OverBudget)
      BY <1>1, <1>2, <1>5 DEF RunOK, OverBudget
    <2>3. Rest(r) <= RoundCalls /\ Rest(r) \in Nat /\ (r.at = "close" => Rest(r) = 0)
      BY <1>3, <1>5, AtHand DEF Rest
    <2>4. Counted'
      BY <1>1, <1>3, <1>5, <2>3 DEF Counted
    <2>5. Overran'
      <3>1. CASE r.at = "close"
        BY <1>1, <1>2, <1>3, <1>5, <2>2, <2>3, <3>1 DEF Overran
      <3>2. CASE r.at = "vote" /\ ~OverBudget
        BY <1>1, <1>2, <1>3, <1>5, <2>2, <2>3, <3>2 DEF Overran
      <3> QED
        BY <1>5, <3>1, <3>2
    <2> QED
      BY <1>5, <2>1, <2>2, <2>4, <2>5 DEF QuestionInv, Over
  <1> DEFINE n == run.iteration + 1
  <1>6. n \in Nat
    BY <1>3
  <1>7. CASE run.iteration < MaxIterations /\ StopsHere
    <2>1. run' = [run EXCEPT !.at = "close", !.iteration = n, !.forced = TRUE,
                             !.exhausted = TRUE]
      BY <1>7, <1>3 DEF Round
    <2> HIDE DEF n
    <2>2. /\ run' \in Run /\ run'.at = "close" /\ run'.tokens = run.tokens
          /\ run'.tier2 = run.tier2 /\ run'.iteration = n /\ run'.tier = run.tier
      BY <1>6, <2>1, AtHand DEF Run
    <2> USE DEF n
    <2> QED
      BY <1>5, <1>7, <2>2
  <1>8. CASE run.iteration < MaxIterations /\ ~StopsHere
    <2>1. run' = [run EXCEPT !.at = "vote", !.iteration = n, !.votes = 0, !.enhance = 0]
      BY <1>8, <1>3 DEF Round
    <2> HIDE DEF n
    <2>2. /\ run' \in Run /\ run'.at = "vote" /\ run'.tokens = run.tokens
          /\ run'.tier2 = run.tier2 /\ run'.iteration = n /\ run'.tier = run.tier
          /\ run'.votes = 0
      BY <1>6, <2>1, AtHand DEF Run
    <2> USE DEF n
    <2> QED
      BY <1>5, <1>8, <2>2 DEF StopsHere
  <1> QED
    BY <1>3, <1>4, <1>7, <1>8, AtHand

LEMMA VotedIs ==
    ASSUME QuestionInv, run.at = "vote", NEW yes \in {0, 1}
    PROVE  LET r == Voted(yes) IN
           /\ r \in Run /\ r.tokens = run.tokens /\ r.tier2 = run.tier2
           /\ r.iteration = run.iteration /\ r.tier = run.tier
           /\ \/ r.at \in {"decompose", "close"}
              \/ r.at = "vote" /\ r.votes = run.votes + 1 /\ r.votes < VoteSamples
  <1>1. run.votes < VoteSamples
    BY AtHand DEF Within
  <1>2. CASE run.votes + 1 = VoteSamples
    <2> DEFINE step == IF run.enhance + yes > VoteSamples - (run.enhance + yes)
                       THEN "decompose" ELSE "close"
    <2>1. step \in {"decompose", "close"}
      OBVIOUS
    <2>2. Voted(yes) = [run EXCEPT !.votes = 0, !.enhance = 0, !.at = step]
      BY <1>2 DEF Voted, Decided
    <2> HIDE DEF step
    <2>3. /\ [run EXCEPT !.votes = 0, !.enhance = 0, !.at = step] \in Run
          /\ [run EXCEPT !.votes = 0, !.enhance = 0, !.at = step].at = step
      BY <2>1, AtHand DEF Run
    <2>4. /\ Voted(yes).tokens = run.tokens
          /\ Voted(yes).tier2 = run.tier2 /\ Voted(yes).iteration = run.iteration
          /\ Voted(yes).tier = run.tier
      BY <2>2, AtHand DEF Run
    <2> QED
      BY <2>1, <2>2, <2>3, <2>4
  <1>3. CASE run.votes + 1 # VoteSamples
    <2> DEFINE v == run.votes + 1
               h == run.enhance + yes
    <2>1. v \in Nat /\ h \in Nat /\ v < VoteSamples
      BY <1>1, <1>3, AtHand
    <2>2. Voted(yes) = [run EXCEPT !.votes = v, !.enhance = h]
      BY <1>3 DEF Voted
    <2> HIDE DEF v, h
    <2>3. /\ Voted(yes) \in Run /\ Voted(yes).tokens = run.tokens
          /\ Voted(yes).tier2 = run.tier2 /\ Voted(yes).iteration = run.iteration
          /\ Voted(yes).tier = run.tier /\ Voted(yes).at = "vote" /\ Voted(yes).votes = v
      BY <2>1, <2>2, AtHand DEF Run
    <2> QED
      BY <2>1, <2>3 DEF v
  <1> QED
    BY <1>2, <1>3

LEMMA VoteInv == QuestionInv /\ Vote => QuestionInv'
  <1> SUFFICES ASSUME QuestionInv, Vote PROVE QuestionInv'
    OBVIOUS
  <1>1. run.at = "vote" /\ ~Over(run) /\ run.tier2 /\ run.votes < VoteSamples
        /\ UNCHANGED found
    BY AtHand DEF Vote, Over, Within
  <1>2. ASSUME NEW yes \in {0, 1}
        PROVE  LET r == Voted(yes) IN
               /\ r \in Run /\ r.tokens = run.tokens /\ r.tier2 = run.tier2
               /\ r.iteration = run.iteration
               /\ Within(r) /\ Tiering(r, found) /\ ~Over(r) /\ Rest(r) + 1 <= Rest(run)
               /\ Rest(r) \in Nat /\ Rest(run) \in Nat
    <2> DEFINE r == Voted(yes)
    <2>1. /\ r \in Run /\ r.tokens = run.tokens /\ r.tier2 = run.tier2
          /\ r.iteration = run.iteration /\ r.tier = run.tier
          /\ \/ r.at \in {"decompose", "close"}
             \/ r.at = "vote" /\ r.votes = run.votes + 1 /\ r.votes < VoteSamples
      BY <1>1, VotedIs
    <2> HIDE DEF r
    <2>2. Within(r) /\ Tiering(r, found) /\ ~Over(r)
      BY <1>1, <2>1, AtHand DEF Within, Tiering, Over
    <2>3. Rest(r) + 1 <= Rest(run) /\ Rest(r) \in Nat /\ Rest(run) \in Nat
      BY <1>1, <2>1, AtHand DEF Rest
    <2>4. r = Voted(yes)
      BY DEF r
    <2> QED
      BY <2>1, <2>2, <2>3, <2>4
  <1>3. ASSUME NEW yes \in {0, 1}, Call(Voted(yes)) PROVE QuestionInv'
    BY <1>1, <1>2, <1>3, CallKeepsInv
  <1>4. ASSUME run' = Voted(0), UNCHANGED <<calls, overrun>> PROVE QuestionInv'
    <2>1. Rest(Voted(0)) <= Rest(run) /\ found' \in BOOLEAN
      BY <1>1, <1>2, AtHand
    <2> QED
      BY <1>1, <1>2, <1>4, <2>1, FreeStepKeepsInv
  <1> QED
    BY <1>3, <1>4 DEF Vote

LEMMA DecomposeInv == QuestionInv /\ Decompose => QuestionInv'
  <1> SUFFICES ASSUME QuestionInv, Decompose PROVE QuestionInv'
    OBVIOUS
  <1> DEFINE more == [run EXCEPT !.at = "generate"]
             last == [run EXCEPT !.at = "close", !.forced = TRUE]
  <1>1. run.at = "decompose" /\ ~Over(run) /\ run.tier2 /\ UNCHANGED found
    BY AtHand DEF Decompose, Over, Within
  <1>2. ASSUME NEW r \in {more, last}
        PROVE  /\ r \in Run /\ r.tokens = run.tokens /\ r.tier2 = run.tier2
               /\ r.iteration = run.iteration /\ r.tier = run.tier
               /\ r.at \in {"generate", "close"}
    BY AtHand DEF Run
  <1>3. ASSUME NEW r \in {more, last}
        PROVE  Within(r) /\ Tiering(r, found) /\ ~Over(r) /\ Rest(r) + 1 <= Rest(run)
               /\ Rest(r) <= Rest(run)
    <2>1. /\ r \in Run /\ r.tokens = run.tokens /\ r.tier2 = run.tier2
          /\ r.iteration = run.iteration /\ r.tier = run.tier
          /\ r.at \in {"generate", "close"}
      BY <1>2
    <2> HIDE DEF more, last
    <2>2. Within(r) /\ ~Over(r)
      BY <1>1, <2>1, AtHand DEF Within, Over
    <2>3. Tiering(r, found)
      BY <1>1, <2>1, AtHand DEF Tiering
    <2>4. Rest(r) + 1 <= Rest(run) /\ Rest(r) <= Rest(run)
      BY <1>1, <2>1, AtHand DEF Rest
    <2> QED
      BY <2>2, <2>3, <2>4
  <1>4. \/ \E r \in {more, last} : Call(r)
        \/ run' = last /\ UNCHANGED <<calls, overrun>>
    BY DEF Decompose
  <1> HIDE DEF more, last
  <1> QED
    BY <1>1, <1>2, <1>3, <1>4, AtHand, CallKeepsInv, FreeStepKeepsInv

LEMMA GatheredInv == QuestionInv /\ Gathered => QuestionInv'
  <1> SUFFICES ASSUME QuestionInv, Gathered PROVE QuestionInv'
    OBVIOUS
  <1>1. run.at = "gathered" /\ ~Over(run) /\ run.tier2 /\ UNCHANGED <<calls, overrun, found>>
        /\ run' = [run EXCEPT !.at = "round"]
    BY AtHand DEF Gathered, Goto, Quiet, Over, Within
  <1>2. /\ run' \in Run /\ run'.at = "round" /\ run'.tokens = run.tokens
        /\ run'.tier2 = run.tier2 /\ run'.iteration = run.iteration /\ run'.tier = run.tier
    BY <1>1, AtHand DEF Run
  <1>3. Within(run') /\ Tiering(run', found') /\ Rest(run') <= Rest(run)
    BY <1>1, <1>2, AtHand DEF Within, Tiering, Rest
  <1> QED
    BY <1>1, <1>2, <1>3, AtHand, FreeStepKeepsInv

LEMMA CloseInv == QuestionInv /\ Close => QuestionInv'
  <1> SUFFICES ASSUME QuestionInv, Close PROVE QuestionInv'
    OBVIOUS
  <1>1. run.at = "close" /\ ~Over(run) /\ run.tier2 /\ UNCHANGED <<calls, overrun, found>>
    BY AtHand DEF Close, Over, Within
  <1>2. /\ run' \in Run /\ run'.at \in {"ended", "solve"} /\ run'.tokens = run.tokens
        /\ run'.tier2 = run.tier2 /\ run'.iteration = run.iteration /\ run'.tier = run.tier
    <2> DEFINE x == run.exhausted \/ OverBudget
    <2>1. x \in BOOLEAN
      OBVIOUS
    <2>2. run' = [run EXCEPT !.at = "ended"] \/ run' = [run EXCEPT !.at = "solve", !.exhausted = x]
      BY DEF Close, Goto
    <2> HIDE DEF x
    <2> QED
      BY <2>1, <2>2, AtHand DEF Run
  <1>3. Within(run') /\ Tiering(run', found') /\ Rest(run') <= Rest(run)
    BY <1>1, <1>2, AtHand DEF Within, Tiering, Rest
  <1> QED
    BY <1>1, <1>2, <1>3, AtHand, FreeStepKeepsInv

LEMMA SolveInv == QuestionInv /\ Solve => QuestionInv'
  <1> SUFFICES ASSUME QuestionInv, Solve PROVE QuestionInv'
    OBVIOUS
  <1>1. run.at = "solve" /\ ~Over(run) /\ run.tier2 /\ UNCHANGED found
    BY AtHand DEF Solve, Over, Within
  <1>2. ASSUME NEW tier \in {"tier2", "unanswered"},
               Call([run EXCEPT !.at = "ended", !.tier = tier])
        PROVE  QuestionInv'
    <2> DEFINE r == [run EXCEPT !.at = "ended", !.tier = tier]
    <2>1. /\ r \in Run /\ r.at = "ended" /\ r.tokens = run.tokens /\ r.tier2 = run.tier2
          /\ r.iteration = run.iteration /\ r.tier = tier
      BY AtHand DEF Run
    <2>2. Call(r)
      BY <1>2
    <2> HIDE DEF r
    <2>3. Within(r) /\ Tiering(r, found)
      BY <1>1, <2>1, AtHand DEF Within, Tiering
    <2> QED
      BY <1>1, <2>1, <2>2, <2>3, CallKeepsInv
  <1>3. ASSUME run' = [run EXCEPT !.at = "ended"], UNCHANGED <<calls, overrun>>
        PROVE  QuestionInv'
    <2>1. /\ run' \in Run /\ run'.at = "ended" /\ run'.tokens = run.tokens
          /\ run'.tier2 = run.tier2 /\ run'.iteration = run.iteration /\ run'.tier = run.tier
      BY <1>3, AtHand DEF Run
    <2>2. Within(run') /\ Tiering(run', found') /\ Over(run')
      BY <1>1, <2>1, AtHand DEF Within, Tiering, Over
    <2> QED
      BY <1>1, <1>3, <2>1, <2>2, AtHand, FreeStepKeepsInv
  <1> QED
    BY <1>2, <1>3 DEF Solve, Goto

LEMMA RaisesInv == QuestionInv /\ Raises => QuestionInv'
  <1> SUFFICES ASSUME QuestionInv, Raises PROVE QuestionInv'
    OBVIOUS
  <1>1. ~Over(run) /\ UNCHANGED <<calls, overrun, found>> /\ run' = [run EXCEPT !.at = "failed"]
    BY DEF Raises, CallFails, Goto, Quiet, Over
  <1>2. /\ run' \in Run /\ run'.at = "failed" /\ run'.tokens = run.tokens
        /\ run'.tier2 = run.tier2 /\ run'.iteration = run.iteration /\ run'.tier = run.tier
    BY <1>1, AtHand DEF Run
  <1>3. Within(run') /\ Tiering(run', found') /\ Over(run')
    BY <1>1, <1>2, AtHand DEF Within, Tiering, Over
  <1> QED
    BY <1>1, <1>2, <1>3, AtHand, FreeStepKeepsInv

\* The stream and the user do nothing to the run.
LEMMA BystanderInv ==
    ASSUME QuestionInv, UNCHANGED <<run, calls, overrun, found>> PROVE QuestionInv'
  BY DEF QuestionInv, RunOK, Counted, Overran, OverBudget

LEMMA QuestionStepInv == QuestionInv /\ [QuestionNext]_questionVars => QuestionInv'
  <1> SUFFICES ASSUME QuestionInv, [QuestionNext]_questionVars PROVE QuestionInv'
    OBVIOUS
  <1>1. CASE Pipeline
    BY <1>1, OpenInv, RouteInv, RunSpecInv, GenerateInv, TryInv, FixQueryInv, ChooseInv,
       AnswerInv, RoundInv, VoteInv, DecomposeInv, GatheredInv, CloseInv, SolveInv, RaisesInv
       DEF Pipeline
  <1>2. CASE Bridge
    BY <1>2, BystanderInv DEF Bridge, Relay, AnswerDone, SendPayload
  <1>3. CASE HangUp
    BY <1>3, BystanderInv DEF HangUp
  <1>4. CASE UNCHANGED questionVars
    BY <1>4, BystanderInv DEF questionVars
  <1> QED
    BY <1>1, <1>2, <1>3, <1>4 DEF QuestionNext

\* The inductive invariant holds at every step of the pipeline (GraphQaPipeline, run_tier2).
THEOREM QuestionInvariant == QuestionSpec => []QuestionInv
  BY QuestionInitInv, QuestionStepInv, PTL DEF QuestionSpec

StreamOK == stream \in [at: {"relay", "drain", "sent", "gone"}, waiting: Nat]

\* Steps are posted one by one, and relayed while some are waiting.
LEMMA StreamStepType ==
    StreamOK /\ [QuestionNext]_questionVars => StreamOK'
  <1> SUFFICES ASSUME StreamOK, [QuestionNext]_questionVars PROVE StreamOK'
    OBVIOUS
  <1>1. ASSUME NEW n \in Nat, Post(n) PROVE StreamOK'
    BY <1>1 DEF Post, StreamOK
  <1>2. CASE UNCHANGED stream
    BY <1>2 DEF StreamOK
  <1>3. CASE Pipeline
    <2>1. (\E n \in Nat : Post(n)) \/ UNCHANGED stream
      <3>0. CASE Open
        <4>1. \A n \in 0 .. MaxClarified : n \in Nat /\ n + 1 \in Nat
          BY QuestionAssumption
        <4> QED
          BY <3>0, <4>1 DEF Open
      <3>1. CASE Route \/ Generate \/ FixQuery \/ Choose \/ Answer
        BY <3>1 DEF Route, Generate, FixQuery, Choose, Answer, Quiet
      <3>2. CASE RunSpec
        BY <3>2 DEF RunSpec
      <3>3. CASE Try
        BY <3>3 DEF Try
      <3>4. CASE Round \/ Vote \/ Decompose \/ Gathered \/ Close \/ Solve \/ Raises
        BY <3>4 DEF Round, Vote, Decompose, Gathered, Close, Solve, Raises, CallFails, Quiet
      <3> QED
        BY <1>3, <3>0, <3>1, <3>2, <3>3, <3>4 DEF Pipeline
    <2> QED
      BY <1>1, <1>2, <2>1
  <1>4. CASE Bridge \/ HangUp
    BY <1>4 DEF Bridge, Relay, AnswerDone, SendPayload, HangUp, StreamOK
  <1> QED
    BY <1>2, <1>3, <1>4 DEF QuestionNext, questionVars

LEMMA QuestionTyped ==
    QuestionInit /\ [][QuestionNext]_questionVars => []QuestionTypeOK
  <1>1. QuestionInit => StreamOK
    BY DEF QuestionInit, StreamOK
  <1>2. QuestionInv /\ StreamOK => QuestionTypeOK
    BY DEF QuestionInv, RunOK, QuestionTypeOK, StreamOK
  <1> QED
    BY <1>1, <1>2, StreamStepType, QuestionInitInv, QuestionStepInv, PTL

\* The envelope, the counts and the stream stay well formed (graph_qa, agent.py).
THEOREM QuestionTypeCorrect == QuestionSpec => []QuestionTypeOK
  BY QuestionTyped, PTL DEF QuestionSpec

LEMMA InvBounds == QuestionInv => CallsAreBounded /\ OverrunIsOneRound /\ AnswerFromRowsIfAny
  <1> SUFFICES ASSUME QuestionInv
               PROVE  CallsAreBounded /\ OverrunIsOneRound /\ AnswerFromRowsIfAny
    OBVIOUS
  <1>1. calls <= Base(MaxIterations) + 1 /\ overrun <= RoundCalls
    <2>1. CASE Over(run)
      BY <2>1 DEF QuestionInv
    <2>2. CASE ~Over(run)
      <3>1. Counted /\ Overran /\ RunOK
        BY <2>2 DEF QuestionInv
      <3>2. Rest(run) \in Nat /\ run.iteration \in 0 .. MaxIterations
            /\ Base(run.iteration) \in Nat /\ Base(MaxIterations) \in Nat
            /\ Base(run.iteration) <= Base(MaxIterations) /\ run.tier2 \in BOOLEAN
        BY AtHand, RestIsNat, BaseGrows, QuestionAssumption DEF Run
      <3>3. calls <= Base(MaxIterations) + 1
        BY <3>1, <3>2 DEF Counted, RunOK
      <3>4. overrun <= RoundCalls
        BY <3>1, <3>2, RoundsAreCalls DEF Overran, RunOK
      <3> QED
        BY <3>3, <3>4
    <2> QED
      BY <2>1, <2>2
  <1>2. CallsAreBounded
    BY <1>1, RoundsAreCalls DEF CallsAreBounded, Base
  <1>3. OverrunIsOneRound
    BY <1>1 DEF OverrunIsOneRound
  <1>4. AnswerFromRowsIfAny
    BY AtHand DEF AnswerFromRowsIfAny, Tiering
  <1> QED
    BY <1>2, <1>3, <1>4

\* The calls a question costs are bounded by the three limits of the code, whatever the
\* model replies (GraphQaPipeline, run_tier2).
THEOREM CostIsBounded == QuestionSpec => []CallsAreBounded
  BY QuestionInvariant, InvBounds, PTL

\* What is spent over the token budget is at most a round's calls, whatever a call costs
\* (run_tier2's check at the head of its loop).
THEOREM BudgetIsNearlyKept == QuestionSpec => []OverrunIsOneRound
  BY QuestionInvariant, InvBounds, PTL

\* Rows once found are what the answer is drawn from (GraphQaPipeline._answer).
THEOREM RowsAreNeverHidden == QuestionSpec => []AnswerFromRowsIfAny
  BY QuestionInvariant, InvBounds, PTL

----------------------------------------------------------------------------
(* ExportStream. *)

\* What the query matched and its ceiling decide of a stream that was drained.
ReadOut(d) ==
    /\ d.truncated = (d.ceiling # NoLimit /\ d.matched > d.ceiling)
    /\ d.sent = IF d.truncated THEN d.ceiling ELSE d.matched

\* From the filing of its manifest to the end.
Ending == {"filed", "evicting", "closed"}

\* Half way, what was sent and what is left are what the driver was asked for.
StreamInv(d) ==
    /\ d.at = "job" => d.sent = 0 /\ ~d.truncated
    /\ d.at = "rows" =>
          /\ ~d.truncated
          /\ d.sent + d.left = Probed(d.matched, d.ceiling)
          /\ d.ceiling # NoLimit => d.sent <= d.ceiling
    /\ d.at \in {"drained"} \union Ending => ReadOut(d)

\* A manifest is the copy of a download that is over.
Copies(m, d) ==
    /\ d.at \in Ending
    /\ m.row_count = d.sent /\ m.truncated = d.truncated /\ m.limit = d.ceiling

ExportInv ==
    /\ ExportTypeOK
    /\ \A e \in Export : StreamInv(download[e])
    /\ \A i \in DOMAIN ledger : Copies(ledger[i], download[ledger[i].id])

\* The driver is never asked for more rows than there are.
LEMMA ProbedType ==
    ASSUME NEW matched \in 0 .. MaxRows, NEW ceiling \in Limit
    PROVE  Probed(matched, ceiling) \in 0 .. MaxRows
  BY ExportAssumption DEF Limit, Probed

LEMMA EntriesAreManifests ==
    ASSUME ExportInv, NEW i \in DOMAIN ledger
    PROVE  ledger[i] \in Manifest /\ ledger[i].id \in Export
  <1>1. ledger \in Seq(Manifest)
    BY DEF ExportInv, ExportTypeOK
  <1>2. i \in 1 .. Len(ledger)
    BY <1>1
  <1>3. ledger[i] \in Manifest
    BY <1>1, <1>2
  <1> QED
    BY <1>3 DEF Manifest

LEMMA UnbornIsFresh == Unborn \in Download /\ StreamInv(Unborn) /\ Unborn.at = "none"
  BY ExportAssumption DEF Unborn, Download, Limit, StreamInv, Ending

LEMMA ExportInitInv == ExportInit => ExportInv
  BY UnbornIsFresh DEF ExportInit, ExportInv, ExportTypeOK

\* A step that moves one download, which was not over, and leaves the ledger alone.
LEMMA MoveKeepsInv ==
    ASSUME ExportInv, NEW e \in Export, NEW d \in Download, StreamInv(d),
           download[e].at \notin Ending,
           download' = [download EXCEPT ![e] = d], UNCHANGED ledger
    PROVE  ExportInv'
  <1>1. ExportTypeOK'
    BY DEF ExportInv, ExportTypeOK
  <1>2. ASSUME NEW f \in Export PROVE StreamInv(download'[f])
    BY DEF ExportInv, ExportTypeOK
  <1>3. ASSUME NEW i \in DOMAIN ledger PROVE Copies(ledger[i], download'[ledger[i].id])
    <2>1. ledger[i].id \in Export
      BY EntriesAreManifests
    <2>2. ledger[i].id # e
      BY DEF ExportInv, Copies
    <2> QED
      BY <2>1, <2>2 DEF ExportInv, ExportTypeOK
  <1> QED
    BY <1>1, <1>2, <1>3 DEF ExportInv

\* A request within its rights makes a job with its ceiling.
LEMMA ExportSpecInv ==
    ASSUME ExportInv, NEW e \in Export, ExportSpec(e) PROVE ExportInv'
  <1> PICK ephemeral \in BOOLEAN, display \in Limit, requested \in Limit :
          download' = [download EXCEPT ![e] =
              [Unborn EXCEPT !.at = "job", !.ceiling = Ceiling(display, requested)]]
    BY DEF ExportSpec
  <1> DEFINE d == [Unborn EXCEPT !.at = "job", !.ceiling = Ceiling(display, requested)]
  <1>1. Ceiling(display, requested) \in Limit
    BY DEF Ceiling
  <1>2. d \in Download
    BY <1>1, UnbornIsFresh DEF Download
  <1>3. d.at = "job" /\ d.sent = 0 /\ ~d.truncated
    BY DEF Unborn
  <1>4. StreamInv(d)
    BY <1>3 DEF StreamInv, Ending
  <1> QED
    BY <1>2, <1>4, MoveKeepsInv DEF ExportSpec, Ending

LEMMA OpenStreamInv ==
    ASSUME ExportInv, NEW e \in Export, OpenStream(e) PROVE ExportInv'
  <1> PICK matched \in 0 .. MaxRows :
          download' = [download EXCEPT ![e].at = "rows", ![e].matched = matched,
                                       ![e].left = Probed(matched, download[e].ceiling)]
    BY DEF OpenStream
  <1> DEFINE d == [download[e] EXCEPT !.at = "rows", !.matched = matched,
                                      !.left = Probed(matched, download[e].ceiling)]
  <1>1. download[e] \in Download /\ StreamInv(download[e]) /\ download[e].at = "job"
    BY DEF ExportInv, ExportTypeOK, OpenStream
  <1>2. Probed(matched, download[e].ceiling) \in 0 .. MaxRows
    BY <1>1, ProbedType DEF Download
  <1>3. d \in Download
    BY <1>1, <1>2 DEF Download
  <1>4. d.at = "rows" /\ ~d.truncated /\ d.sent = 0 /\ d.matched = matched
        /\ d.left = Probed(matched, download[e].ceiling) /\ d.ceiling = download[e].ceiling
    BY <1>1 DEF Download, StreamInv, Ending
  <1>5. StreamInv(d)
    <2>1. d.ceiling # NoLimit => 0 <= d.ceiling
      BY <1>1, <1>4, ExportAssumption DEF Download, Limit
    <2> QED
      BY <1>2, <1>4, <2>1 DEF StreamInv, Ending
  <1>6. download' = [download EXCEPT ![e] = d]
    BY DEF ExportInv, ExportTypeOK
  <1> QED
    BY <1>1, <1>3, <1>5, <1>6, MoveKeepsInv DEF OpenStream, Ending

\* A row goes out, or it is the one past the ceiling.
LEMMA NextRowInv ==
    ASSUME ExportInv, NEW e \in Export, NextRow(e) PROVE ExportInv'
  <1> DEFINE d == download[e]
             over == [d EXCEPT !.at = "drained", !.truncated = TRUE]
             more == [d EXCEPT !.left = @ - 1, !.sent = @ + 1]
  <1>1. d \in Download /\ StreamInv(d) /\ d.at = "rows" /\ d.left > 0
    BY DEF ExportInv, ExportTypeOK, NextRow
  <1>2. Probed(d.matched, d.ceiling) \in 0 .. MaxRows
    BY <1>1, ProbedType DEF Download
  <1>3. d.sent \in Nat /\ d.left \in Nat /\ d.matched \in Nat /\ d.ceiling \in Limit
        /\ d.sent + d.left = Probed(d.matched, d.ceiling)
        /\ (d.ceiling # NoLimit => d.ceiling \in Nat /\ d.sent <= d.ceiling)
    BY <1>1, ExportAssumption DEF Download, StreamInv, Ending, Limit
  <1>4. CASE AtCeiling(d)
    <2>1. over \in Download
      BY <1>1 DEF Download
    <2>2. d.sent = d.ceiling /\ d.matched > d.ceiling /\ d.ceiling # NoLimit
      BY <1>1, <1>3, <1>4 DEF AtCeiling, Probed
    <2>3. over.at = "drained" /\ over.truncated = TRUE /\ over.sent = d.sent
          /\ over.matched = d.matched /\ over.ceiling = d.ceiling
      BY <1>1 DEF Download
    <2>4. StreamInv(over)
      BY <2>2, <2>3 DEF StreamInv, Ending, ReadOut
    <2>5. download' = [download EXCEPT ![e] = over] /\ UNCHANGED ledger
      BY <1>1, <1>4 DEF NextRow, ExportInv, ExportTypeOK
    <2> QED
      BY <1>1, <2>1, <2>4, <2>5, MoveKeepsInv DEF Ending
  <1>5. CASE ~AtCeiling(d)
    <2>1. d.left - 1 \in 0 .. MaxRows /\ d.sent + 1 \in 0 .. MaxRows
      BY <1>1, <1>2, <1>3, ExportAssumption DEF Download
    <2>2. more \in Download
      BY <1>1, <2>1 DEF Download
    <2>3. more.at = "rows" /\ more.truncated = d.truncated /\ more.sent = d.sent + 1
          /\ more.left = d.left - 1 /\ more.matched = d.matched /\ more.ceiling = d.ceiling
      BY <1>1 DEF Download
    <2>4. more.ceiling # NoLimit => more.sent <= more.ceiling
      BY <1>3, <1>5, <2>3 DEF AtCeiling
    <2>5. more.sent + more.left = Probed(more.matched, more.ceiling)
      BY <1>3, <2>3
    <2>6. ~more.truncated
      BY <1>1, <2>3 DEF StreamInv, Ending
    <2>7. StreamInv(more)
      BY <2>3, <2>4, <2>5, <2>6 DEF StreamInv, Ending
    <2>8. download' = [download EXCEPT ![e] = more] /\ UNCHANGED ledger
      <3>1. download' = [download EXCEPT ![e] = IF AtCeiling(d) THEN over ELSE more]
        BY DEF NextRow
      <3> HIDE DEF more
      <3> QED
        BY <1>5, <3>1 DEF NextRow
    <2> QED
      BY <1>1, <2>2, <2>7, <2>8, MoveKeepsInv DEF Ending
  <1> QED
    BY <1>4, <1>5

\* The driver has no more: had the query matched more than the ceiling, there would be.
LEMMA NoMoreRowsInv ==
    ASSUME ExportInv, NEW e \in Export, NoMoreRows(e) PROVE ExportInv'
  <1> DEFINE d == download[e]
             done == [d EXCEPT !.at = "drained"]
  <1>1. d \in Download /\ StreamInv(d) /\ d.at = "rows" /\ d.left = 0
    BY DEF ExportInv, ExportTypeOK, NoMoreRows
  <1>2. d.sent \in Nat /\ d.matched \in Nat /\ d.sent + 0 = Probed(d.matched, d.ceiling)
        /\ (d.ceiling # NoLimit => d.ceiling \in Nat /\ d.sent <= d.ceiling)
    BY <1>1, ExportAssumption DEF Download, StreamInv, Ending, Limit
  <1>3. ~(d.ceiling # NoLimit /\ d.matched > d.ceiling) /\ d.sent = d.matched
    BY <1>2 DEF Probed
  <1>4. done \in Download
    BY <1>1 DEF Download
  <1>5. done.at = "drained" /\ done.truncated = FALSE /\ done.sent = d.sent
        /\ done.matched = d.matched /\ done.ceiling = d.ceiling
    BY <1>1 DEF Download, StreamInv, Ending
  <1>6. StreamInv(done)
    <2>1. ~(done.ceiling # NoLimit /\ done.matched > done.ceiling)
      BY <1>3, <1>5
    <2>2. done.sent = IF done.truncated THEN done.ceiling ELSE done.matched
      BY <1>3, <1>5
    <2>3. ReadOut(done)
      <3>1. (done.ceiling # NoLimit /\ done.matched > done.ceiling) = FALSE
        BY <2>1
      <3> HIDE DEF done
      <3> QED
        BY <1>5, <2>2, <3>1, Zenon DEF ReadOut
    <2> QED
      BY <1>5, <2>3 DEF StreamInv, Ending
  <1>7. download' = [download EXCEPT ![e] = done]
    BY DEF NoMoreRows, ExportInv, ExportTypeOK
  <1> QED
    BY <1>1, <1>4, <1>6, <1>7, MoveKeepsInv DEF NoMoreRows, Ending

LEMMA AbandonInv ==
    ASSUME ExportInv, NEW e \in Export, Abandon(e) PROVE ExportInv'
  <1> DEFINE d == [download[e] EXCEPT !.at = "abandoned"]
  <1>1. download[e] \in Download /\ download[e].at \notin Ending
    BY DEF ExportInv, ExportTypeOK, Abandon, Ending
  <1>2. d \in Download /\ d.at = "abandoned"
    BY <1>1 DEF Download
  <1>3. StreamInv(d)
    BY <1>2 DEF StreamInv, Ending
  <1>4. download' = [download EXCEPT ![e] = d]
    BY DEF Abandon, ExportInv, ExportTypeOK
  <1> QED
    BY <1>1, <1>2, <1>3, <1>4, MoveKeepsInv DEF Abandon, Ending

\* A step that takes one download on behind its manifest, and adds nothing to the ledger.
LEMMA EndKeepsInv ==
    ASSUME ExportInv, NEW e \in Export, download[e].at \in Ending, NEW at \in Ending,
           download' = [download EXCEPT ![e].at = at],
           ledger' \in Seq(Manifest),
           \A i \in DOMAIN ledger' : \E k \in DOMAIN ledger : ledger'[i] = ledger[k]
    PROVE  ExportInv'
  <1> DEFINE d == [download[e] EXCEPT !.at = at]
  <1>1. download[e] \in Download /\ StreamInv(download[e]) /\ ReadOut(download[e])
    BY DEF ExportInv, ExportTypeOK, StreamInv, Ending
  <1>2. d \in Download
    BY <1>1 DEF Download, Ending
  <1>3. d.at = at /\ d.truncated = download[e].truncated /\ d.sent = download[e].sent
        /\ d.matched = download[e].matched /\ d.ceiling = download[e].ceiling
    BY <1>1 DEF Download
  <1>4. StreamInv(d)
    BY <1>1, <1>3 DEF StreamInv, ReadOut, Ending
  <1>5. download' = [download EXCEPT ![e] = d]
    BY DEF ExportInv, ExportTypeOK
  <1>6. ExportTypeOK'
    BY <1>2, <1>5 DEF ExportInv, ExportTypeOK
  <1>7. \A f \in Export : StreamInv(download'[f])
    BY <1>4, <1>5 DEF ExportInv, ExportTypeOK
  <1>8. ASSUME NEW m, Copies(m, download[m.id]), m.id \in Export
        PROVE  Copies(m, download'[m.id])
    <2>1. CASE m.id = e
      BY <1>3, <1>5, <1>8, <2>1 DEF Copies, ExportInv, ExportTypeOK
    <2>2. CASE m.id # e
      BY <1>5, <1>8, <2>2 DEF ExportInv, ExportTypeOK
    <2> QED
      BY <2>1, <2>2
  <1>9. ASSUME NEW i \in DOMAIN ledger' PROVE Copies(ledger'[i], download'[ledger'[i].id])
    <2>1. PICK k \in DOMAIN ledger : ledger'[i] = ledger[k]
      OBVIOUS
    <2>2. Copies(ledger[k], download[ledger[k].id]) /\ ledger[k].id \in Export
      BY EntriesAreManifests DEF ExportInv
    <2> QED
      BY <1>8, <2>1, <2>2
  <1> QED
    BY <1>6, <1>7, <1>9 DEF ExportInv

\* The manifest is filed.
LEMMA CompleteInv ==
    ASSUME ExportInv, NEW e \in Export, Complete(e) PROVE ExportInv'
  <1> DEFINE d == download[e]
             m == [id |-> e, row_count |-> d.sent, truncated |-> d.truncated,
                   limit |-> d.ceiling]
             done == [d EXCEPT !.at = "filed"]
  <1>1. d \in Download /\ StreamInv(d) /\ d.at = "drained" /\ ledger \in Seq(Manifest)
    BY DEF ExportInv, ExportTypeOK, Complete
  <1>2. done \in Download
    BY <1>1 DEF Download
  <1>3. done.at = "filed" /\ done.truncated = d.truncated /\ done.sent = d.sent
        /\ done.matched = d.matched /\ done.ceiling = d.ceiling
    BY <1>1 DEF Download
  <1>4. StreamInv(done)
    BY <1>1, <1>3 DEF StreamInv, Ending, ReadOut
  <1>5. download' = [download EXCEPT ![e] = done]
    BY DEF Complete, ExportInv, ExportTypeOK
  <1>6. m \in Manifest
    BY <1>1 DEF Manifest, Download
  <1>7. ledger' = Append(ledger, m)
    BY DEF Complete
  <1>8. ledger' \in Seq(Manifest) /\ Len(ledger') = Len(ledger) + 1
    BY <1>1, <1>6, <1>7
  <1>9. ASSUME NEW i \in 1 .. Len(ledger') PROVE Copies(ledger'[i], download'[ledger'[i].id])
    <2>1. CASE i = Len(ledger')
      <3>1. ledger'[i] = m
        BY <1>1, <1>6, <1>7, <1>8, <2>1
      <3> QED
        BY <1>3, <1>5, <3>1 DEF Copies, Ending, ExportInv, ExportTypeOK
    <2>2. CASE i # Len(ledger')
      <3>1. i \in 1 .. Len(ledger) /\ ledger'[i] = ledger[i]
        BY <1>1, <1>6, <1>7, <1>8, <1>9, <2>2
      <3>2. Copies(ledger[i], download[ledger[i].id]) /\ ledger[i].id \in Export
        BY <1>1, <3>1, EntriesAreManifests DEF ExportInv
      <3>3. ledger[i].id # e
        BY <1>1, <3>2 DEF Copies, Ending
      <3> QED
        BY <1>5, <3>1, <3>2, <3>3 DEF ExportInv, ExportTypeOK
    <2> QED
      BY <2>1, <2>2
  <1>10. download' \in [Export -> Download] /\ \A f \in Export : StreamInv(download'[f])
    BY <1>2, <1>4, <1>5 DEF ExportInv, ExportTypeOK
  <1>11. DOMAIN ledger' = 1 .. Len(ledger')
    BY <1>8
  <1> QED
    BY <1>8, <1>9, <1>10, <1>11 DEF ExportInv, ExportTypeOK

LEMMA MeasureLedgerInv ==
    ASSUME ExportInv, NEW e \in Export, MeasureLedger(e) PROVE ExportInv'
  <1> DEFINE at == IF Len(ledger) > LedgerCapacity THEN "evicting" ELSE "closed"
  <1>1. download[e].at \in Ending /\ at \in Ending
    BY DEF MeasureLedger, Ending
  <1>2. download' = [download EXCEPT ![e].at = at] /\ ledger' = ledger
    BY DEF MeasureLedger
  <1>3. ledger' \in Seq(Manifest)
    BY <1>2 DEF ExportInv, ExportTypeOK
  <1> HIDE DEF at
  <1> QED
    BY <1>1, <1>2, <1>3, EndKeepsInv

\* The oldest manifest goes, whoever filed it.
LEMMA PopOldestInv ==
    ASSUME ExportInv, NEW e \in Export, PopOldest(e) PROVE ExportInv'
  <1>1. ledger \in Seq(Manifest) /\ download[e].at \in Ending /\ "filed" \in Ending
    BY DEF ExportInv, ExportTypeOK, PopOldest, Ending
  <1>2. CASE ledger = <<>>
    <2> DEFINE d == [download[e] EXCEPT !.at = "abandoned"]
    <2>1. d \in Download /\ d.at = "abandoned"
      BY DEF ExportInv, ExportTypeOK, Download
    <2>2. StreamInv(d)
      BY <2>1 DEF StreamInv, Ending
    <2>3. download' = [download EXCEPT ![e] = d] /\ ledger' = <<>>
      BY <1>2 DEF PopOldest, ExportInv, ExportTypeOK
    <2>4. download' \in [Export -> Download] /\ \A f \in Export : StreamInv(download'[f])
      BY <2>1, <2>2, <2>3 DEF ExportInv, ExportTypeOK
    <2>5. ledger' \in Seq(Manifest) /\ DOMAIN ledger' = {}
      BY <2>3
    <2> QED
      BY <2>4, <2>5 DEF ExportInv, ExportTypeOK
  <1>3. CASE ledger # <<>>
    <2>1. ledger' = Tail(ledger) /\ download' = [download EXCEPT ![e].at = "filed"]
      BY <1>3 DEF PopOldest
    <2>2. ledger' \in Seq(Manifest) /\ Len(ledger') = Len(ledger) - 1
      BY <1>1, <1>3, <2>1
    <2>3. ASSUME NEW i \in DOMAIN ledger'
          PROVE  \E k \in DOMAIN ledger : ledger'[i] = ledger[k]
      <3>1. i \in 1 .. Len(ledger) - 1 /\ i + 1 \in DOMAIN ledger
        BY <1>1, <2>2
      <3>2. ledger'[i] = ledger[i + 1]
        BY <1>1, <1>3, <2>1, <3>1
      <3> QED
        BY <3>1, <3>2
    <2> QED
      BY <1>1, <2>1, <2>2, <2>3, EndKeepsInv
  <1> QED
    BY <1>2, <1>3

LEMMA ExportStepInv == ExportInv /\ [ExportNext]_exportVars => ExportInv'
  <1> SUFFICES ASSUME ExportInv, [ExportNext]_exportVars PROVE ExportInv'
    OBVIOUS
  <1>1. CASE ExportNext
    BY <1>1, ExportSpecInv, OpenStreamInv, NextRowInv, NoMoreRowsInv, CompleteInv,
       MeasureLedgerInv, PopOldestInv, AbandonInv DEF ExportNext
  <1>2. CASE UNCHANGED exportVars
    BY <1>2 DEF exportVars, ExportInv, ExportTypeOK
  <1> QED
    BY <1>1, <1>2

\* The inductive invariant holds of every download and manifest (export_spec).
THEOREM ExportInvariant == ExportStreamSpec => []ExportInv
  BY ExportInitInv, ExportStepInv, PTL DEF ExportStreamSpec

\* Downloads and manifests are well formed; no count ever passes what the query matched
\* (export_spec, bounded).
THEOREM ExportTypeCorrect == ExportStreamSpec => []ExportTypeOK
  BY ExportInvariant, PTL DEF ExportInv

\* A copy of a drained stream tells the whole of it.
LEMMA CopiesTellTheWhole == ExportInv => ManifestTellsTheWholeStream
  <1> SUFFICES ASSUME ExportInv, NEW i \in DOMAIN ledger
               PROVE  LET m == ledger[i]
                          d == download[m.id]
                      IN  /\ d.at \in {"filed", "evicting", "closed"} /\ m.row_count = d.sent
                          /\ m.truncated = (m.limit # NoLimit /\ d.matched > m.limit)
                          /\ m.row_count = IF m.truncated THEN m.limit ELSE d.matched
    BY DEF ManifestTellsTheWholeStream
  <1>1. ledger[i].id \in Export
    BY EntriesAreManifests
  <1>2. Copies(ledger[i], download[ledger[i].id]) /\ StreamInv(download[ledger[i].id])
    BY <1>1 DEF ExportInv
  <1> QED
    BY <1>2 DEF Copies, StreamInv, ReadOut, Ending

\* Whatever clients hang up and streams fail, and however many run at once, a manifest
\* in the ledger describes a file that went out whole, and is marked truncated exactly
\* when the query matched more (export_spec, ExportLedger.complete).
THEOREM ManifestsAreTrue == ExportStreamSpec => []ManifestTellsTheWholeStream
  BY ExportInvariant, CopiesTellTheWhole, PTL

----------------------------------------------------------------------------
(* Accounts: types. *)

LEMMA IdleTyped == Idle \in Request /\ Idle.at = "idle" /\ Empty \in KeyTable
  <1>1. Empty \in KeyTable
    BY DEF Empty, KeyTable
  <1>2. (CHOOSE t \in Token : TRUE) \in Token
    BY TokenAssumption
  <1> QED
    BY <1>1, <1>2, WritesAssumption DEF Idle, Request

\* A request that goes on keeps its types.
LEMMA ProceedTyped ==
    ASSUME AccountsTypeOK, NEW w \in Worker, NEW n \in Request, Proceed(w, n)
    PROVE  request' \in [Worker -> Request]
  BY DEF AccountsTypeOK, Proceed

LEMMA StampTyped ==
    ASSUME file \in File
    PROVE  Stamp(file) \in 0 .. MaxWrites
  BY WritesAssumption DEF File, Stamp

LEMMA PastTyped ==
    ASSUME request \in [Worker -> Request], NEW w \in Worker,
           NEW step \in {"stat", "issue", "serve"}
    PROVE  /\ Past(w, step) \in Request /\ Past(w, step).at = step
           /\ Past(w, step).who = request[w].who /\ Past(w, step).secret = request[w].secret
  <1>1. request[w] \in Request
    OBVIOUS
  <1>2. {} \in SUBSET KeyTable
    OBVIOUS
  <1> QED
    BY <1>1, <1>2 DEF Past, Request

LEMMA ConsultTyped ==
    ASSUME request \in [Worker -> Request], NEW w \in Worker
    PROVE  Consult(w, "verify") \in Request /\ Consult(w, "verify").at = "stat"
  <1>1. Past(w, "stat") \in Request /\ Past(w, "stat").at = "stat"
    BY PastTyped
  <1> QED
    BY <1>1 DEF Consult, Request

\* A write is seen by every request under way and changes none otherwise.
LEMMA WriteTyped ==
    ASSUME AccountsTypeOK, NEW f \in File, Write(f)
    PROVE  /\ file' \in File /\ request' \in [Worker -> Request]
           /\ file'.there = f.there /\ file'.readable = f.readable /\ file'.keys = f.keys
           /\ file'.write = file.write + 1
           /\ \A w \in Worker :
                 /\ request'[w].at = request[w].at /\ request'[w].seen = request[w].seen
                 /\ request'[w].loaded = request[w].loaded /\ request'[w].of = request[w].of
                 /\ request'[w].asks = request[w].asks
                 /\ request'[w].lawful =
                       IF request[w].at \in {"load", "assign", "stamp", "check"}
                       THEN request[w].lawful \union {Lawful(f)} ELSE request[w].lawful
  <1>1. file \in File /\ copy \in Copy /\ request \in [Worker -> Request]
    BY DEF AccountsTypeOK
  <1>2. file.write + 1 \in 0 .. MaxWrites
    BY <1>1, WritesAssumption DEF Write, File
  <1>3. /\ file' \in File
        /\ file'.there = f.there /\ file'.readable = f.readable /\ file'.keys = f.keys
        /\ file'.write = file.write + 1
    BY <1>2 DEF Write, File
  <1>4. Lawful(f) \in KeyTable
    BY <1>1 DEF Lawful, File, Copy
  <1> DEFINE law == Lawful(f)
             later(q) == IF q.at \in {"load", "assign", "stamp", "check"}
                       THEN [q EXCEPT !.lawful = q.lawful \union {law}] ELSE q
  <1>5. request' = [w \in Worker |-> later(request[w])]
    BY DEF Write
  <1>6. law \in KeyTable
    BY <1>4
  <1> HIDE DEF law
  <1>7. ASSUME NEW q \in Request
        PROVE  /\ later(q) \in Request /\ later(q).at = q.at /\ later(q).seen = q.seen
               /\ later(q).loaded = q.loaded /\ later(q).of = q.of /\ later(q).asks = q.asks
               /\ later(q).lawful = IF q.at \in {"load", "assign", "stamp", "check"}
                                  THEN q.lawful \union {law} ELSE q.lawful
    <2>1. q.lawful \union {law} \in SUBSET KeyTable
      BY <1>6 DEF Request
    <2> QED
      BY <2>1 DEF Request
  <1> HIDE DEF later
  <1>8. request' \in [Worker -> Request]
    BY <1>1, <1>5, <1>7
  <1> QED
    BY <1>1, <1>3, <1>5, <1>7, <1>8 DEF law

\* What the operator's writes leave.
LEMMA WritesLeave ==
    ASSUME AccountsTypeOK, HandEdit \/ \E o \in Operator : ToolSave(o)
    PROVE  \E f \in File :
              /\ Write(f) /\ (~f.there => f.keys = Empty /\ f.readable)
              /\ UNCHANGED <<copy, overlapped>>
  <1>1. /\ file \in File /\ Empty \in KeyTable
        /\ \A o \in Operator : tool[o].keys \in KeyTable
    BY IdleTyped DEF AccountsTypeOK
  <1>2. ASSUME NEW o \in Operator, ToolSave(o)
        PROVE  \E f \in File :
                  /\ Write(f) /\ (~f.there => f.keys = Empty /\ f.readable)
                  /\ UNCHANGED <<copy, overlapped>>
    <2> DEFINE f == [file EXCEPT !.there = TRUE, !.readable = TRUE, !.keys = tool[o].keys]
    <2>1. f \in File /\ f.there
      BY <1>1 DEF File
    <2>2. Write(f) /\ UNCHANGED <<copy, overlapped>>
      BY <1>2 DEF ToolSave
    <2> HIDE DEF f
    <2> QED
      BY <2>1, <2>2
  <1>3. CASE HandEdit
    <2> DEFINE f == [file EXCEPT !.there = FALSE, !.readable = TRUE, !.keys = Empty]
               g == [file EXCEPT !.readable = FALSE]
    <2>1. f \in File /\ f.keys = Empty /\ f.readable /\ g \in File /\ g.there = file.there
      BY <1>1 DEF File
    <2>2. (Write(f) \/ Write(g)) /\ file.there /\ UNCHANGED <<copy, overlapped>>
      BY <1>3 DEF HandEdit
    <2> HIDE DEF f, g
    <2> QED
      BY <2>1, <2>2
  <1> QED
    BY <1>2, <1>3

\* What a refresh's steps make of their request.
LEMMA RefreshMoves ==
    ASSUME AccountsTypeOK, NEW w \in Worker
    PROVE  /\ Stat(w) =>
                 LET q == request'[w]
                 IN  /\ q \in Request /\ Proceed(w, q) /\ q.lawful = {Lawful(file)}
                     /\ \/ q.at = "check" /\ copy.stamp = Stamp(file)
                        \/ /\ q.at = "assign" /\ Stamp(file) = 0 /\ q.seen = 0
                           /\ q.loaded = Empty /\ q.of = file.write
                        \/ q.at = "load" /\ q.seen = Stamp(file) /\ q.seen # 0
           /\ Load(w) =>
                 LET q == request'[w]
                 IN  /\ q \in Request /\ Proceed(w, q) /\ q.lawful = request[w].lawful
                     /\ \/ ~file.readable /\ q.at = "check"
                        \/ /\ file.readable /\ q.at = "assign" /\ q.seen = request[w].seen
                           /\ q.loaded = file.keys /\ q.of = file.write
           /\ AssignStore(w) =>
                 LET q == request'[w]
                 IN  /\ q \in Request /\ Proceed(w, q) /\ q.lawful = request[w].lawful
                     /\ q.at = "stamp" /\ q.seen = request[w].seen /\ q.of = request[w].of
           /\ AssignStamp(w) =>
                 LET q == request'[w]
                 IN  q \in Request /\ Proceed(w, q) /\ q.lawful = request[w].lawful /\ q.at = "check"
  <1> DEFINE r == request[w]
             law == Lawful(file)
             stamp == Stamp(file)
  <1>0. /\ file \in File /\ copy \in Copy /\ request \in [Worker -> Request] /\ r \in Request
        /\ file.keys \in KeyTable /\ file.write \in 0 .. MaxWrites /\ copy.keys \in KeyTable
        /\ Empty \in KeyTable /\ 0 \in 0 .. MaxWrites
    BY IdleTyped, WritesAssumption DEF AccountsTypeOK, File, Copy
  <1>1. stamp \in 0 .. MaxWrites /\ {law} \in SUBSET KeyTable
    BY <1>0, StampTyped DEF Lawful
  <1>2. ASSUME NEW n, Proceed(w, n) PROVE request'[w] = n
    BY <1>0, <1>2 DEF Proceed
  <1>3. ASSUME Stat(w)
        PROVE  LET q == request'[w]
               IN  /\ q \in Request /\ Proceed(w, q) /\ q.lawful = {Lawful(file)}
                   /\ \/ q.at = "check" /\ copy.stamp = Stamp(file)
                      \/ /\ q.at = "assign" /\ Stamp(file) = 0 /\ q.seen = 0
                         /\ q.loaded = Empty /\ q.of = file.write
                      \/ q.at = "load" /\ q.seen = Stamp(file) /\ q.seen # 0
    <2> DEFINE b == [r EXCEPT !.seen = stamp, !.lawful = {law}]
               x == [b EXCEPT !.at = "check", !.seen = 0]
               y == [b EXCEPT !.at = "assign", !.loaded = Empty, !.of = file.write]
               z == [b EXCEPT !.at = "load"]
    <2>1. \/ copy.stamp = stamp /\ Proceed(w, x)
          \/ copy.stamp # stamp /\ stamp = 0 /\ Proceed(w, y)
          \/ copy.stamp # stamp /\ stamp # 0 /\ Proceed(w, z)
      BY <1>3 DEF Stat
    <2> HIDE DEF law, stamp
    <2>2. b \in Request /\ b.seen = stamp /\ b.lawful = {law}
      BY <1>0, <1>1 DEF Request
    <2> HIDE DEF b
    <2>3. /\ x \in Request /\ x.at = "check" /\ x.lawful = {law}
          /\ y \in Request /\ y.at = "assign" /\ y.lawful = {law} /\ y.loaded = Empty
          /\ y.of = file.write /\ y.seen = stamp
          /\ z \in Request /\ z.at = "load" /\ z.lawful = {law} /\ z.seen = stamp
      BY <1>0, <2>2 DEF Request
    <2> HIDE DEF x, y, z
    <2> QED
      BY <1>2, <2>1, <2>3 DEF law, stamp
  <1>4. ASSUME Load(w)
        PROVE  LET q == request'[w]
               IN  /\ q \in Request /\ Proceed(w, q) /\ q.lawful = request[w].lawful
                   /\ \/ ~file.readable /\ q.at = "check"
                      \/ /\ file.readable /\ q.at = "assign" /\ q.seen = request[w].seen
                         /\ q.loaded = file.keys /\ q.of = file.write
    <2> DEFINE x == [r EXCEPT !.at = "assign", !.loaded = file.keys, !.of = file.write]
               y == [r EXCEPT !.at = "check", !.seen = 0]
    <2>1. (file.readable /\ Proceed(w, x)) \/ (~file.readable /\ Proceed(w, y))
      BY <1>4 DEF Load
    <2>2. /\ x \in Request /\ x.at = "assign" /\ x.lawful = r.lawful /\ x.seen = r.seen
          /\ x.loaded = file.keys /\ x.of = file.write
          /\ y \in Request /\ y.at = "check" /\ y.lawful = r.lawful
      BY <1>0 DEF Request
    <2> HIDE DEF x, y
    <2> QED
      BY <1>2, <2>1, <2>2
  <1>5. ASSUME AssignStore(w)
        PROVE  LET q == request'[w]
               IN  /\ q \in Request /\ Proceed(w, q) /\ q.lawful = request[w].lawful
                   /\ q.at = "stamp" /\ q.seen = request[w].seen /\ q.of = request[w].of
    <2> DEFINE x == [r EXCEPT !.at = "stamp", !.loaded = Empty]
    <2>1. Proceed(w, x)
      BY <1>5 DEF AssignStore
    <2>2. /\ x \in Request /\ x.at = "stamp" /\ x.lawful = r.lawful /\ x.seen = r.seen
          /\ x.of = r.of
      BY <1>0 DEF Request
    <2> HIDE DEF x
    <2> QED
      BY <1>2, <2>1, <2>2
  <1>6. ASSUME AssignStamp(w)
        PROVE  LET q == request'[w]
               IN  q \in Request /\ Proceed(w, q) /\ q.lawful = request[w].lawful /\ q.at = "check"
    <2> DEFINE x == [r EXCEPT !.at = "check", !.seen = 0, !.of = 0]
    <2>1. Proceed(w, x)
      BY <1>6 DEF AssignStamp
    <2>2. x \in Request /\ x.at = "check" /\ x.lawful = r.lawful
      BY <1>0 DEF Request
    <2> HIDE DEF x
    <2> QED
      BY <1>2, <2>1, <2>2
  <1> QED
    BY <1>3, <1>4, <1>5, <1>6

\* Every other step of a worker ends a request or leads up to its next refresh.
LEMMA QuietMoves ==
    ASSUME AccountsTypeOK, NEW w \in Worker,
           \/ LoginArrives(w) \/ (\E t \in Token : CallArrives(w, t))
           \/ Check(w) \/ Issue(w) \/ Serve(w)
    PROVE  /\ UNCHANGED <<file, copy, tool, overlapped>>
           /\ request[w].at \in {"idle", "check", "issue", "serve"}
           /\ \E n \in Request : Proceed(w, n) /\ n.at \in {"idle", "stat", "issue", "serve"}
  <1>0. /\ request \in [Worker -> Request] /\ request[w] \in Request
        /\ Idle \in Request /\ Idle.at = "idle"
    BY IdleTyped DEF AccountsTypeOK
  <1>1. ASSUME LoginArrives(w)
        PROVE  \E n \in Request : Proceed(w, n) /\ n.at \in {"idle", "stat", "issue", "serve"}
    <2>1. PICK a \in Account, s \in Secret :
             Proceed(w, [Idle EXCEPT !.op = "login", !.at = "stat", !.asks = "bootstrapped",
                                     !.who = a, !.secret = s])
      BY <1>1 DEF LoginArrives
    <2> DEFINE n == [Idle EXCEPT !.op = "login", !.at = "stat", !.asks = "bootstrapped",
                                 !.who = a, !.secret = s]
    <2>2. n \in Request /\ n.at = "stat"
      BY <1>0 DEF Request
    <2> HIDE DEF n
    <2>3. Proceed(w, n)
      BY <2>1 DEF n
    <2> QED
      BY <2>2, <2>3
  <1>2. ASSUME NEW t \in Token, CallArrives(w, t)
        PROVE  \E n \in Request : Proceed(w, n) /\ n.at \in {"idle", "stat", "issue", "serve"}
    <2>1. CASE sessions[t].state = "live"
      <3>1. PICK op \in {"call", "logout"} :
               Proceed(w, [Idle EXCEPT !.op = op, !.at = "stat", !.token = t,
                                       !.who = sessions[t].who])
        BY <1>2, <2>1 DEF CallArrives
      <3>2. sessions[t].who \in Account \union {NoAccount}
        BY DEF AccountsTypeOK
      <3> DEFINE who == sessions[t].who
                 n == [Idle EXCEPT !.op = op, !.at = "stat", !.token = t, !.who = who]
      <3>3. Proceed(w, n)
        BY <3>1
      <3>4. who \in Account \union {NoAccount}
        BY <3>2
      <3> HIDE DEF who
      <3>5. n \in Request /\ n.at = "stat"
        BY <1>0, <3>4 DEF Request
      <3> HIDE DEF n
      <3> QED
        BY <3>3, <3>5
    <2>2. CASE sessions[t].state # "live"
      <3>1. request' = request /\ request[w].at = "idle"
        BY <1>2, <2>2 DEF CallArrives
      <3>2. Proceed(w, request[w])
        BY <1>0, <3>1 DEF Proceed
      <3> QED
        BY <1>0, <3>1, <3>2
    <2> QED
      BY <2>1, <2>2
  <1>3. ASSUME Check(w)
        PROVE  \E n \in Request : Proceed(w, n) /\ n.at \in {"idle", "stat", "issue", "serve"}
    <2>1. \/ Proceed(w, Idle) \/ Proceed(w, Consult(w, "verify"))
          \/ Proceed(w, Past(w, "issue")) \/ Proceed(w, Past(w, "serve"))
      BY <1>3 DEF Check, Respond
    <2> QED
      BY <1>0, <2>1, PastTyped, ConsultTyped
  <1>4. ASSUME Issue(w) \/ Serve(w)
        PROVE  \E n \in Request : Proceed(w, n) /\ n.at \in {"idle", "stat", "issue", "serve"}
    BY <1>0, <1>4 DEF Issue, Serve, Respond
  <1>5. /\ UNCHANGED <<file, copy, tool, overlapped>>
        /\ request[w].at \in {"idle", "check", "issue", "serve"}
    BY DEF LoginArrives, CallArrives, Check, Issue, Serve
  <1> QED
    BY <1>1, <1>2, <1>3, <1>4, <1>5

SessionsTyped ==
    sessions \in [Token -> [who: Account \union {NoAccount},
                            state: {"unused", "live", "expired", "gone"}]]

LEMMA SessionsMove ==
    ASSUME AccountsTypeOK, AccountsNext
    PROVE  SessionsTyped'
  <1>1. SessionsTyped /\ request \in [Worker -> Request]
    BY DEF AccountsTypeOK, SessionsTyped
  <1>2. \A t \in Token, state \in {"gone", "expired"} :
           [sessions EXCEPT ![t].state = state] \in
               [Token -> [who: Account \union {NoAccount},
                          state: {"unused", "live", "expired", "gone"}]]
    BY <1>1 DEF SessionsTyped
  <1>3. ASSUME NEW t \in Token, TermEnds(t) PROVE SessionsTyped'
    BY <1>2, <1>3 DEF TermEnds, SessionsTyped
  <1>4. ASSUME NEW w \in Worker, NEW t \in Token, CallArrives(w, t) PROVE SessionsTyped'
    BY <1>1, <1>2, <1>4 DEF CallArrives, SessionGone, SessionsTyped
  <1>5. ASSUME NEW w \in Worker, Check(w) \/ Serve(w) PROVE SessionsTyped'
    <2>1. request[w].token \in Token
      BY <1>1 DEF Request
    <2>2. sessions' = sessions \/ sessions' = SessionGone(request[w].token)
      BY <1>5 DEF Check, Serve
    <2>3. SessionGone(request[w].token) \in
             [Token -> [who: Account \union {NoAccount},
                        state: {"unused", "live", "expired", "gone"}]]
      BY <1>2, <2>1 DEF SessionGone
    <2> QED
      BY <1>1, <2>2, <2>3 DEF SessionsTyped
  <1>6. ASSUME NEW w \in Worker, Issue(w) PROVE SessionsTyped'
    <2>1. CASE request[w].who \in Personas
      <3>1. PICK t \in Token :
               sessions' = [sessions EXCEPT ![t] = [who |-> request[w].who, state |-> "live"]]
        BY <1>6, <2>1 DEF Issue
      <3>2. request[w].who \in Account
        BY <2>1, AccountAssumption
      <3> QED
        BY <1>1, <3>1, <3>2 DEF SessionsTyped
    <2>2. CASE request[w].who \notin Personas
      BY <1>1, <1>6, <2>2 DEF Issue, SessionsTyped
    <2> QED
      BY <2>1, <2>2
  <1>7. ASSUME UNCHANGED sessions PROVE SessionsTyped'
    BY <1>1, <1>7 DEF SessionsTyped
  <1>8. ASSUME NEW w \in Worker,
               \/ LoginArrives(w) \/ Stat(w) \/ Load(w) \/ AssignStore(w) \/ AssignStamp(w)
        PROVE  SessionsTyped'
    BY <1>7, <1>8 DEF LoginArrives, Stat, Load, AssignStore, AssignStamp
  <1>9. ASSUME HandEdit \/ \E o \in Operator : ToolLoad(o) \/ ToolSave(o) PROVE SessionsTyped'
    BY <1>7, <1>9 DEF HandEdit, ToolLoad, ToolSave
  <1> QED
    BY <1>3, <1>4, <1>5, <1>6, <1>8, <1>9 DEF AccountsNext

LEMMA AccountsStepTyped == AccountsTypeOK /\ [AccountsNext]_accountVars => AccountsTypeOK'
  <1> SUFFICES ASSUME AccountsTypeOK, [AccountsNext]_accountVars PROVE AccountsTypeOK'
    OBVIOUS
  <1>0. /\ file \in File /\ copy \in Copy /\ request \in [Worker -> Request] /\ SessionsTyped
        /\ tool \in [Operator -> [at: {"idle", "save"}, keys: KeyTable]] /\ overlapped \in BOOLEAN
        /\ Empty \in KeyTable
    BY IdleTyped DEF AccountsTypeOK, SessionsTyped
  <1>1. CASE UNCHANGED accountVars
    BY <1>0, <1>1 DEF accountVars, AccountsTypeOK
  <1>2. SUFFICES ASSUME AccountsNext, SessionsTyped' PROVE AccountsTypeOK'
    BY <1>1, SessionsMove
  <1>3. ASSUME NEW o \in Operator, ToolLoad(o) PROVE AccountsTypeOK'
    <2>1. PICK a \in Account, s \in Secret \union {NoSecret} :
             tool' = [tool EXCEPT ![o] = [at |-> "save", keys |-> [file.keys EXCEPT ![a] = s]]]
      BY <1>3 DEF ToolLoad
    <2>2. [file.keys EXCEPT ![a] = s] \in KeyTable
      BY <1>0 DEF File, KeyTable
    <2>3. tool' \in [Operator -> [at: {"idle", "save"}, keys: KeyTable]]
      BY <1>0, <2>1, <2>2
    <2> QED
      BY <1>0, <1>2, <1>3, <2>3 DEF ToolLoad, AccountsTypeOK, SessionsTyped
  <1>4. ASSUME HandEdit \/ \E o \in Operator : ToolSave(o) PROVE AccountsTypeOK'
    <2>1. PICK f \in File : Write(f) /\ UNCHANGED <<copy, overlapped>>
      BY <1>4, WritesLeave
    <2>2. file' \in File /\ request' \in [Worker -> Request]
      BY <2>1, WriteTyped
    <2>3. tool' \in [Operator -> [at: {"idle", "save"}, keys: KeyTable]]
      <3>1. CASE HandEdit
        BY <1>0, <3>1 DEF HandEdit
      <3>2. ASSUME NEW o \in Operator, ToolSave(o)
            PROVE  tool' \in [Operator -> [at: {"idle", "save"}, keys: KeyTable]]
        BY <1>0, <3>2 DEF ToolSave
      <3> QED
        BY <1>4, <3>1, <3>2
    <2> QED
      BY <1>0, <1>2, <2>1, <2>2, <2>3 DEF AccountsTypeOK, SessionsTyped
  <1>5. ASSUME NEW t \in Token, TermEnds(t) PROVE AccountsTypeOK'
    BY <1>0, <1>2, <1>5 DEF TermEnds, AccountsTypeOK, SessionsTyped
  <1>6. ASSUME NEW w \in Worker,
               \/ LoginArrives(w) \/ (\E t \in Token : CallArrives(w, t))
               \/ Check(w) \/ Issue(w) \/ Serve(w)
        PROVE  AccountsTypeOK'
    <2>1. request' \in [Worker -> Request] /\ UNCHANGED <<file, copy, tool, overlapped>>
      BY <1>6, QuietMoves, ProceedTyped
    <2> QED
      BY <1>0, <1>2, <2>1 DEF AccountsTypeOK, SessionsTyped
  <1>7. ASSUME NEW w \in Worker, Stat(w) \/ Load(w) \/ AssignStore(w) \/ AssignStamp(w)
        PROVE  AccountsTypeOK'
    <2>1. request' \in [Worker -> Request]
      BY <1>7, RefreshMoves, ProceedTyped
    <2>2. copy' \in Copy
      <3>1. request[w] \in Request
        BY <1>0
      <3>2. request[w].loaded \in KeyTable /\ request[w].seen \in 0 .. MaxWrites
        BY <3>1 DEF Request
      <3>3. \/ copy' = copy
            \/ copy' = [copy EXCEPT !.keys = request[w].loaded]
            \/ copy' = [copy EXCEPT !.stamp = request[w].seen]
        BY <1>7 DEF Stat, Load, AssignStore, AssignStamp, RecordedStamp
      <3> QED
        BY <1>0, <3>2, <3>3 DEF Copy
    <2>3. UNCHANGED <<file, tool>> /\ overlapped' \in BOOLEAN
      BY <1>0, <1>7 DEF Stat, Load, AssignStore, AssignStamp
    <2> QED
      BY <1>0, <1>2, <2>1, <2>2, <2>3 DEF AccountsTypeOK, SessionsTyped
  <1> QED
    BY <1>2, <1>3, <1>4, <1>5, <1>6, <1>7 DEF AccountsNext

LEMMA AccountsStartTyped == AccountsInit => AccountsTypeOK
  <1> SUFFICES ASSUME AccountsInit PROVE AccountsTypeOK
    OBVIOUS
  <1>1. PICK keys \in {Empty} \union {[a \in Account |-> s] : s \in Secret} :
           /\ file = [there |-> keys # Empty, readable |-> TRUE, keys |-> keys,
                      write |-> IF keys = Empty THEN 0 ELSE 1]
           /\ copy = [keys |-> keys, stamp |-> Stamp(file)]
    BY DEF AccountsInit
  <1>2. keys \in KeyTable
    BY IdleTyped DEF KeyTable
  <1>3. file \in File
    BY <1>1, <1>2, WritesAssumption DEF File
  <1>4. copy \in Copy
    BY <1>1, <1>2, <1>3, StampTyped DEF Copy
  <1> QED
    BY <1>3, <1>4, IdleTyped DEF AccountsInit, AccountsTypeOK

\* File, copy, sessions and requests keep their types, for any accounts, secrets,
\* tokens, workers and operators.
THEOREM AccountsTypeCorrect == AccountsSpec => []AccountsTypeOK
  BY AccountsStartTyped, AccountsStepTyped, PTL DEF AccountsSpec

----------------------------------------------------------------------------
(* Accounts: the copy and its stamp. *)

Refreshing == {"load", "assign", "stamp", "check"}

FileSound ==
    /\ ~file.there => file.keys = Empty /\ file.readable
    /\ file.there => file.write >= 1

\* Nothing is stamped or read from a write that is still to come.
FromThePast ==
    /\ copy.stamp <= file.write
    /\ \A w \in Worker :
          /\ request[w].at \in {"load", "assign", "stamp"} => request[w].seen <= file.write
          /\ request[w].at \in {"assign", "stamp"} => request[w].of <= file.write

\* What was read from the present file is its contents.
ReadTruly ==
    \A w \in Worker :
        request[w].at = "assign" /\ request[w].of = file.write =>
            file.readable /\ request[w].loaded = file.keys

\* The stat that found no file is the one that stands for the read.
SeenThere ==
    \A w \in Worker :
        /\ request[w].at = "load" => request[w].seen # 0
        /\ request[w].at \in {"assign", "stamp"} /\ request[w].seen = 0
              /\ request[w].of = file.write => ~file.there

Emptying(w) == request[w].at \in {"assign", "stamp"} /\ request[w].seen = 0

\* A refresh that found no file meets none that would store anything else.
EmptyingAlone ==
    \A w \in Worker : Emptying(w) =>
        /\ \A v \in Worker : /\ request[v].at # "load"
                             /\ request[v].at = "assign" => request[v].loaded = Empty
        /\ request[w].at = "stamp" => copy.keys = Empty

ZeroIsEmpty ==
    copy.stamp = 0 =>
        copy.keys = Empty \/ \E v \in Worker : request[v].at = "stamp" /\ request[v].seen # 0

Current(w) == /\ request[w].at \in {"load", "assign", "stamp"}
              /\ request[w].seen = Stamp(file) /\ request[w].seen # 0

\* A refresh that saw the present file meets none that read an earlier one.
CurrentAlone ==
    \A w \in Worker : Current(w) =>
        /\ \A v \in Worker : request[v].at \in {"assign", "stamp"} => request[v].of = file.write
        /\ request[w].at = "stamp" => copy.keys = file.keys

CopyIsTrue ==
    (\A w \in Worker : ~Behind(w)) /\ copy.stamp = Stamp(file) /\ file.readable =>
        copy.keys = file.keys

\* A request's refresh began before what it may be answered from was written or
\* while it stood: the file, what others are about to store, what it has stored.
Answerable ==
    \A w \in Worker : request[w].at \in Refreshing =>
        /\ file.readable => file.keys \in request[w].lawful
        /\ ~file.readable => copy.keys \in request[w].lawful
        /\ \A v \in Worker : request[v].at = "assign" => request[v].loaded \in request[w].lawful
        /\ request[w].at \in {"stamp", "check"} => copy.keys \in request[w].lawful

Stamped == EmptyingAlone /\ ZeroIsEmpty /\ CurrentAlone /\ CopyIsTrue /\ Answerable

Filed == FileSound /\ FromThePast /\ ReadTruly /\ SeenThere

AccountsInv == AccountsTypeOK /\ Filed /\ (~overlapped => Stamped)

LEMMA NumbersOfAccounts ==
    ASSUME AccountsTypeOK
    PROVE  /\ file.write \in Nat /\ copy.stamp \in Nat
           /\ file.there \in BOOLEAN /\ file.readable \in BOOLEAN /\ overlapped \in BOOLEAN
           /\ \A w \in Worker : request[w].seen \in Nat /\ request[w].of \in Nat
  <1>1. 0 .. MaxWrites \subseteq Nat
    BY WritesAssumption
  <1>2. file \in File /\ copy \in Copy /\ request \in [Worker -> Request]
    BY DEF AccountsTypeOK
  <1>3. \A q \in Request : q.seen \in Nat /\ q.of \in Nat
    BY <1>1 DEF Request
  <1> QED
    BY <1>1, <1>2, <1>3 DEF AccountsTypeOK, File, Copy

LEMMA StartFiled == AccountsInit => Filed /\ Stamped
  <1> SUFFICES ASSUME AccountsInit PROVE Filed /\ Stamped
    OBVIOUS
  <1>1. PICK keys \in {Empty} \union {[a \in Account |-> s] : s \in Secret} :
           /\ file = [there |-> keys # Empty, readable |-> TRUE, keys |-> keys,
                      write |-> IF keys = Empty THEN 0 ELSE 1]
           /\ copy = [keys |-> keys, stamp |-> Stamp(file)]
    BY DEF AccountsInit
  <1>2. \A w \in Worker : request[w].at = "idle"
    BY DEF AccountsInit, Idle
  <1>3. /\ file.keys = keys /\ file.readable /\ file.write = IF keys = Empty THEN 0 ELSE 1
        /\ (file.there <=> keys # Empty)
    BY <1>1
  <1>4. copy.keys = keys /\ copy.stamp = IF keys = Empty THEN 0 ELSE 1
    BY <1>1, <1>3 DEF Stamp
  <1>5. Filed
    BY <1>2, <1>3, <1>4 DEF Filed, FileSound, FromThePast, ReadTruly, SeenThere
  <1>6. EmptyingAlone /\ CurrentAlone /\ Answerable
    BY <1>2 DEF EmptyingAlone, CurrentAlone, Answerable, Emptying, Current, Refreshing
  <1>7. ZeroIsEmpty /\ CopyIsTrue
    BY <1>3, <1>4 DEF ZeroIsEmpty, CopyIsTrue
  <1> QED
    BY <1>5, <1>6, <1>7 DEF Stamped

\* A write is none that was seen or read, and every request under way sees it.
LEMMA WriteFiled ==
    ASSUME AccountsInv, NEW f \in File, Write(f), ~f.there => f.keys = Empty /\ f.readable,
           UNCHANGED <<copy, overlapped>>
    PROVE  Filed' /\ (~overlapped => Stamped')
  <1>0. /\ AccountsTypeOK /\ FileSound /\ FromThePast /\ ReadTruly /\ SeenThere
        /\ ~overlapped => Stamped
    BY DEF AccountsInv, Filed
  <1>1. /\ file'.there = f.there /\ file'.readable = f.readable /\ file'.keys = f.keys
        /\ file'.write = file.write + 1
        /\ f.there \in BOOLEAN /\ f.readable \in BOOLEAN
    BY <1>0, WriteTyped DEF File
  <1>2. \A w \in Worker :
           /\ request'[w].at = request[w].at /\ request'[w].seen = request[w].seen
           /\ request'[w].loaded = request[w].loaded /\ request'[w].of = request[w].of
    BY <1>0, WriteTyped
  <1>3. \A w \in Worker : request[w].at \in Refreshing =>
           request'[w].lawful = request[w].lawful \union {Lawful(f)}
    BY <1>0, WriteTyped DEF Refreshing
  <1>4. /\ file.write \in Nat /\ copy.stamp \in Nat
        /\ \A w \in Worker : request[w].seen \in Nat /\ request[w].of \in Nat
    BY <1>0, NumbersOfAccounts
  <1>5. \A w \in Worker :
           /\ request[w].at \in {"load", "assign", "stamp"} => request[w].seen # file'.write
           /\ request[w].at \in {"assign", "stamp"} => request[w].of # file'.write
    BY <1>0, <1>1, <1>4 DEF FromThePast
  <1>6. Filed'
    <2>1. FileSound'
      BY <1>1, <1>4 DEF FileSound
    <2>2. FromThePast'
      BY <1>0, <1>1, <1>2, <1>4 DEF FromThePast
    <2>3. ReadTruly' /\ SeenThere'
      BY <1>0, <1>2, <1>5 DEF ReadTruly, SeenThere
    <2> QED
      BY <2>1, <2>2, <2>3 DEF Filed
  <1>7. ASSUME ~overlapped PROVE Stamped'
    <2>0. EmptyingAlone /\ ZeroIsEmpty /\ CurrentAlone /\ CopyIsTrue /\ Answerable
      BY <1>0, <1>7 DEF Stamped
    <2>1. EmptyingAlone' /\ ZeroIsEmpty'
      BY <1>2, <2>0 DEF EmptyingAlone, ZeroIsEmpty, Emptying
    <2>2. CurrentAlone'
      BY <1>2, <1>5 DEF CurrentAlone, Current, Stamp
    <2>3. CopyIsTrue'
      <3> SUFFICES ASSUME \A w \in Worker : ~Behind(w)', copy'.stamp = Stamp(file'), file'.readable
                   PROVE  copy'.keys = file'.keys
        BY DEF CopyIsTrue
      <3>1. ~f.there /\ copy.stamp = 0
        BY <1>0, <1>1, <1>4 DEF Stamp, FromThePast
      <3>2. \A w \in Worker : request[w].at # "stamp"
        BY <1>2, <1>5 DEF Behind
      <3> QED
        BY <1>1, <2>0, <3>1, <3>2 DEF ZeroIsEmpty
    <2>4. Answerable'
      <3>1. f.readable => Lawful(f) = f.keys
        BY DEF Lawful
      <3>2. ~f.readable => Lawful(f) = copy.keys
        BY DEF Lawful
      <3> QED
        BY <1>1, <1>2, <1>3, <2>0, <3>1, <3>2 DEF Answerable, Refreshing
    <2> QED
      BY <2>1, <2>2, <2>3, <2>4 DEF Stamped
  <1> QED
    BY <1>6, <1>7

\* Between refreshes a request touches neither file nor copy.
LEMMA QuietFiled ==
    ASSUME AccountsInv, NEW w \in Worker, NEW n \in Request, Proceed(w, n),
           request[w].at \in {"idle", "check", "issue", "serve"},
           n.at \in {"idle", "stat", "issue", "serve"}, UNCHANGED <<file, copy, overlapped>>
    PROVE  Filed' /\ (~overlapped => Stamped')
  <1>1. request' = [request EXCEPT ![w] = n] /\ request \in [Worker -> Request]
    BY DEF AccountsInv, AccountsTypeOK, Proceed
  <1>2. request'[w] = n /\ \A v \in Worker \ {w} : request'[v] = request[v]
    BY <1>1
  <1>3. Filed /\ (~overlapped => Stamped)
    BY DEF AccountsInv
  <1>4. Filed'
    BY <1>2, <1>3 DEF Filed, FileSound, FromThePast, ReadTruly, SeenThere
  <1>5. ASSUME ~overlapped PROVE Stamped'
    <2>1. EmptyingAlone /\ ZeroIsEmpty /\ CurrentAlone /\ CopyIsTrue /\ Answerable
      BY <1>3, <1>5 DEF Stamped
    <2>2. EmptyingAlone' /\ ZeroIsEmpty'
      BY <1>2, <2>1 DEF EmptyingAlone, ZeroIsEmpty, Emptying
    <2>3. CurrentAlone'
      BY <1>2, <2>1 DEF CurrentAlone, Current, Stamp
    <2>4. CopyIsTrue'
      BY <1>2, <2>1 DEF CopyIsTrue, Behind, Stamp
    <2>5. Answerable'
      BY <1>2, <2>1 DEF Answerable, Refreshing
    <2> QED
      BY <2>2, <2>3, <2>4, <2>5 DEF Stamped
  <1> QED
    BY <1>4, <1>5

\* A stat that nobody is late for finds every other refresh up to date.
LEMMA StatFiled ==
    ASSUME AccountsInv, NEW w \in Worker, Stat(w)
    PROVE  Filed' /\ (~overlapped' => Stamped')
  <1> DEFINE q == request'[w]
  <1>0. /\ AccountsTypeOK /\ FileSound /\ FromThePast /\ ReadTruly /\ SeenThere
        /\ ~overlapped => Stamped
    BY DEF AccountsInv, Filed
  <1>1. /\ q \in Request /\ Proceed(w, q) /\ q.lawful = {Lawful(file)}
        /\ \/ q.at = "check" /\ copy.stamp = Stamp(file)
           \/ /\ q.at = "assign" /\ Stamp(file) = 0 /\ q.seen = 0
              /\ q.loaded = Empty /\ q.of = file.write
           \/ q.at = "load" /\ q.seen = Stamp(file) /\ q.seen # 0
    BY <1>0, RefreshMoves
  <1>2. \A v \in Worker \ {w} : request'[v] = request[v]
    BY <1>0, <1>1 DEF Proceed, AccountsTypeOK
  <1>3. /\ UNCHANGED <<file, copy>> /\ request[w].at = "stat"
        /\ overlapped' = (overlapped \/ Overlap(w))
    BY DEF Stat
  <1>4. /\ file.write \in Nat /\ copy.stamp \in Nat
        /\ file.there \in BOOLEAN /\ file.readable \in BOOLEAN
    BY <1>0, NumbersOfAccounts
  <1>5. /\ Stamp(file) <= file.write
        /\ Stamp(file) = 0 => ~file.there /\ file.keys = Empty /\ file.readable
    BY <1>0, <1>4 DEF Stamp, FileSound
  <1> HIDE DEF q
  <1>6. Filed'
    <2>1. FromThePast' /\ FileSound'
      BY <1>0, <1>1, <1>2, <1>3, <1>4, <1>5 DEF FromThePast, FileSound, q
    <2>2. ReadTruly' /\ SeenThere'
      BY <1>0, <1>1, <1>2, <1>3, <1>5 DEF ReadTruly, SeenThere, q
    <2> QED
      BY <2>1, <2>2 DEF Filed
  <1>7. ASSUME ~overlapped' PROVE Stamped'
    <2>0. /\ EmptyingAlone /\ ZeroIsEmpty /\ CurrentAlone /\ CopyIsTrue /\ Answerable
          /\ ~Overlap(w)
      BY <1>0, <1>3, <1>7 DEF Stamped
    <2>1. \A v \in Worker : /\ request[v].at \in {"assign", "stamp"} => request[v].of = file.write
                            /\ request[v].at = "load" => request[v].seen = Stamp(file)
                            /\ ~Behind(v)
      BY <1>3, <2>0 DEF Overlap, Late, Behind
    <2>2. \A v \in Worker : request[v].at = "assign" =>
             file.readable /\ request[v].loaded = file.keys
      BY <1>0, <2>1 DEF ReadTruly
    <2>3. \A v \in Worker : Emptying(v) => ~file.there
      BY <1>0, <2>1 DEF SeenThere, Emptying
    <2>4. ~file.there => Stamp(file) = 0
      BY DEF Stamp
    <2>5. EmptyingAlone'
      <3> SUFFICES ASSUME NEW x \in Worker, Emptying(x)'
                   PROVE  /\ \A v \in Worker : /\ request'[v].at # "load"
                                               /\ request'[v].at = "assign" => request'[v].loaded = Empty
                          /\ request'[x].at = "stamp" => copy'.keys = Empty
        BY DEF EmptyingAlone
      <3>1. Stamp(file) = 0
        BY <1>1, <1>2, <2>3, <2>4 DEF Emptying, q
      <3>2. \A v \in Worker : request[v].at # "load"
        BY <1>0, <2>1, <3>1 DEF SeenThere
      <3>3. \A v \in Worker : request[v].at = "assign" => request[v].loaded = Empty
        BY <1>5, <2>2, <3>1
      <3>4. request'[x].at = "stamp" => x # w /\ Emptying(x)
        BY <1>1, <1>2 DEF Emptying, q
      <3> QED
        BY <1>1, <1>2, <1>3, <2>0, <3>1, <3>2, <3>3, <3>4 DEF EmptyingAlone, q
    <2>6. ZeroIsEmpty'
      BY <1>2, <1>3, <2>0 DEF ZeroIsEmpty
    <2>7. CurrentAlone'
      BY <1>1, <1>2, <1>3, <2>0, <2>1 DEF CurrentAlone, Current, q, Stamp
    <2>8. CopyIsTrue'
      BY <1>3, <2>0, <2>1 DEF CopyIsTrue, Stamp
    <2>9. Answerable'
      <3>1. file.readable => Lawful(file) = file.keys
        BY DEF Lawful
      <3>2. ~file.readable => Lawful(file) = copy.keys
        BY <1>0 DEF Lawful, FileSound
      <3>3. q.at = "check" => copy.keys = Lawful(file)
        BY <1>1, <2>0, <2>1, <3>1, <3>2 DEF CopyIsTrue
      <3>4. \A v \in Worker : request'[v].at = "assign" =>
               file.readable /\ request'[v].loaded = file.keys
        BY <1>1, <1>2, <1>5, <2>2 DEF q
      <3>5. \A x \in Worker \ {w} : request[x].at \in Refreshing =>
               /\ file.readable => file.keys \in request[x].lawful
               /\ ~file.readable => copy.keys \in request[x].lawful
               /\ request[x].at \in {"stamp", "check"} => copy.keys \in request[x].lawful
        BY <2>0 DEF Answerable
      <3>6. \A x \in Worker \ {w} : request'[x].at \in Refreshing =>
               /\ file.readable => file.keys \in request'[x].lawful
               /\ ~file.readable => copy.keys \in request'[x].lawful
               /\ \A v \in Worker : request'[v].at = "assign" => request'[v].loaded \in request'[x].lawful
               /\ request'[x].at \in {"stamp", "check"} => copy.keys \in request'[x].lawful
        BY <1>2, <3>4, <3>5
      <3>7. /\ file.readable => file.keys \in q.lawful
            /\ ~file.readable => copy.keys \in q.lawful
            /\ \A v \in Worker : request'[v].at = "assign" => request'[v].loaded \in q.lawful
            /\ q.at \in {"stamp", "check"} => copy.keys \in q.lawful
        BY <1>1, <3>1, <3>2, <3>3, <3>4
      <3> QED
        BY <1>3, <3>6, <3>7 DEF Answerable, q
    <2> QED
      BY <2>5, <2>6, <2>7, <2>8, <2>9 DEF Stamped
  <1> QED
    BY <1>6, <1>7

LEMMA LoadFiled ==
    ASSUME AccountsInv, NEW w \in Worker, Load(w)
    PROVE  Filed' /\ (~overlapped' => Stamped')
  <1> DEFINE q == request'[w]
             r == request[w]
  <1>0. /\ AccountsTypeOK /\ FileSound /\ FromThePast /\ ReadTruly /\ SeenThere
        /\ ~overlapped => Stamped
    BY DEF AccountsInv, Filed
  <1>1. /\ q \in Request /\ Proceed(w, q) /\ q.lawful = r.lawful
        /\ \/ ~file.readable /\ q.at = "check"
           \/ /\ file.readable /\ q.at = "assign" /\ q.seen = r.seen
              /\ q.loaded = file.keys /\ q.of = file.write
    BY <1>0, RefreshMoves
  <1>2. \A v \in Worker \ {w} : request'[v] = request[v]
    BY <1>0, <1>1 DEF Proceed, AccountsTypeOK
  <1>3. UNCHANGED <<file, copy, overlapped>> /\ r.at = "load" /\ r.seen # 0
    BY <1>0 DEF Load, SeenThere
  <1>4. file.write \in Nat
    BY <1>0, NumbersOfAccounts
  <1> HIDE DEF q
  <1>6. Filed'
    <2>1. FromThePast' /\ FileSound'
      BY <1>0, <1>1, <1>2, <1>3, <1>4 DEF FromThePast, FileSound, q
    <2>2. ReadTruly' /\ SeenThere'
      BY <1>0, <1>1, <1>2, <1>3 DEF ReadTruly, SeenThere, q
    <2> QED
      BY <2>1, <2>2 DEF Filed
  <1>7. ASSUME ~overlapped' PROVE Stamped'
    <2>0. EmptyingAlone /\ ZeroIsEmpty /\ CurrentAlone /\ CopyIsTrue /\ Answerable
      BY <1>0, <1>3, <1>7 DEF Stamped
    <2>1. EmptyingAlone'
      <3>1. \A x \in Worker : ~Emptying(x)
        BY <1>3, <2>0 DEF EmptyingAlone
      <3> QED
        BY <1>1, <1>2, <1>3, <3>1 DEF EmptyingAlone, Emptying, q
    <2>2. ZeroIsEmpty'
      BY <1>1, <1>2, <1>3, <2>0 DEF ZeroIsEmpty, q
    <2>3. CurrentAlone'
      <3>1. \A x \in Worker : Current(x)' => Current(x)
        BY <1>1, <1>2, <1>3 DEF Current, Stamp, q
      <3> QED
        BY <1>1, <1>2, <1>3, <2>0, <3>1 DEF CurrentAlone, q
    <2>4. CopyIsTrue'
      <3>1. \A x \in Worker : ~Behind(x)' => ~Behind(x)
        BY <1>1, <1>2, <1>3 DEF Behind, q
      <3> QED
        BY <1>3, <2>0, <3>1 DEF CopyIsTrue, Stamp
    <2>5. Answerable'
      BY <1>1, <1>2, <1>3, <2>0 DEF Answerable, Refreshing, q
    <2> QED
      BY <2>1, <2>2, <2>3, <2>4, <2>5 DEF Stamped
  <1> QED
    BY <1>6, <1>7

LEMMA AssignStoreFiled ==
    ASSUME AccountsInv, NEW w \in Worker, AssignStore(w)
    PROVE  Filed' /\ (~overlapped' => Stamped')
  <1> DEFINE q == request'[w]
             r == request[w]
  <1>0. /\ AccountsTypeOK /\ FileSound /\ FromThePast /\ ReadTruly /\ SeenThere
        /\ ~overlapped => Stamped
    BY DEF AccountsInv, Filed
  <1>1. /\ q \in Request /\ Proceed(w, q) /\ q.lawful = r.lawful
        /\ q.at = "stamp" /\ q.seen = r.seen /\ q.of = r.of
    BY <1>0, RefreshMoves
  <1>2. \A v \in Worker \ {w} : request'[v] = request[v]
    BY <1>0, <1>1 DEF Proceed, AccountsTypeOK
  <1>3. /\ UNCHANGED <<file, overlapped>> /\ r.at = "assign"
        /\ copy'.keys = r.loaded /\ copy'.stamp = copy.stamp
    BY <1>0 DEF AssignStore, AccountsTypeOK, Copy
  <1> HIDE DEF q
  <1>6. Filed'
    <2>1. FromThePast' /\ FileSound'
      BY <1>0, <1>1, <1>2, <1>3 DEF FromThePast, FileSound, q
    <2>2. ReadTruly' /\ SeenThere'
      BY <1>0, <1>1, <1>2, <1>3 DEF ReadTruly, SeenThere, q
    <2> QED
      BY <2>1, <2>2 DEF Filed
  <1>7. ASSUME ~overlapped' PROVE Stamped'
    <2>0. EmptyingAlone /\ ZeroIsEmpty /\ CurrentAlone /\ CopyIsTrue /\ Answerable
      BY <1>0, <1>3, <1>7 DEF Stamped
    <2>1. EmptyingAlone'
      <3>1. \A x \in Worker : Emptying(x)' => Emptying(x) /\ r.loaded = Empty
        BY <1>1, <1>2, <1>3, <2>0 DEF EmptyingAlone, Emptying, q
      <3> QED
        BY <1>1, <1>2, <1>3, <2>0, <3>1 DEF EmptyingAlone, q
    <2>2. ZeroIsEmpty'
      <3>1. r.seen = 0 => r.loaded = Empty
        BY <1>3, <2>0 DEF EmptyingAlone, Emptying
      <3> QED
        BY <1>1, <1>2, <1>3, <2>0, <3>1 DEF ZeroIsEmpty, q
    <2>3. CurrentAlone'
      <3>1. \A x \in Worker : Current(x)' => Current(x)
        BY <1>1, <1>2, <1>3 DEF Current, Stamp, q
      <3>2. \A x \in Worker : Current(x) => r.loaded = file.keys
        BY <1>0, <1>3, <2>0 DEF CurrentAlone, ReadTruly
      <3> QED
        BY <1>1, <1>2, <1>3, <2>0, <3>1, <3>2 DEF CurrentAlone, q
    <2>4. CopyIsTrue'
      <3>1. ~Behind(w)' => r.loaded = file.keys
        BY <1>0, <1>1, <1>3 DEF Behind, ReadTruly, q
      <3> QED
        BY <1>3, <3>1 DEF CopyIsTrue
    <2>5. Answerable'
      <3>1. \A x \in Worker : request[x].at \in Refreshing => r.loaded \in request[x].lawful
        BY <1>3, <2>0 DEF Answerable
      <3> QED
        BY <1>1, <1>2, <1>3, <2>0, <3>1 DEF Answerable, Refreshing, q
    <2> QED
      BY <2>1, <2>2, <2>3, <2>4, <2>5 DEF Stamped
  <1> QED
    BY <1>6, <1>7

LEMMA AssignStampFiled ==
    ASSUME AccountsInv, NEW w \in Worker, AssignStamp(w)
    PROVE  Filed' /\ (~overlapped' => Stamped')
  <1> DEFINE q == request'[w]
             r == request[w]
  <1>0. /\ AccountsTypeOK /\ FileSound /\ FromThePast /\ ReadTruly /\ SeenThere
        /\ ~overlapped => Stamped
    BY DEF AccountsInv, Filed
  <1>1. q \in Request /\ Proceed(w, q) /\ q.lawful = r.lawful /\ q.at = "check"
    BY <1>0, RefreshMoves
  <1>2. \A v \in Worker \ {w} : request'[v] = request[v]
    BY <1>0, <1>1 DEF Proceed, AccountsTypeOK
  <1>3. /\ UNCHANGED <<file, overlapped>> /\ r.at = "stamp"
        /\ copy'.keys = copy.keys /\ copy'.stamp = r.seen
    BY <1>0 DEF AssignStamp, RecordedStamp, AccountsTypeOK, Copy
  <1> HIDE DEF q
  <1>6. Filed'
    <2>1. FromThePast' /\ FileSound'
      BY <1>0, <1>1, <1>2, <1>3 DEF FromThePast, FileSound, q
    <2>2. ReadTruly' /\ SeenThere'
      BY <1>0, <1>1, <1>2, <1>3 DEF ReadTruly, SeenThere, q
    <2> QED
      BY <2>1, <2>2 DEF Filed
  <1>7. ASSUME ~overlapped' PROVE Stamped'
    <2>0. EmptyingAlone /\ ZeroIsEmpty /\ CurrentAlone /\ CopyIsTrue /\ Answerable
      BY <1>0, <1>3, <1>7 DEF Stamped
    <2>1. EmptyingAlone'
      BY <1>1, <1>2, <1>3, <2>0 DEF EmptyingAlone, Emptying, q
    <2>2. r.seen = 0 => copy.keys = Empty
      BY <1>3, <2>0 DEF EmptyingAlone, Emptying
    <2>3. ZeroIsEmpty'
      BY <1>3, <2>2 DEF ZeroIsEmpty
    <2>4. CurrentAlone'
      <3>1. \A x \in Worker : Current(x)' => x # w /\ Current(x)
        BY <1>1, <1>2, <1>3 DEF Current, Stamp, q
      <3> QED
        BY <1>1, <1>2, <1>3, <2>0, <3>1 DEF CurrentAlone, q
    <2>5. CopyIsTrue'
      <3>1. r.seen = Stamp(file) /\ r.seen # 0 => copy.keys = file.keys
        BY <1>3, <2>0 DEF CurrentAlone, Current
      <3>2. Stamp(file) = 0 => file.keys = Empty
        BY <1>0 DEF Stamp, FileSound
      <3>3. Stamp(file)' = Stamp(file)
        BY <1>3 DEF Stamp
      <3> QED
        BY <1>3, <2>2, <3>1, <3>2, <3>3 DEF CopyIsTrue
    <2>6. Answerable'
      BY <1>1, <1>2, <1>3, <2>0 DEF Answerable, Refreshing, q
    <2> QED
      BY <2>1, <2>3, <2>4, <2>5, <2>6 DEF Stamped
  <1> QED
    BY <1>6, <1>7

LEMMA AccountsStepInv == AccountsInv /\ [AccountsNext]_accountVars => AccountsInv'
  <1> SUFFICES ASSUME AccountsInv, [AccountsNext]_accountVars PROVE AccountsInv'
    OBVIOUS
  <1>0. AccountsTypeOK /\ Filed /\ (~overlapped => Stamped) /\ AccountsTypeOK'
    BY AccountsStepTyped DEF AccountsInv
  <1>1. ASSUME UNCHANGED <<file, copy, request, overlapped>> PROVE AccountsInv'
    <2>1. Filed'
      BY <1>0, <1>1 DEF Filed, FileSound, FromThePast, ReadTruly, SeenThere
    <2>2. (~overlapped => Stamped)'
      BY <1>0, <1>1 DEF Stamped, EmptyingAlone, Emptying, ZeroIsEmpty, CurrentAlone, Current,
         CopyIsTrue, Behind, Answerable, Stamp
    <2> QED
      BY <1>0, <2>1, <2>2 DEF AccountsInv
  <1>2. ASSUME HandEdit \/ \E o \in Operator : ToolSave(o) PROVE AccountsInv'
    <2>1. PICK f \in File : /\ Write(f) /\ (~f.there => f.keys = Empty /\ f.readable)
                           /\ UNCHANGED <<copy, overlapped>>
      BY <1>0, <1>2, WritesLeave
    <2> QED
      BY <1>0, <2>1, WriteFiled DEF AccountsInv
  <1>3. ASSUME (\E o \in Operator : ToolLoad(o)) \/ \E t \in Token : TermEnds(t) PROVE AccountsInv'
    BY <1>1, <1>3 DEF ToolLoad, TermEnds
  <1>4. ASSUME NEW w \in Worker,
               \/ LoginArrives(w) \/ (\E t \in Token : CallArrives(w, t))
               \/ Check(w) \/ Issue(w) \/ Serve(w)
        PROVE  AccountsInv'
    <2>1. PICK n \in Request : Proceed(w, n) /\ n.at \in {"idle", "stat", "issue", "serve"}
      BY <1>0, <1>4, QuietMoves
    <2>2. /\ UNCHANGED <<file, copy, overlapped>>
          /\ request[w].at \in {"idle", "check", "issue", "serve"}
      BY <1>0, <1>4, QuietMoves
    <2> QED
      BY <1>0, <2>1, <2>2, QuietFiled DEF AccountsInv
  <1>5. ASSUME NEW w \in Worker, Stat(w) \/ Load(w) \/ AssignStore(w) \/ AssignStamp(w)
        PROVE  AccountsInv'
    BY <1>0, <1>5, StatFiled, LoadFiled, AssignStoreFiled, AssignStampFiled DEF AccountsInv
  <1>6. CASE UNCHANGED accountVars
    BY <1>1, <1>6 DEF accountVars
  <1> QED
    BY <1>2, <1>3, <1>4, <1>5, <1>6 DEF AccountsNext

LEMMA AccountsStartInv == AccountsInit => AccountsInv
  BY AccountsStartTyped, StartFiled DEF AccountsInv

\* Unless refreshes have overlapped across a write, the copy _refresh keeps under
\* the file's own stamp is the file, for any workers and any number of writes.
THEOREM StampIsHonest == AccountsSpec => []StampMatchesStore
  <1>1. AccountsInv => StampMatchesStore
    BY DEF AccountsInv, Stamped, CopyIsTrue, StampMatchesStore
  <1> QED
    BY <1>1, AccountsStartInv, AccountsStepInv, PTL DEF AccountsSpec

\* Only the check lets a request through.
LEMMA OnlyCheckAnswers ==
    ASSUME AccountsTypeOK, [AccountsNext]_accountVars, NEW w \in Worker,
           request[w].at = "check", request'[w].at \in {"serve", "issue"}
    PROVE  Check(w)
  <1>0. request \in [Worker -> Request] /\ Idle.at = "idle"
    BY IdleTyped DEF AccountsTypeOK
  <1>1. request'[w] # request[w]
    OBVIOUS
  <1>2. ~UNCHANGED request
    BY <1>1
  <1>3. ~(HandEdit \/ \E o \in Operator : ToolSave(o))
    <2> SUFFICES ASSUME HandEdit \/ \E o \in Operator : ToolSave(o) PROVE FALSE
      OBVIOUS
    <2>1. PICK f \in File : Write(f)
      BY WritesLeave
    <2>2. request'[w].at = request[w].at
      BY <2>1, WriteTyped
    <2> QED
      BY <2>2
  <1>4. PICK v \in Worker :
           \/ LoginArrives(v) \/ (\E t \in Token : CallArrives(v, t))
           \/ Stat(v) \/ Load(v) \/ AssignStore(v) \/ AssignStamp(v)
           \/ Check(v) \/ Issue(v) \/ Serve(v)
    BY <1>2, <1>3 DEF AccountsNext, accountVars, ToolLoad, TermEnds
  <1>5. \E n : Proceed(v, n)
    BY <1>0, <1>4, QuietMoves, RefreshMoves
  <1>6. v = w
    BY <1>0, <1>1, <1>5 DEF Proceed
  <1> QED
    BY <1>4, <1>6 DEF LoginArrives, CallArrives, Stat, Load, AssignStore, AssignStamp, Issue, Serve

\* authenticate lets nobody through whose account was withdrawn before the
\* request's refresh began, however writes fall into it.
THEOREM WithdrawalIsSeen == AccountsSpec => WithdrawnAccountIsRefused
  <1>1. ASSUME AccountsInv, [AccountsNext]_accountVars, NEW w \in Worker,
               request[w].at = "check", request'[w].at = "serve", ~overlapped
        PROVE  \E keys \in request[w].lawful : keys[request[w].who] # NoSecret
    <2>1. request \in [Worker -> Request] /\ AccountsTypeOK
      BY <1>1 DEF AccountsInv, AccountsTypeOK
    <2>2. Check(w)
      BY <1>1, <2>1, OnlyCheckAnswers
    <2>3. ASSUME NEW n, Proceed(w, n) PROVE request'[w] = n
      BY <2>1, <2>3 DEF Proceed
    <2>4. HasIdentity(w)
      BY <1>1, <2>1, <2>2, <2>3, PastTyped, ConsultTyped, IdleTyped DEF Check, Respond
    <2>5. copy.keys \in request[w].lawful
      BY <1>1 DEF AccountsInv, Stamped, Answerable, Refreshing
    <2> QED
      BY <2>4, <2>5 DEF HasIdentity
  <1>2. AccountsInv /\ [AccountsNext]_accountVars =>
           [\A w \in Worker :
               request[w].at = "check" /\ request'[w].at = "serve" /\ ~overlapped =>
                   \E keys \in request[w].lawful : keys[request[w].who] # NoSecret]_accountVars
    BY <1>1
  <1> QED
    BY <1>2, AccountsStartInv, AccountsStepInv, PTL DEF AccountsSpec, WithdrawnAccountIsRefused

\* login opens a session only with a secret that the file held at some moment
\* since the request's refresh began.
THEOREM SecretIsCurrent == AccountsSpec => LoginNeedsCurrentSecret
  <1>1. ASSUME AccountsInv, [AccountsNext]_accountVars, NEW w \in Worker,
               request[w].at = "check", request'[w].at = "issue", ~overlapped
        PROVE  \E keys \in request[w].lawful : keys[request[w].who] = request[w].secret
    <2>1. request \in [Worker -> Request] /\ AccountsTypeOK
      BY <1>1 DEF AccountsInv, AccountsTypeOK
    <2>2. Check(w)
      BY <1>1, <2>1, OnlyCheckAnswers
    <2>3. ASSUME NEW n, Proceed(w, n) PROVE request'[w] = n
      BY <2>1, <2>3 DEF Proceed
    <2>4. Verified(w)
      BY <1>1, <2>1, <2>2, <2>3, PastTyped, ConsultTyped, IdleTyped DEF Check, Respond
    <2>5. copy.keys \in request[w].lawful
      BY <1>1 DEF AccountsInv, Stamped, Answerable, Refreshing
    <2> QED
      BY <2>4, <2>5 DEF Verified
  <1>2. AccountsInv /\ [AccountsNext]_accountVars =>
           [\A w \in Worker :
               request[w].at = "check" /\ request'[w].at = "issue" /\ ~overlapped =>
                   \E keys \in request[w].lawful : keys[request[w].who] = request[w].secret]_accountVars
    BY <1>1
  <1> QED
    BY <1>2, AccountsStartInv, AccountsStepInv, PTL DEF AccountsSpec, LoginNeedsCurrentSecret

----------------------------------------------------------------------------
(* SpecRegistry: the dict as a sequence. *)

Entries(q)  == {q[i] : i \in DOMAIN q}
KeysIn(q)   == {q[i].key : i \in DOMAIN q}
Distinct(q) == \A i, j \in DOMAIN q : q[i].key = q[j].key => i = j

LEMMA RemovedAt ==
    ASSUME NEW S, NEW q \in Seq(S), NEW i \in DOMAIN q
    PROVE  /\ RemoveAt(q, i) \in Seq(S)
           /\ Len(RemoveAt(q, i)) = Len(q) - 1
           /\ \A j \in 1 .. (Len(q) - 1) : RemoveAt(q, i)[j] = IF j < i THEN q[j] ELSE q[j + 1]
  <1> DEFINE a == SubSeq(q, 1, i - 1)
             b == SubSeq(q, i + 1, Len(q))
  <1>1. i \in 1 .. Len(q) /\ Len(q) \in Nat
    OBVIOUS
  <1>2. a \in Seq(S) /\ Len(a) = i - 1 /\ \A j \in 1 .. (i - 1) : a[j] = q[j]
    BY <1>1
  <1>3. /\ b \in Seq(S) /\ Len(b) = Len(q) - i
        /\ \A j \in 1 .. (Len(q) - i) : b[j] = q[i + j]
    BY <1>1
  <1> HIDE DEF a, b
  <1>4. /\ a \o b \in Seq(S) /\ Len(a \o b) = Len(q) - 1
        /\ \A j \in 1 .. (Len(q) - 1) : (a \o b)[j] = IF j < i THEN q[j] ELSE q[j + 1]
    BY <1>1, <1>2, <1>3
  <1> QED
    BY <1>4 DEF RemoveAt, a, b

\* A spec deleted takes its key along and leaves the others as they are.
LEMMA DropsOne ==
    ASSUME NEW q \in Seq(EphemeralSpec), Distinct(q), NEW i \in DOMAIN q
    PROVE  LET d == RemoveAt(q, i)
           IN  /\ d \in Seq(EphemeralSpec) /\ Distinct(d) /\ Len(d) = Len(q) - 1
               /\ Entries(d) = Entries(q) \ {q[i]}
               /\ KeysIn(d) = KeysIn(q) \ {q[i].key}
  <1> DEFINE d == RemoveAt(q, i)
             from(j) == IF j < i THEN j ELSE j + 1
  <1>1. /\ d \in Seq(EphemeralSpec) /\ Len(d) = Len(q) - 1 /\ Len(q) \in Nat /\ i \in 1 .. Len(q)
        /\ \A j \in 1 .. (Len(q) - 1) : d[j] = IF j < i THEN q[j] ELSE q[j + 1]
    BY RemovedAt
  <1>2. DOMAIN d = 1 .. (Len(q) - 1) /\ DOMAIN q = 1 .. Len(q)
    BY <1>1
  <1> HIDE DEF d
  <1>3. \A j \in DOMAIN d : from(j) \in DOMAIN q /\ from(j) # i /\ d[j] = q[from(j)]
    BY <1>1, <1>2
  <1>4. \A j, k \in DOMAIN d : from(j) = from(k) => j = k
    BY <1>1, <1>2
  <1>5. \A m \in DOMAIN q : m # i => \E j \in DOMAIN d : m = from(j)
    <2> TAKE m \in DOMAIN q
    <2> HAVE m # i
    <2>1. CASE m < i
      BY <1>1, <1>2, <2>1
    <2>2. CASE m > i
      <3>1. m - 1 \in DOMAIN d /\ from(m - 1) = m
        BY <1>1, <1>2, <2>2
      <3> QED
        BY <3>1
    <2> QED
      BY <1>1, <1>2, <2>1, <2>2
  <1> HIDE DEF from
  <1>6. Distinct(d)
    BY <1>3, <1>4 DEF Distinct
  <1>7. \A m \in DOMAIN q : q[m].key = q[i].key => m = i
    BY DEF Distinct
  <1>8. Entries(d) = Entries(q) \ {q[i]}
    BY <1>3, <1>5, <1>7 DEF Entries
  <1>9. KeysIn(d) = KeysIn(q) \ {q[i].key}
    BY <1>3, <1>5, <1>7 DEF KeysIn
  <1> QED
    BY <1>1, <1>6, <1>8, <1>9 DEF d

LEMMA AppendsOne ==
    ASSUME NEW q \in Seq(EphemeralSpec), Distinct(q), NEW x \in EphemeralSpec,
           x.key \notin KeysIn(q)
    PROVE  LET a == Append(q, x)
           IN  /\ a \in Seq(EphemeralSpec) /\ Distinct(a) /\ Len(a) = Len(q) + 1
               /\ Entries(a) = Entries(q) \union {x} /\ KeysIn(a) = KeysIn(q) \union {x.key}
  <1> DEFINE a == Append(q, x)
             n == Len(q) + 1
  <1>1. /\ a \in Seq(EphemeralSpec) /\ Len(a) = n /\ DOMAIN a = DOMAIN q \union {n}
        /\ n \notin DOMAIN q /\ a[n] = x /\ \A i \in DOMAIN q : a[i] = q[i]
    OBVIOUS
  <1> HIDE DEF a, n
  <1>2. \A i \in DOMAIN q : q[i].key # x.key
    BY DEF KeysIn
  <1>3. Distinct(a)
    BY <1>1, <1>2 DEF Distinct
  <1>4. Entries(a) = Entries(q) \union {x} /\ KeysIn(a) = KeysIn(q) \union {x.key}
    BY <1>1 DEF Entries, KeysIn
  <1> QED
    BY <1>1, <1>3, <1>4 DEF a, n

\* Assigning a key that is there keeps the key and its place.
LEMMA ReplacesOne ==
    ASSUME NEW q \in Seq(EphemeralSpec), Distinct(q), NEW i \in DOMAIN q, NEW x \in EphemeralSpec,
           x.key = q[i].key
    PROVE  LET a == [q EXCEPT ![i] = x]
           IN  /\ a \in Seq(EphemeralSpec) /\ Distinct(a) /\ Len(a) = Len(q)
               /\ Entries(a) = (Entries(q) \ {q[i]}) \union {x} /\ KeysIn(a) = KeysIn(q)
  <1> DEFINE a == [q EXCEPT ![i] = x]
  <1>1. /\ a \in Seq(EphemeralSpec) /\ Len(a) = Len(q) /\ DOMAIN a = DOMAIN q
        /\ a[i] = x /\ \A j \in DOMAIN q \ {i} : a[j] = q[j]
    OBVIOUS
  <1> HIDE DEF a
  <1>2. \A j \in DOMAIN q \ {i} : q[j].key # q[i].key
    BY DEF Distinct
  <1>3. Distinct(a)
    BY <1>1, <1>2 DEF Distinct
  <1>4. Entries(a) = (Entries(q) \ {q[i]}) \union {x}
    BY <1>1, <1>2 DEF Entries
  <1>5. KeysIn(a) = KeysIn(q)
    BY <1>1 DEF KeysIn
  <1> QED
    BY <1>1, <1>3, <1>4, <1>5 DEF a

LEMMA EntriesAndKeys ==
    ASSUME NEW q
    PROVE  /\ \A x \in Entries(q) : x.key \in KeysIn(q)
           /\ \A k \in KeysIn(q) : \E x \in Entries(q) : x.key = k
  BY DEF Entries, KeysIn

\* As many keys as specs.
LEMMA KeysCounted ==
    ASSUME NEW q \in Seq(EphemeralSpec), Distinct(q)
    PROVE  IsFiniteSet(KeysIn(q)) /\ Cardinality(KeysIn(q)) = Len(q)
  <1> DEFINE f == [i \in 1 .. Len(q) |-> q[i].key]
  <1>1. Len(q) \in Nat /\ DOMAIN q = 1 .. Len(q)
    OBVIOUS
  <1>2. IsFiniteSet(1 .. Len(q)) /\ Cardinality(1 .. Len(q)) = Len(q)
    BY <1>1, FS_Interval
  <1>3. f \in [1 .. Len(q) -> KeysIn(q)]
    BY <1>1 DEF KeysIn
  <1>4. \A a, b \in 1 .. Len(q) : f[a] = f[b] => a = b
    BY <1>1 DEF Distinct
  <1>5. \A k \in KeysIn(q) : \E i \in 1 .. Len(q) : f[i] = k
    BY <1>1 DEF KeysIn
  <1> HIDE DEF f
  <1>6. f \in Injection(1 .. Len(q), KeysIn(q))
    BY <1>3, <1>4 DEF Injection, IsInjective
  <1>7. f \in Surjection(1 .. Len(q), KeysIn(q))
    BY <1>3, <1>5 DEF Surjection
  <1> QED
    BY <1>2, <1>6, <1>7, FS_Surjection

----------------------------------------------------------------------------
(* SpecRegistry: what each step does to the entries. *)

Tidy(q) == q \in Seq(EphemeralSpec) /\ Distinct(q)

Others(q, k) == {x \in Entries(q) : x.key # k}

LEMMA SpecsAreTidy ==
    ASSUME SpecTypeOK
    PROVE  /\ Tidy(specs) /\ SpecKeys = KeysIn(specs)
           /\ \A k \in SpecKeys : At(k) \in DOMAIN specs /\ specs[At(k)].key = k
  <1>1. Distinct(specs)
    BY DEF SpecTypeOK, IsInjective, Distinct
  <1>2. \A k \in SpecKeys : \E i \in DOMAIN specs : specs[i].key = k
    BY DEF SpecKeys
  <1>3. \A k \in SpecKeys : At(k) \in DOMAIN specs /\ specs[At(k)].key = k
    BY <1>2 DEF At
  <1> QED
    BY <1>1, <1>3 DEF SpecTypeOK, Tidy, SpecKeys, KeysIn

LEMMA TidyIsInjective ==
    ASSUME NEW q, Tidy(q)
    PROVE  q \in Seq(EphemeralSpec) /\ IsInjective([i \in DOMAIN q |-> q[i].key])
  BY DEF Tidy, Distinct, IsInjective

LEMMA SpecDropped ==
    ASSUME NEW q, Tidy(q), NEW i \in DOMAIN q
    PROVE  LET d == RemoveAt(q, i)
           IN  /\ Tidy(d) /\ Len(d) = Len(q) - 1
               /\ Entries(d) = Others(q, q[i].key) /\ KeysIn(d) = KeysIn(q) \ {q[i].key}
  <1>1. Entries(q) \ {q[i]} = Others(q, q[i].key)
    BY DEF Entries, Others, Tidy, Distinct
  <1> QED
    BY <1>1, DropsOne DEF Tidy

LEMMA SpecReplaced ==
    ASSUME NEW q, Tidy(q), NEW i \in DOMAIN q, NEW x \in EphemeralSpec, x.key = q[i].key
    PROVE  LET a == [q EXCEPT ![i] = x]
           IN  /\ Tidy(a) /\ Len(a) = Len(q)
               /\ Entries(a) = Others(q, x.key) \union {x} /\ KeysIn(a) = KeysIn(q)
  <1> DEFINE a == [q EXCEPT ![i] = x]
  <1>1. Entries(q) \ {q[i]} = Others(q, x.key)
    BY DEF Entries, Others, Tidy, Distinct
  <1>2. /\ a \in Seq(EphemeralSpec) /\ Distinct(a) /\ Len(a) = Len(q)
        /\ Entries(a) = (Entries(q) \ {q[i]}) \union {x} /\ KeysIn(a) = KeysIn(q)
    BY ReplacesOne DEF Tidy
  <1> HIDE DEF a
  <1> QED
    BY <1>1, <1>2 DEF Tidy, a

LEMMA SpecAppended ==
    ASSUME NEW q, Tidy(q), NEW x \in EphemeralSpec, x.key \notin KeysIn(q)
    PROVE  LET a == Append(q, x)
           IN  /\ Tidy(a) /\ Len(a) = Len(q) + 1
               /\ Entries(a) = Others(q, x.key) \union {x} /\ KeysIn(a) = KeysIn(q) \union {x.key}
  <1>1. Entries(q) = Others(q, x.key)
    BY DEF Entries, Others, KeysIn
  <1> QED
    BY <1>1, AppendsOne DEF Tidy

\* The request of s becomes r, the others stay.
Turns(s, r) ==
    /\ serving' \in [Server -> Serving]
    /\ serving'[s] = r
    /\ \A t \in Server \ {s} : serving'[t] = serving[t]

LEMMA TurnTurns ==
    ASSUME serving \in [Server -> Serving], NEW s \in Server, NEW r \in Serving, Turn(s, r)
    PROVE  Turns(s, r)
  BY DEF Turn, Turns

LEMMA AwayTyped ==
    Away \in Serving /\ Away.at = "idle" /\ Away.listed = {}
  <1> DEFINE any == CHOOSE k \in Key : TRUE
  <1>1. any \in Key
    <2>1. PICK o \in Owner, r \in Ref : TRUE
      BY KeyAssumption
    <2>2. <<o, r>> \in Key
      BY DEF Key
    <2> QED
      BY <2>2
  <1>2. 0 \in 0 .. MaxNow
    BY TermAssumption
  <1>3. Away = [at |-> "idle", op |-> "resolve", key |-> any, listed |-> {}, read |-> 0]
    BY DEF Away
  <1> HIDE DEF any
  <1> QED
    BY <1>1, <1>2, <1>3 DEF Serving

LEMMA EnterStep ==
    ASSUME SpecTypeOK, NEW s \in Server, NEW op \in {"register", "resolve"}, NEW key \in Key,
           Enter(s, op, key)
    PROVE  /\ Turns(s, serving'[s]) /\ serving'[s] \in Serving
           /\ serving'[s].at = "purge"
           /\ UNCHANGED <<now, live, specs, promised, crossed>>
           /\ serving[s].at \in {"idle", "fault"}
  <1> DEFINE n == [Away EXCEPT !.at = "purge", !.op = op, !.key = key]
  <1>1. n \in Serving /\ n.at = "purge"
    BY AwayTyped DEF Serving
  <1>2. Turn(s, n) /\ UNCHANGED <<now, live, specs, promised, crossed>>
        /\ serving[s].at \in {"idle", "fault"}
    BY DEF Enter
  <1> HIDE DEF n
  <1>3. Turns(s, n)
    BY <1>1, <1>2, TurnTurns DEF SpecTypeOK
  <1> QED
    BY <1>1, <1>2, <1>3 DEF Turns

LEMMA GoOnStep ==
    ASSUME SpecTypeOK, NEW s \in Server,
           NEW step \in {"insert", "measure", "evict", "find"}, GoOn(s, step)
    PROVE  /\ Turns(s, serving'[s]) /\ serving'[s] \in Serving
           /\ serving'[s].at = step /\ serving'[s].key = serving[s].key
           /\ serving'[s].read = serving[s].read
  <1> DEFINE q == serving[s]
             n == [q EXCEPT !.at = step]
  <1>1. q \in Serving
    BY DEF SpecTypeOK
  <1>2. Turn(s, n)
    BY DEF GoOn
  <1> HIDE DEF q
  <1>3. n \in Serving /\ n.at = step /\ n.key = q.key /\ n.read = q.read
    BY <1>1 DEF Serving
  <1> HIDE DEF n
  <1>4. Turns(s, n)
    BY <1>2, <1>3, TurnTurns DEF SpecTypeOK
  <1> QED
    BY <1>3, <1>4 DEF Turns, q

LEMMA FaultStep ==
    ASSUME SpecTypeOK, NEW s \in Server, Fault(s)
    PROVE  Turns(s, serving'[s]) /\ serving'[s] \in Serving /\ serving'[s].at = "fault"
  <1> DEFINE n == [Away EXCEPT !.at = "fault"]
  <1>1. n \in Serving /\ n.at = "fault"
    BY AwayTyped DEF Serving
  <1>2. Turn(s, n)
    BY DEF Fault
  <1> HIDE DEF n
  <1>3. Turns(s, n)
    BY <1>1, <1>2, TurnTurns DEF SpecTypeOK
  <1> QED
    BY <1>1, <1>3 DEF Turns

LEMMA ListStep ==
    ASSUME SpecTypeOK, NEW s \in Server, ListExpired(s)
    PROVE  /\ Turns(s, serving'[s]) /\ serving'[s] \in Serving
           /\ serving[s].at = "purge" /\ serving'[s].at = "delete" /\ serving'[s].read = now
           /\ serving'[s].listed = {x.key : x \in {y \in Entries(specs) : y.expires <= now}}
           /\ UNCHANGED <<now, live, specs, promised>>
           /\ crossed' \in BOOLEAN
           /\ ~crossed' => /\ ~crossed
                           /\ \A t \in Server \ {s} : serving[t].at \in {"idle", "purge", "fault"}
  <1> DEFINE q == serving[s]
             due == {specs[i].key : i \in {j \in DOMAIN specs : Expired(specs[j])}}
             n == [q EXCEPT !.at = "delete", !.read = now, !.listed = due]
  <1>1. q \in Serving /\ now \in 0 .. MaxNow
    BY DEF SpecTypeOK
  <1>2. due \subseteq Key
    <2>1. \A i \in DOMAIN specs : specs[i] \in EphemeralSpec
      BY DEF SpecTypeOK
    <2> QED
      BY <2>1 DEF EphemeralSpec
  <1>3. due = {x.key : x \in {y \in Entries(specs) : y.expires <= now}}
    BY DEF Entries, Expired
  <1>4. Turn(s, n) /\ q.at = "purge" /\ UNCHANGED <<now, live, specs, promised>>
    BY DEF ListExpired
  <1> HIDE DEF q, due
  <1>5. n \in Serving /\ n.at = "delete" /\ n.read = now /\ n.listed = due
    BY <1>1, <1>2 DEF Serving
  <1> HIDE DEF n
  <1>6. Turns(s, n)
    BY <1>4, <1>5, TurnTurns DEF SpecTypeOK
  <1>7. crossed' = (crossed \/ \E t \in Server \ {s} :
                                   serving[t].at \notin {"idle", "purge", "fault"})
    BY DEF ListExpired
  <1>8. crossed' \in BOOLEAN
    BY <1>7 DEF SpecTypeOK
  <1>9. /\ Turns(s, serving'[s]) /\ serving'[s] \in Serving
        /\ serving[s].at = "purge" /\ serving'[s].at = "delete" /\ serving'[s].read = now
        /\ serving'[s].listed = due
    BY <1>4, <1>5, <1>6 DEF Turns, q
  <1> QED
    BY <1>3, <1>4, <1>7, <1>8, <1>9

LEMMA ListFailsStep ==
    ASSUME SpecTypeOK, NEW s \in Server, ListFails(s)
    PROVE  /\ Turns(s, serving'[s]) /\ serving'[s] \in Serving
           /\ serving[s].at = "purge" /\ serving'[s].at = "fault"
           /\ UNCHANGED <<now, live, specs, promised>> /\ crossed' = TRUE
  BY FaultStep DEF ListFails

\* The key k and its entry are gone.
Forgets(k) ==
    /\ Tidy(specs') /\ Len(specs') = Len(specs) - 1 /\ k \in KeysIn(specs)
    /\ Entries(specs)' = Others(specs, k) /\ KeysIn(specs)' = KeysIn(specs) \ {k}

LEMMA DeleteStep ==
    ASSUME SpecTypeOK, NEW s \in Server, Delete(s)
    PROVE  /\ Turns(s, serving'[s]) /\ serving'[s] \in Serving
           /\ serving[s].at = "delete" /\ UNCHANGED <<now, live, promised, crossed>>
           /\ \/ /\ specs' = specs /\ serving[s].listed = {}
                 /\ serving'[s].at \in {"insert", "find"}
                 /\ serving'[s].key = serving[s].key /\ serving'[s].read = serving[s].read
              \/ \E k \in serving[s].listed :
                    /\ Forgets(k) /\ serving'[s].at = "delete"
                    /\ serving'[s].listed = serving[s].listed \ {k}
                    /\ serving'[s].read = serving[s].read
              \/ \E k \in serving[s].listed :
                    specs' = specs /\ k \notin KeysIn(specs) /\ serving'[s].at = "fault"
  <1> DEFINE q == serving[s]
  <1>0. q.at = "delete" /\ UNCHANGED <<now, live, promised, crossed>> /\ q \in Serving
    BY DEF Delete, SpecTypeOK
  <1>1. CASE q.listed = {}
    <2>1. /\ specs' = specs
          /\ GoOn(s, IF serving[s].op = "register" THEN "insert" ELSE "find")
      BY <1>1 DEF Delete
    <2>2. GoOn(s, "insert") \/ GoOn(s, "find")
      BY <2>1
    <2>3. /\ Turns(s, serving'[s]) /\ serving'[s] \in Serving
          /\ serving'[s].at \in {"insert", "find"}
          /\ serving'[s].key = serving[s].key /\ serving'[s].read = serving[s].read
      BY <2>2, GoOnStep
    <2> QED
      BY <1>0, <1>1, <2>1, <2>3
  <1>2. CASE q.listed # {}
    <2>1. PICK k \in q.listed :
             IF k \in SpecKeys
             THEN /\ specs' = RemoveAt(specs, At(k))
                  /\ Turn(s, [serving[s] EXCEPT !.listed = @ \ {k}])
             ELSE Fault(s) /\ UNCHANGED specs
      BY <1>2 DEF Delete
    <2>2. CASE k \in SpecKeys
      <3> DEFINE n == [q EXCEPT !.listed = q.listed \ {k}]
      <3>1. Turn(s, n) /\ specs' = RemoveAt(specs, At(k))
        BY <2>1, <2>2
      <3>2. Forgets(k)
        <4>1. Tidy(specs) /\ At(k) \in DOMAIN specs /\ specs[At(k)].key = k /\ k \in KeysIn(specs)
          BY <2>2, SpecsAreTidy
        <4> DEFINE i == At(k)
        <4> HIDE DEF i
        <4>2. specs' = RemoveAt(specs, i) /\ i \in DOMAIN specs /\ specs[i].key = k
          BY <3>1, <4>1 DEF i
        <4> DEFINE d == RemoveAt(specs, i)
        <4>3. /\ Tidy(d) /\ Len(d) = Len(specs) - 1
              /\ Entries(d) = Others(specs, k) /\ KeysIn(d) = KeysIn(specs) \ {k}
          BY <4>1, <4>2, SpecDropped
        <4>4. specs' = d
          BY <4>2
        <4> HIDE DEF d
        <4>5. Entries(specs)' = Entries(d) /\ KeysIn(specs)' = KeysIn(d)
          BY <4>4 DEF Entries, KeysIn
        <4> QED
          BY <4>1, <4>3, <4>4, <4>5 DEF Forgets
      <3> HIDE DEF q
      <3>3. n \in Serving /\ n.at = "delete" /\ n.listed = q.listed \ {k} /\ n.read = q.read
        BY <1>0 DEF Serving
      <3> HIDE DEF n
      <3>4. Turns(s, n)
        BY <3>1, <3>3, TurnTurns DEF SpecTypeOK
      <3>5. /\ Turns(s, serving'[s]) /\ serving'[s] \in Serving /\ serving'[s].at = "delete"
            /\ serving'[s].listed = q.listed \ {k} /\ serving'[s].read = q.read
        BY <3>3, <3>4 DEF Turns
      <3> QED
        BY <1>0, <3>2, <3>5 DEF q
    <2>3. CASE k \notin SpecKeys
      <3>1. Fault(s) /\ specs' = specs
        BY <2>1, <2>3
      <3>2. k \notin KeysIn(specs)
        BY <2>3, SpecsAreTidy
      <3> QED
        BY <1>0, <3>1, <3>2, FaultStep
    <2> QED
      BY <2>2, <2>3
  <1> QED
    BY <1>1, <1>2

\* The key k has one entry, with the expiry e.
Records(k, e) ==
    /\ Tidy(specs')
    /\ Entries(specs)' = Others(specs, k) \union {[key |-> k, expires |-> e]}
    /\ KeysIn(specs)' = KeysIn(specs) \union {k}

LEMMA InsertStep ==
    ASSUME SpecTypeOK, NEW s \in Server, Insert(s)
    PROVE  /\ Turns(s, serving'[s]) /\ serving'[s] \in Serving
           /\ serving[s].at = "insert" /\ UNCHANGED <<now, live, crossed>>
           /\ serving'[s].at = "move" /\ serving'[s].key = serving[s].key
           /\ serving[s].key \in Key /\ now + Term \in 0 .. MaxNow + Term
           /\ promised' = [promised EXCEPT ![serving[s].key] = now + Term]
           /\ Records(serving[s].key, now + Term)
  <1> DEFINE q == serving[s]
             n == [q EXCEPT !.at = "move", !.read = 0]
             k == q.key
             x == [key |-> k, expires |-> now + Term]
  <1>1. q \in Serving /\ now + Term \in 0 .. MaxNow + Term /\ 0 \in 0 .. MaxNow
    BY TermAssumption DEF SpecTypeOK
  <1>2. k \in Key
    BY <1>1 DEF Serving
  <1>3. /\ q.at = "insert" /\ UNCHANGED <<now, live, crossed>> /\ Turn(s, n)
        /\ promised' = [promised EXCEPT ![k] = now + Term]
        /\ specs' = IF k \in SpecKeys THEN [specs EXCEPT ![At(k)] = x] ELSE Append(specs, x)
    BY DEF Insert
  <1>4. x \in EphemeralSpec /\ x.key = k
    BY <1>1, <1>2 DEF EphemeralSpec
  <1>5. Tidy(specs) /\ SpecKeys = KeysIn(specs)
    BY SpecsAreTidy
  <1> HIDE DEF q
  <1>6. n \in Serving /\ n.at = "move" /\ n.key = k
    BY <1>1 DEF Serving
  <1> HIDE DEF n
  <1>7. Turns(s, n)
    BY <1>3, <1>6, TurnTurns DEF SpecTypeOK
  <1> HIDE DEF k, x
  <1>8. Records(k, now + Term)
    <2>1. CASE k \in SpecKeys
      <3> DEFINE i == At(k)
      <3>1. i \in DOMAIN specs /\ specs[i].key = k
        BY <2>1, SpecsAreTidy
      <3> HIDE DEF i
      <3> DEFINE a == [specs EXCEPT ![i] = x]
      <3>2. /\ Tidy(a) /\ Entries(a) = Others(specs, k) \union {x}
            /\ KeysIn(a) = KeysIn(specs)
        <4>1. x \in EphemeralSpec /\ x.key = specs[i].key /\ i \in DOMAIN specs /\ Tidy(specs)
          BY <1>4, <1>5, <3>1
        <4>2. /\ Tidy(a) /\ Entries(a) = Others(specs, x.key) \union {x}
              /\ KeysIn(a) = KeysIn(specs)
          BY <4>1, SpecReplaced
        <4> QED
          BY <1>4, <4>2
      <3>3. specs' = a
        BY <1>3, <2>1 DEF i
      <3> HIDE DEF a
      <3>4. Entries(specs)' = Entries(a) /\ KeysIn(specs)' = KeysIn(a)
        BY <3>3 DEF Entries, KeysIn
      <3> QED
        BY <1>5, <2>1, <3>2, <3>3, <3>4 DEF Records, x
    <2>2. CASE k \notin SpecKeys
      <3> DEFINE a == Append(specs, x)
      <3>1. /\ Tidy(a) /\ Entries(a) = Others(specs, k) \union {x}
            /\ KeysIn(a) = KeysIn(specs) \union {k}
        BY <1>4, <1>5, <2>2, SpecAppended
      <3>2. specs' = a
        BY <1>3, <2>2
      <3> HIDE DEF a
      <3>3. Entries(specs)' = Entries(a) /\ KeysIn(specs)' = KeysIn(a)
        BY <3>2 DEF Entries, KeysIn
      <3> QED
        BY <3>1, <3>2, <3>3 DEF Records, x
    <2> QED
      BY <2>1, <2>2
  <1> QED
    BY <1>1, <1>2, <1>3, <1>6, <1>7, <1>8 DEF Turns, q, k

LEMMA MoveStep ==
    ASSUME SpecTypeOK, NEW s \in Server, MoveToEnd(s)
    PROVE  /\ Turns(s, serving'[s]) /\ serving'[s] \in Serving
           /\ serving[s].at = "move" /\ UNCHANGED <<now, live, promised, crossed>>
           /\ \/ /\ serving[s].key \in KeysIn(specs) /\ serving'[s].at = "measure"
                 /\ Tidy(specs') /\ Entries(specs)' = Entries(specs)
                 /\ KeysIn(specs)' = KeysIn(specs)
              \/ /\ serving[s].key \notin KeysIn(specs) /\ serving'[s].at = "fault"
                 /\ specs' = specs
  <1> DEFINE k == serving[s].key
  <1>1. serving[s].at = "move" /\ UNCHANGED <<now, live, promised, crossed>>
    BY DEF MoveToEnd
  <1>2. Tidy(specs) /\ SpecKeys = KeysIn(specs)
    BY SpecsAreTidy
  <1>3. CASE k \in SpecKeys
    <2>1. specs' = Append(RemoveAt(specs, At(k)), specs[At(k)]) /\ GoOn(s, "measure")
      BY <1>3 DEF MoveToEnd
    <2>2. /\ Turns(s, serving'[s]) /\ serving'[s] \in Serving /\ serving'[s].at = "measure"
      BY <2>1, GoOnStep
    <2> DEFINE i == At(k)
    <2>3. i \in DOMAIN specs /\ specs[i].key = k
      BY <1>3, SpecsAreTidy
    <2> HIDE DEF i
    <2> DEFINE d == RemoveAt(specs, i)
               a == Append(d, specs[i])
    <2>4. /\ Tidy(d) /\ Entries(d) = Others(specs, specs[i].key)
          /\ KeysIn(d) = KeysIn(specs) \ {specs[i].key}
      BY <1>2, <2>3, SpecDropped
    <2>5. specs' = a
      BY <2>1 DEF i
    <2>6. specs[i] \in EphemeralSpec /\ specs[i] \in Entries(specs)
      BY <2>3 DEF SpecTypeOK, Entries
    <2> HIDE DEF d
    <2>7. specs[i].key \notin KeysIn(d)
      BY <2>4
    <2>8. /\ Tidy(a) /\ Entries(a) = Others(d, specs[i].key) \union {specs[i]}
          /\ KeysIn(a) = KeysIn(d) \union {specs[i].key}
      BY <2>4, <2>6, <2>7, SpecAppended
    <2>9. Others(d, specs[i].key) = Others(specs, specs[i].key)
      BY <2>4 DEF Others
    <2>10. Others(specs, specs[i].key) \union {specs[i]} = Entries(specs)
      BY <1>2, <2>3 DEF Others, Entries, Tidy, Distinct
    <2>11. KeysIn(a) = KeysIn(specs)
      BY <1>2, <1>3, <2>3, <2>4, <2>8
    <2> HIDE DEF a
    <2>12. Entries(specs)' = Entries(a) /\ KeysIn(specs)' = KeysIn(a)
      BY <2>5 DEF Entries, KeysIn
    <2> QED
      BY <1>1, <1>2, <1>3, <2>2, <2>5, <2>8, <2>9, <2>10, <2>11, <2>12
  <1>4. CASE k \notin SpecKeys
    <2>1. Fault(s) /\ specs' = specs
      BY <1>4 DEF MoveToEnd
    <2> QED
      BY <1>1, <1>2, <1>4, <2>1, FaultStep
  <1> QED
    BY <1>3, <1>4

LEMMA MeasureStep ==
    ASSUME SpecTypeOK, NEW s \in Server, Measure(s)
    PROVE  /\ Turns(s, serving'[s]) /\ serving'[s] \in Serving
           /\ serving[s].at = "measure" /\ UNCHANGED <<now, live, specs, promised, crossed>>
           /\ \/ serving'[s].at = "evict" /\ Len(specs) > Capacity
              \/ serving'[s].at = "idle" /\ Len(specs) <= Capacity
  <1>1. serving[s].at = "measure" /\ UNCHANGED <<now, live, specs, promised, crossed>>
    BY DEF Measure
  <1>2. CASE TooLong
    <2>1. GoOn(s, "evict") /\ Len(specs) > Capacity
      BY <1>2 DEF Measure, TooLong
    <2> QED
      BY <1>1, <2>1, GoOnStep
  <1>3. CASE ~TooLong
    <2>1. Turn(s, Away) /\ Len(specs) <= Capacity
      BY <1>3, CapacityAssumption DEF Measure, TooLong, SpecTypeOK
    <2>2. Turns(s, Away) /\ Away \in Serving /\ Away.at = "idle"
      BY <2>1, AwayTyped, TurnTurns DEF SpecTypeOK
    <2> QED
      BY <1>1, <2>1, <2>2 DEF Turns
  <1> QED
    BY <1>2, <1>3

LEMMA EvictStep ==
    ASSUME SpecTypeOK, NEW s \in Server, Evict(s)
    PROVE  /\ Turns(s, serving'[s]) /\ serving'[s] \in Serving
           /\ serving[s].at = "evict" /\ UNCHANGED <<now, live, crossed>>
           /\ \/ /\ Len(specs) = 0 /\ specs = <<>> /\ UNCHANGED <<specs, promised>>
                 /\ serving'[s].at = "fault"
              \/ /\ serving'[s].at = "measure"
                 /\ \E k \in Key : Forgets(k) /\ promised' = [promised EXCEPT ![k] = 0]
  <1>1. serving[s].at = "evict" /\ UNCHANGED <<now, live, crossed>>
    BY DEF Evict
  <1>2. CASE specs = <<>>
    <2>1. Fault(s) /\ UNCHANGED <<specs, promised>>
      BY <1>2 DEF Evict
    <2> QED
      BY <1>1, <1>2, <2>1, FaultStep
  <1>3. CASE specs # <<>>
    <2> DEFINE k == specs[1].key
    <2>1. /\ specs' = RemoveAt(specs, 1) /\ GoOn(s, "measure")
          /\ promised' = [promised EXCEPT ![k] = 0]
      BY <1>3 DEF Evict, Evicted
    <2>2. Tidy(specs) /\ 1 \in DOMAIN specs
      BY <1>3, SpecsAreTidy DEF Tidy
    <2>3. specs[1] \in EphemeralSpec
      BY <2>2 DEF Tidy
    <2>4. k \in Key /\ k \in KeysIn(specs)
      BY <2>2, <2>3 DEF EphemeralSpec, KeysIn
    <2> DEFINE d == RemoveAt(specs, 1)
    <2>5. /\ Tidy(d) /\ Len(d) = Len(specs) - 1
          /\ Entries(d) = Others(specs, k) /\ KeysIn(d) = KeysIn(specs) \ {k}
      BY <2>2, SpecDropped
    <2>6. specs' = d
      BY <2>1
    <2> HIDE DEF d
    <2>7. Entries(specs)' = Entries(d) /\ KeysIn(specs)' = KeysIn(d)
      BY <2>6 DEF Entries, KeysIn
    <2>8. Forgets(k)
      BY <2>4, <2>5, <2>6, <2>7 DEF Forgets
    <2>9. Turns(s, serving'[s]) /\ serving'[s] \in Serving /\ serving'[s].at = "measure"
      BY <2>1, GoOnStep
    <2> QED
      BY <1>1, <2>1, <2>4, <2>8, <2>9
  <1> QED
    BY <1>2, <1>3

LEMMA FindStep ==
    ASSUME SpecTypeOK, NEW s \in Server, Find(s)
    PROVE  /\ Turns(s, serving'[s]) /\ serving'[s] \in Serving /\ serving'[s].at = "idle"
           /\ serving[s].at = "find" /\ UNCHANGED <<now, live, specs, promised, crossed>>
  <1>1. Turn(s, Away) /\ serving[s].at = "find" /\ UNCHANGED <<now, live, specs, promised, crossed>>
    BY DEF Find
  <1>2. Turns(s, Away) /\ Away \in Serving /\ Away.at = "idle"
    BY <1>1, AwayTyped, TurnTurns DEF SpecTypeOK
  <1> QED
    BY <1>1, <1>2 DEF Turns

\* Steps of nobody inside the store.
LEMMA TimePasses ==
    ASSUME SpecTypeOK, Tick \/ SessionEnds \/ UNCHANGED specVars
    PROVE  /\ now' \in 0 .. MaxNow /\ now <= now' /\ live' \subseteq Owner
           /\ UNCHANGED <<specs, serving, promised, crossed>>
  BY TermAssumption DEF SpecTypeOK, Tick, SessionEnds, specVars

----------------------------------------------------------------------------
(* SpecRegistry: the inductive invariant. *)

\* A purge has listed every spec that had expired when it read the clock, and what it has
\* not deleted yet it still means to delete; nothing older is left for resolve.
Purged ==
    \A s \in Server :
        /\ serving[s].at = "delete" =>
              /\ serving[s].read <= now
              /\ \A x \in Entries(specs) : x.expires <= serving[s].read =>
                     x.key \in serving[s].listed
        /\ serving[s].at = "find" =>
              /\ serving[s].read <= now
              /\ \A x \in Entries(specs) : x.expires > serving[s].read

\* Specs beyond the capacity are there for a registration that has yet to move its own key.
Unmoved == {k \in KeysIn(specs) : \A s \in Server : serving[s].at = "move" => serving[s].key # k}

Bounded ==
    \/ \E s \in Server : serving[s].at \in {"measure", "evict"}
    \/ Cardinality(Unmoved) <= Capacity

Recorded == \A x \in Entries(specs) : x.expires = promised[x.key]

Inside(s) == serving[s].at \notin {"idle", "purge", "fault"}

\* While requests have not met inside the store.
Single == \A s, t \in Server : Inside(s) /\ Inside(t) => s = t

Kept == \A k \in Key : promised[k] > now => k \in KeysIn(specs)

Sure(s) ==
    /\ serving[s].at # "fault"
    /\ serving[s].at = "delete" =>
          /\ serving[s].read <= now
          /\ \A k \in serving[s].listed : k \in KeysIn(specs) /\ promised[k] <= serving[s].read
    /\ serving[s].at = "move" => serving[s].key \in KeysIn(specs)
    /\ serving[s].at = "evict" => Len(specs) > Capacity

Uncrossed == Single /\ Kept /\ \A s \in Server : Sure(s)

SpecInv == SpecTypeOK /\ Purged /\ Bounded /\ Recorded /\ (~crossed => Uncrossed)

LEMMA SpecTypeStep ==
    SpecTypeOK /\ [SpecNext]_specVars => SpecTypeOK'
  <1> SUFFICES ASSUME SpecTypeOK, [SpecNext]_specVars PROVE SpecTypeOK'
    OBVIOUS
  <1> DEFINE StillTyped == /\ now' \in 0 .. MaxNow /\ live' \subseteq Owner /\ Tidy(specs')
                      /\ promised' \in [Key -> 0 .. MaxNow + Term] /\ crossed' \in BOOLEAN
  <1>1. ASSUME StillTyped, serving' \in [Server -> Serving] PROVE SpecTypeOK'
    <2>1. specs' \in Seq(EphemeralSpec) /\ IsInjective([i \in DOMAIN specs' |-> specs'[i].key])
      BY <1>1, TidyIsInjective
    <2> QED
      BY <1>1, <2>1 DEF SpecTypeOK
  <1>2. now \in 0 .. MaxNow /\ live \subseteq Owner /\ Tidy(specs) /\ crossed \in BOOLEAN
        /\ promised \in [Key -> 0 .. MaxNow + Term] /\ serving \in [Server -> Serving]
    BY SpecsAreTidy DEF SpecTypeOK
  <1>3. CASE Tick \/ SessionEnds \/ UNCHANGED specVars
    BY <1>1, <1>2, <1>3, TimePasses
  <1>4. ASSUME NEW s \in Server, NEW op \in {"register", "resolve"}, NEW k \in Key, Enter(s, op, k)
        PROVE  SpecTypeOK'
    BY <1>1, <1>2, <1>4, EnterStep DEF Turns
  <1>5. ASSUME NEW s \in Server, ListExpired(s) PROVE SpecTypeOK'
    BY <1>1, <1>2, <1>5, ListStep DEF Turns
  <1>12. ASSUME NEW s \in Server, ListFails(s) PROVE SpecTypeOK'
    BY <1>1, <1>2, <1>12, ListFailsStep DEF Turns
  <1>6. ASSUME NEW s \in Server, Delete(s) PROVE SpecTypeOK'
    BY <1>1, <1>2, <1>6, DeleteStep DEF Turns, Forgets
  <1>7. ASSUME NEW s \in Server, Insert(s) PROVE SpecTypeOK'
    BY <1>1, <1>2, <1>7, InsertStep DEF Turns, Records
  <1>8. ASSUME NEW s \in Server, MoveToEnd(s) PROVE SpecTypeOK'
    BY <1>1, <1>2, <1>8, MoveStep DEF Turns
  <1>9. ASSUME NEW s \in Server, Measure(s) PROVE SpecTypeOK'
    BY <1>1, <1>2, <1>9, MeasureStep DEF Turns
  <1>10. ASSUME NEW s \in Server, Evict(s) PROVE SpecTypeOK'
    <2>1. 0 \in 0 .. MaxNow + Term
      BY TermAssumption
    <2> QED
      BY <1>1, <1>2, <1>10, <2>1, EvictStep DEF Turns, Forgets
  <1>11. ASSUME NEW s \in Server, Find(s) PROVE SpecTypeOK'
    BY <1>1, <1>2, <1>11, FindStep DEF Turns
  <1> QED
    BY <1>3, <1>4, <1>5, <1>6, <1>7, <1>8, <1>9, <1>10, <1>11, <1>12 DEF SpecNext

LEMMA SpecTypeInit ==
    SpecInit => SpecTypeOK
  <1> SUFFICES ASSUME SpecInit PROVE SpecTypeOK
    OBVIOUS
  <1>1. now \in 0 .. MaxNow /\ promised \in [Key -> 0 .. MaxNow + Term]
    BY TermAssumption DEF SpecInit
  <1>2. Tidy(specs)
    BY DEF SpecInit, Tidy, Distinct
  <1>3. serving \in [Server -> Serving]
    BY AwayTyped DEF SpecInit
  <1> QED
    BY <1>1, <1>2, <1>3, TidyIsInjective DEF SpecInit, SpecTypeOK

\* What the arithmetic needs of the types.
LEMMA Times ==
    ASSUME SpecTypeOK
    PROVE  /\ now \in Int /\ Term \in Int /\ Term > 0 /\ Capacity \in Int
           /\ \A x \in Entries(specs) : x \in EphemeralSpec /\ x.expires \in Int /\ x.key \in Key
           /\ \A s \in Server : serving[s].read \in Int /\ serving[s].key \in Key
           /\ \A k \in Key : promised[k] \in Int
  <1>1. \A x \in Entries(specs) : x \in EphemeralSpec
    BY DEF SpecTypeOK, Entries
  <1>2. \A s \in Server : serving[s] \in Serving
    BY DEF SpecTypeOK
  <1>3. \A x \in EphemeralSpec : x.expires \in Int /\ x.key \in Key
    BY TermAssumption DEF EphemeralSpec
  <1>4. \A r \in Serving : r.read \in Int /\ r.key \in Key
    BY TermAssumption DEF Serving
  <1>5. now \in Int /\ \A k \in Key : promised[k] \in Int
    BY TermAssumption DEF SpecTypeOK
  <1> QED
    BY <1>1, <1>2, <1>3, <1>4, <1>5, TermAssumption, CapacityAssumption

LEMMA KeysOfEntries ==
    ASSUME NEW q
    PROVE  KeysIn(q) = {x.key : x \in Entries(q)}
  BY DEF KeysIn, Entries

LEMMA PurgedStep ==
    SpecTypeOK /\ Purged /\ [SpecNext]_specVars => Purged'
  <1> SUFFICES ASSUME SpecTypeOK, Purged, [SpecNext]_specVars PROVE Purged'
    OBVIOUS
  <1> DEFINE Mine(s) ==
                /\ serving[s].at = "delete" =>
                      /\ serving[s].read <= now
                      /\ \A x \in Entries(specs) : x.expires <= serving[s].read =>
                             x.key \in serving[s].listed
                /\ serving[s].at = "find" =>
                      /\ serving[s].read <= now
                      /\ \A x \in Entries(specs) : x.expires > serving[s].read
  <1>0. \A s \in Server : Mine(s)
    BY DEF Purged
  <1>1. ASSUME \A s \in Server : Mine(s)' PROVE Purged'
    BY <1>1 DEF Purged
  <1>2. ASSUME NEW s \in Server, now \in Int, now' \in Int, now <= now', serving'[s] = serving[s],
               \A x \in Entries(specs)' : x \in Entries(specs) \/ x.expires > now
        PROVE  Mine(s)'
    <2>1. \A x \in Entries(specs)' : x.expires \in Int
      <3>1. SpecTypeOK'
        BY SpecTypeStep
      <3>2. \A i \in DOMAIN specs' : specs'[i] \in EphemeralSpec
        BY <3>1 DEF SpecTypeOK
      <3>3. \A y \in EphemeralSpec : y.expires \in Int
        BY TermAssumption DEF EphemeralSpec
      <3> QED
        BY <3>2, <3>3 DEF Entries
    <2> QED
      BY <1>0, <1>2, <2>1, Times
  <1>3. CASE Tick \/ SessionEnds \/ UNCHANGED specVars
    <2>1. now' \in Int /\ now <= now' /\ UNCHANGED <<specs, serving>>
      BY <1>3, TimePasses, TermAssumption
    <2>2. Entries(specs)' = Entries(specs)
      BY <2>1 DEF Entries
    <2> QED
      BY <1>1, <1>2, <2>1, <2>2, Times
  <1>4. ASSUME NEW s \in Server, NEW op \in {"register", "resolve"}, NEW k \in Key, Enter(s, op, k)
        PROVE  Purged'
    <2>1. Turns(s, serving'[s]) /\ serving'[s].at = "purge" /\ UNCHANGED <<now, specs>>
      BY <1>4, EnterStep
    <2>2. Entries(specs)' = Entries(specs)
      BY <2>1 DEF Entries
    <2> QED
      BY <1>1, <1>2, <2>1, <2>2, Times DEF Turns
  <1>5. ASSUME NEW s \in Server, ListExpired(s) PROVE Purged'
    <2>1. /\ Turns(s, serving'[s]) /\ serving'[s].at = "delete" /\ serving'[s].read = now
          /\ serving'[s].listed = {x.key : x \in {y \in Entries(specs) : y.expires <= now}}
          /\ UNCHANGED <<now, specs>>
      BY <1>5, ListStep
    <2>2. Entries(specs)' = Entries(specs)
      BY <2>1 DEF Entries
    <2>3. Mine(s)'
      BY <2>1, <2>2, Times
    <2> QED
      BY <1>1, <1>2, <2>1, <2>2, <2>3, Times DEF Turns
  <1>13. ASSUME NEW s \in Server, ListFails(s) PROVE Purged'
    <2>1. Turns(s, serving'[s]) /\ serving'[s].at = "fault" /\ UNCHANGED <<now, specs>>
      BY <1>13, ListFailsStep
    <2>2. Entries(specs)' = Entries(specs)
      BY <2>1 DEF Entries
    <2> QED
      BY <1>1, <1>2, <2>1, <2>2, Times DEF Turns
  <1>6. ASSUME NEW s \in Server, Delete(s) PROVE Purged'
    <2>1. Turns(s, serving'[s]) /\ serving[s].at = "delete" /\ UNCHANGED now
      BY <1>6, DeleteStep
    <2>2. CASE /\ specs' = specs /\ serving[s].listed = {}
               /\ serving'[s].at \in {"insert", "find"} /\ serving'[s].read = serving[s].read
      <3>1. Entries(specs)' = Entries(specs)
        BY <2>2 DEF Entries
      <3>2. Mine(s)'
        BY <1>0, <2>1, <2>2, <3>1, Times
      <3> QED
        BY <1>1, <1>2, <2>1, <3>1, <3>2, Times DEF Turns
    <2>3. ASSUME NEW k \in serving[s].listed, Forgets(k), serving'[s].at = "delete",
                 serving'[s].listed = serving[s].listed \ {k}, serving'[s].read = serving[s].read
          PROVE  Purged'
      <3>1. Entries(specs)' = Others(specs, k)
        BY <2>3 DEF Forgets
      <3>2. \A x \in Entries(specs)' : x \in Entries(specs) /\ x.key # k
        BY <3>1 DEF Others
      <3>3. Mine(s)'
        BY <1>0, <2>1, <2>3, <3>2
      <3> QED
        BY <1>1, <1>2, <2>1, <3>2, <3>3, Times DEF Turns
    <2>4. CASE specs' = specs /\ serving'[s].at = "fault"
      <3>1. Entries(specs)' = Entries(specs)
        BY <2>4 DEF Entries
      <3> QED
        BY <1>1, <1>2, <2>1, <2>4, <3>1, Times DEF Turns
    <2> QED
      BY <1>6, <2>2, <2>3, <2>4, DeleteStep
  <1>7. ASSUME NEW s \in Server, Insert(s) PROVE Purged'
    <2> DEFINE k == serving[s].key
               x == [key |-> k, expires |-> now + Term]
    <2>1. Turns(s, serving'[s]) /\ serving'[s].at = "move" /\ Records(k, now + Term) /\ UNCHANGED now
      BY <1>7, InsertStep
    <2>2. Entries(specs)' = Others(specs, k) \union {x}
      BY <2>1 DEF Records
    <2>3. x.expires > now
      BY Times
    <2> HIDE DEF x
    <2>4. \A y \in Entries(specs)' : y \in Entries(specs) \/ y.expires > now
      BY <2>2, <2>3 DEF Others
    <2> QED
      BY <1>1, <1>2, <2>1, <2>4, Times DEF Turns
  <1>8. ASSUME NEW s \in Server, MoveToEnd(s) PROVE Purged'
    <2>1. /\ Turns(s, serving'[s]) /\ UNCHANGED now /\ serving'[s].at \in {"measure", "fault"}
          /\ Entries(specs)' = Entries(specs)
      BY <1>8, MoveStep DEF Entries
    <2> QED
      BY <1>1, <1>2, <2>1, Times DEF Turns
  <1>9. ASSUME NEW s \in Server, Measure(s) PROVE Purged'
    <2>1. /\ Turns(s, serving'[s]) /\ UNCHANGED now /\ serving'[s].at \in {"evict", "idle"}
          /\ Entries(specs)' = Entries(specs)
      BY <1>9, MeasureStep DEF Entries
    <2> QED
      BY <1>1, <1>2, <2>1, Times DEF Turns
  <1>10. ASSUME NEW s \in Server, Evict(s) PROVE Purged'
    <2>1. /\ Turns(s, serving'[s]) /\ UNCHANGED now /\ serving'[s].at \in {"measure", "fault"}
          /\ \A x \in Entries(specs)' : x \in Entries(specs)
      BY <1>10, EvictStep DEF Entries, Forgets, Others
    <2> QED
      BY <1>1, <1>2, <2>1, Times DEF Turns
  <1>11. ASSUME NEW s \in Server, Find(s) PROVE Purged'
    <2>1. /\ Turns(s, serving'[s]) /\ UNCHANGED now /\ serving'[s].at = "idle"
          /\ Entries(specs)' = Entries(specs)
      BY <1>11, FindStep DEF Entries
    <2> QED
      BY <1>1, <1>2, <2>1, Times DEF Turns
  <1> QED
    BY <1>3, <1>4, <1>5, <1>6, <1>7, <1>8, <1>9, <1>10, <1>11, <1>13 DEF SpecNext

\* One key less, or one more that is about to be moved, never counts more.
LEMMA CountsNoMore ==
    ASSUME SpecTypeOK, Tidy(specs'), Unmoved' \subseteq Unmoved, Cardinality(Unmoved) <= Capacity
    PROVE  Cardinality(Unmoved') <= Capacity
  <1>1. IsFiniteSet(KeysIn(specs))
    BY SpecsAreTidy, KeysCounted DEF Tidy
  <1>2. IsFiniteSet(Unmoved)
    BY <1>1, FS_Subset DEF Unmoved
  <1> HIDE DEF Unmoved
  <1>3. Cardinality(Unmoved') <= Cardinality(Unmoved) /\ IsFiniteSet(Unmoved')
    BY <1>2, FS_Subset
  <1>4. Cardinality(Unmoved) \in Nat /\ Cardinality(Unmoved') \in Nat
    BY <1>2, <1>3, FS_CardinalityType
  <1> QED
    BY <1>3, <1>4, CapacityAssumption

LEMMA BoundedStep ==
    SpecTypeOK /\ Bounded /\ [SpecNext]_specVars => Bounded'
  <1> SUFFICES ASSUME SpecTypeOK, Bounded, [SpecNext]_specVars PROVE Bounded'
    OBVIOUS
  <1>0. SpecTypeOK' /\ Tidy(specs')
    <2>1. SpecTypeOK'
      BY SpecTypeStep
    <2>2. IsInjective([i \in DOMAIN specs' |-> specs'[i].key]) /\ specs' \in Seq(EphemeralSpec)
      BY <2>1 DEF SpecTypeOK
    <2> QED
      BY <2>1, <2>2 DEF Tidy, Distinct, IsInjective
  <1>1. ASSUME NEW s \in Server, Turns(s, serving'[s]),
               serving[s].at \notin {"measure", "evict"}, Unmoved' \subseteq Unmoved
        PROVE  Bounded'
    <2>1. CASE \E t \in Server : serving[t].at \in {"measure", "evict"}
      BY <1>1, <2>1 DEF Bounded, Turns
    <2>2. CASE Cardinality(Unmoved) <= Capacity
      BY <1>0, <1>1, <2>2, CountsNoMore DEF Bounded
    <2> QED
      BY <2>1, <2>2 DEF Bounded
  <1>2. ASSUME NEW s \in Server, serving'[s].at \in {"measure", "evict"} PROVE Bounded'
    BY <1>2 DEF Bounded
  <1>3. CASE Tick \/ SessionEnds \/ UNCHANGED specVars
    <2>1. specs' = specs /\ serving' = serving
      BY <1>3, TimePasses
    <2>2. Unmoved' = Unmoved
      BY <2>1 DEF Unmoved, KeysIn
    <2> QED
      BY <2>1, <2>2 DEF Bounded
  <1>4. ASSUME NEW s \in Server, NEW op \in {"register", "resolve"}, NEW k \in Key, Enter(s, op, k)
        PROVE  Bounded'
    <2>1. /\ Turns(s, serving'[s]) /\ serving'[s].at = "purge" /\ UNCHANGED specs
          /\ serving[s].at \in {"idle", "fault"}
      BY <1>4, EnterStep
    <2>2. Unmoved' \subseteq Unmoved
      BY <2>1 DEF Unmoved, KeysIn, Turns
    <2> QED
      BY <1>1, <2>1, <2>2
  <1>5. ASSUME NEW s \in Server, ListExpired(s) PROVE Bounded'
    <2>1. /\ Turns(s, serving'[s]) /\ serving'[s].at = "delete" /\ UNCHANGED specs
          /\ serving[s].at = "purge"
      BY <1>5, ListStep
    <2>2. Unmoved' \subseteq Unmoved
      BY <2>1 DEF Unmoved, KeysIn, Turns
    <2> QED
      BY <1>1, <2>1, <2>2
  <1>13. ASSUME NEW s \in Server, ListFails(s) PROVE Bounded'
    <2>1. /\ Turns(s, serving'[s]) /\ serving'[s].at = "fault" /\ UNCHANGED specs
          /\ serving[s].at = "purge"
      BY <1>13, ListFailsStep
    <2>2. Unmoved' \subseteq Unmoved
      BY <2>1 DEF Unmoved, KeysIn, Turns
    <2> QED
      BY <1>1, <2>1, <2>2
  <1>6. ASSUME NEW s \in Server, Delete(s) PROVE Bounded'
    <2>1. /\ Turns(s, serving'[s]) /\ serving[s].at = "delete"
          /\ KeysIn(specs)' \subseteq KeysIn(specs)
      BY <1>6, DeleteStep DEF KeysIn, Forgets
    <2>2. Unmoved' \subseteq Unmoved
      BY <2>1 DEF Unmoved, Turns
    <2> QED
      BY <1>1, <2>1, <2>2
  <1>7. ASSUME NEW s \in Server, Insert(s) PROVE Bounded'
    <2>1. /\ Turns(s, serving'[s]) /\ serving[s].at = "insert"
          /\ serving'[s].at = "move" /\ serving'[s].key = serving[s].key
          /\ KeysIn(specs)' = KeysIn(specs) \union {serving[s].key}
      BY <1>7, InsertStep DEF Records
    <2>2. Unmoved' \subseteq Unmoved
      BY <2>1 DEF Unmoved, Turns
    <2> QED
      BY <1>1, <2>1, <2>2
  <1>8. ASSUME NEW s \in Server, MoveToEnd(s) PROVE Bounded'
    <2>1. CASE serving'[s].at = "measure"
      BY <1>2, <2>1
    <2>2. CASE /\ serving[s].key \notin KeysIn(specs) /\ serving'[s].at = "fault"
               /\ specs' = specs
      <3>1. Turns(s, serving'[s]) /\ serving[s].at = "move"
        BY <1>8, MoveStep
      <3>2. Unmoved' \subseteq Unmoved
        BY <2>2, <3>1 DEF Unmoved, KeysIn, Turns
      <3> QED
        BY <1>1, <3>1, <3>2
    <2> QED
      BY <1>8, <2>1, <2>2, MoveStep
  <1>9. ASSUME NEW s \in Server, Len(specs') <= Capacity PROVE Bounded'
    <2>1. IsFiniteSet(KeysIn(specs')) /\ Cardinality(KeysIn(specs')) = Len(specs')
      BY <1>0, KeysCounted DEF Tidy
    <2>2. Unmoved' \subseteq KeysIn(specs')
      BY DEF Unmoved, KeysIn
    <2>3. IsFiniteSet(Unmoved') /\ Cardinality(Unmoved') <= Len(specs')
      BY <2>1, <2>2, FS_Subset
    <2>4. Cardinality(Unmoved') \in Nat /\ Len(specs') \in Nat
      BY <1>0, <2>3, FS_CardinalityType DEF SpecTypeOK
    <2>5. Cardinality(Unmoved') <= Capacity
      BY <1>9, <2>3, <2>4, CapacityAssumption
    <2> QED
      BY <2>5 DEF Bounded
  <1>10. ASSUME NEW s \in Server, Measure(s) PROVE Bounded'
    <2>1. CASE serving'[s].at = "evict"
      BY <1>2, <2>1
    <2>2. CASE Len(specs) <= Capacity
      <3>1. specs' = specs
        BY <1>10, MeasureStep
      <3> QED
        BY <1>9, <2>2, <3>1
    <2> QED
      BY <1>10, <2>1, <2>2, MeasureStep
  <1>11. ASSUME NEW s \in Server, Evict(s) PROVE Bounded'
    <2>1. CASE serving'[s].at = "measure"
      BY <1>2, <2>1
    <2>2. CASE specs' = specs /\ Len(specs) = 0
      BY <1>9, <2>2, CapacityAssumption
    <2> QED
      BY <1>11, <2>1, <2>2, EvictStep
  <1>12. ASSUME NEW s \in Server, Find(s) PROVE Bounded'
    <2>1. /\ Turns(s, serving'[s]) /\ serving'[s].at = "idle" /\ UNCHANGED specs
          /\ serving[s].at = "find"
      BY <1>12, FindStep
    <2>2. Unmoved' \subseteq Unmoved
      BY <2>1 DEF Unmoved, KeysIn, Turns
    <2> QED
      BY <1>1, <2>1, <2>2
  <1> QED
    BY <1>3, <1>4, <1>5, <1>6, <1>7, <1>8, <1>10, <1>11, <1>12, <1>13 DEF SpecNext

LEMMA RecordedStep ==
    SpecTypeOK /\ Recorded /\ [SpecNext]_specVars => Recorded'
  <1> SUFFICES ASSUME SpecTypeOK, Recorded, [SpecNext]_specVars PROVE Recorded'
    OBVIOUS
  <1>1. ASSUME UNCHANGED promised, \A x \in Entries(specs)' : x \in Entries(specs)
        PROVE  Recorded'
    BY <1>1 DEF Recorded
  <1>2. CASE Tick \/ SessionEnds \/ UNCHANGED specVars
    BY <1>1, <1>2, TimePasses DEF Entries
  <1>3. ASSUME NEW s \in Server, NEW op \in {"register", "resolve"}, NEW k \in Key, Enter(s, op, k)
        PROVE  Recorded'
    BY <1>1, <1>3, EnterStep DEF Entries
  <1>4. ASSUME NEW s \in Server, ListExpired(s) PROVE Recorded'
    BY <1>1, <1>4, ListStep DEF Entries
  <1>12. ASSUME NEW s \in Server, ListFails(s) PROVE Recorded'
    BY <1>1, <1>12, ListFailsStep DEF Entries
  <1>5. ASSUME NEW s \in Server, Delete(s) PROVE Recorded'
    BY <1>1, <1>5, DeleteStep DEF Entries, Forgets, Others
  <1>6. ASSUME NEW s \in Server, NEW k \in Key, NEW e,
               promised' = [promised EXCEPT ![k] = e],
               \A x \in Entries(specs)' : \/ x \in Others(specs, k)
                                          \/ x.key = k /\ x.expires = e
        PROVE  Recorded'
    <2>1. promised'[k] = e /\ \A l \in Key \ {k} : promised'[l] = promised[l]
      BY <1>6 DEF SpecTypeOK
    <2>2. ASSUME NEW x \in Entries(specs)' PROVE x.expires = promised'[x.key]
      <3>1. CASE x \in Others(specs, k)
        BY <2>1, <3>1, Times DEF Others, Recorded
      <3>2. CASE x.key = k /\ x.expires = e
        BY <2>1, <3>2
      <3> QED
        BY <1>6, <3>1, <3>2
    <2> QED
      BY <2>2 DEF Recorded
  <1>7. ASSUME NEW s \in Server, Insert(s) PROVE Recorded'
    <2> DEFINE k == serving[s].key
    <2>1. /\ Records(k, now + Term) /\ k \in Key
          /\ promised' = [promised EXCEPT ![k] = now + Term]
      BY <1>7, InsertStep
    <2> HIDE DEF k
    <2> DEFINE e == now + Term
    <2>2. promised' = [promised EXCEPT ![k] = e]
      BY <2>1
    <2>3. Entries(specs)' = Others(specs, k) \union {[key |-> k, expires |-> e]}
      BY <2>1 DEF Records
    <2> HIDE DEF e
    <2>4. \A x \in Entries(specs)' : x \in Others(specs, k) \/ (x.key = k /\ x.expires = e)
      BY <2>3
    <2> QED
      BY <1>6, <2>1, <2>2, <2>4
  <1>8. ASSUME NEW s \in Server, MoveToEnd(s) PROVE Recorded'
    BY <1>1, <1>8, MoveStep DEF Entries
  <1>9. ASSUME NEW s \in Server, Measure(s) PROVE Recorded'
    BY <1>1, <1>9, MeasureStep DEF Entries
  <1>10. ASSUME NEW s \in Server, Evict(s) PROVE Recorded'
    <2>1. CASE specs' = specs /\ promised' = promised
      BY <1>1, <2>1 DEF Entries
    <2>2. ASSUME NEW k \in Key, Forgets(k), promised' = [promised EXCEPT ![k] = 0]
          PROVE  Recorded'
      BY <1>6, <2>2 DEF Forgets
    <2> QED
      BY <1>10, <2>1, <2>2, EvictStep
  <1>11. ASSUME NEW s \in Server, Find(s) PROVE Recorded'
    BY <1>1, <1>11, FindStep DEF Entries
  <1> QED
    BY <1>2, <1>3, <1>4, <1>5, <1>7, <1>8, <1>9, <1>10, <1>11, <1>12 DEF SpecNext

LEMMA UncrossedStep ==
    /\ SpecTypeOK /\ Recorded /\ (~crossed => Uncrossed) /\ [SpecNext]_specVars
    => (~crossed => Uncrossed)'
  <1> SUFFICES ASSUME SpecTypeOK, Recorded, ~crossed => Uncrossed, [SpecNext]_specVars, ~crossed'
               PROVE  Uncrossed'
    OBVIOUS
  <1>1. CASE Tick \/ SessionEnds \/ UNCHANGED specVars
    <2>1. Uncrossed /\ UNCHANGED <<specs, serving, promised>> /\ now' \in Int /\ now <= now'
      BY <1>1, TimePasses, TermAssumption
    <2>2. Single' /\ KeysIn(specs)' = KeysIn(specs)
      BY <2>1 DEF Uncrossed, Single, Inside, KeysIn
    <2>3. Kept'
      BY <2>1, <2>2, Times DEF Uncrossed, Kept
    <2>4. \A s \in Server : Sure(s)'
      BY <2>1, <2>2, Times DEF Uncrossed, Sure
    <2> QED
      BY <2>2, <2>3, <2>4 DEF Uncrossed
  <1>2. ASSUME Uncrossed, NEW s \in Server, Turns(s, serving'[s]), Inside(s)' => Inside(s),
               \A t \in Server \ {s} : Inside(t) => UNCHANGED <<now, specs, promised>>,
               UNCHANGED now, Kept', Sure(s)'
        PROVE  Uncrossed'
    <2>1. Single'
      BY <1>2 DEF Uncrossed, Single, Inside, Turns
    <2>2. ASSUME NEW t \in Server \ {s} PROVE Sure(t)'
      <3>1. Sure(t) /\ serving'[t] = serving[t]
        BY <1>2 DEF Uncrossed, Turns
      <3>2. CASE Inside(t)
        BY <1>2, <3>1, <3>2 DEF Sure, KeysIn
      <3>3. CASE ~Inside(t)
        BY <3>1, <3>3 DEF Sure, Inside
      <3> QED
        BY <3>2, <3>3
    <2> QED
      BY <1>2, <2>1, <2>2 DEF Uncrossed
  <1>3. ASSUME Uncrossed, UNCHANGED <<now, promised, specs>> PROVE Kept'
    BY <1>3 DEF Uncrossed, Kept, KeysIn
  <1>4. ASSUME Uncrossed, NEW s \in Server, Inside(s) PROVE \A t \in Server \ {s} : ~Inside(t)
    BY <1>4 DEF Uncrossed, Single
  <1>5. ASSUME NEW s \in Server, NEW op \in {"register", "resolve"}, NEW k \in Key, Enter(s, op, k)
        PROVE  Uncrossed'
    <2>1. Uncrossed /\ Turns(s, serving'[s]) /\ serving'[s].at = "purge"
          /\ UNCHANGED <<now, specs, promised>>
      BY <1>5, EnterStep
    <2>2. Sure(s)' /\ ~Inside(s)'
      BY <2>1 DEF Sure, Inside
    <2> QED
      BY <1>2, <1>3, <2>1, <2>2
  <1>6. ASSUME NEW s \in Server, ListExpired(s) PROVE Uncrossed'
    <2>1. /\ Turns(s, serving'[s]) /\ serving'[s].at = "delete" /\ serving'[s].read = now
          /\ serving'[s].listed = {x.key : x \in {y \in Entries(specs) : y.expires <= now}}
          /\ UNCHANGED <<now, specs, promised>> /\ Uncrossed
          /\ \A t \in Server \ {s} : serving[t].at \in {"idle", "purge", "fault"}
      BY <1>6, ListStep
    <2>2. KeysIn(specs)' = KeysIn(specs)
      BY <2>1 DEF KeysIn
    <2>3. Sure(s)'
      BY <2>1, <2>2, KeysOfEntries, Times DEF Sure, Recorded
    <2>4. Single'
      BY <2>1 DEF Single, Inside, Turns
    <2>5. \A t \in Server \ {s} : Sure(t)'
      BY <2>1 DEF Uncrossed, Sure, Turns
    <2> QED
      BY <1>3, <2>1, <2>3, <2>4, <2>5 DEF Uncrossed
  <1>13. ASSUME NEW s \in Server, ListFails(s) PROVE FALSE
    BY <1>13, ListFailsStep
  <1>7. ASSUME NEW s \in Server, Delete(s) PROVE Uncrossed'
    <2>1. /\ Uncrossed /\ Turns(s, serving'[s]) /\ serving[s].at = "delete"
          /\ UNCHANGED <<now, promised>> /\ serving[s] \in Serving
      BY <1>7, DeleteStep DEF SpecTypeOK
    <2>2. Sure(s) /\ Inside(s) /\ \A t \in Server \ {s} : ~Inside(t)
      BY <1>4, <2>1 DEF Uncrossed, Inside
    <2>3. CASE specs' = specs /\ serving'[s].at \in {"insert", "find"}
      <3>1. Sure(s)'
        BY <2>3 DEF Sure
      <3> QED
        BY <1>2, <1>3, <2>1, <2>2, <2>3, <3>1
    <2>4. ASSUME NEW k \in serving[s].listed, Forgets(k), serving'[s].at = "delete",
                 serving'[s].listed = serving[s].listed \ {k}, serving'[s].read = serving[s].read
          PROVE  Uncrossed'
      <3>1. /\ promised[k] <= serving[s].read /\ serving[s].read <= now /\ k \in Key
            /\ KeysIn(specs)' = KeysIn(specs) \ {k}
        BY <2>1, <2>2, <2>4 DEF Sure, Forgets, Serving
      <3>2. Sure(s)'
        BY <2>1, <2>2, <2>4, <3>1 DEF Sure
      <3>3. Kept'
        BY <2>1, <3>1, Times DEF Uncrossed, Kept
      <3> QED
        BY <1>2, <2>1, <2>2, <3>2, <3>3
    <2>5. ASSUME NEW k \in serving[s].listed, k \notin KeysIn(specs) PROVE FALSE
      BY <2>1, <2>2, <2>5 DEF Sure
    <2> QED
      BY <1>7, <2>3, <2>4, <2>5, DeleteStep
  <1>8. ASSUME NEW s \in Server, Insert(s) PROVE Uncrossed'
    <2> DEFINE k == serving[s].key
    <2>1. /\ Uncrossed /\ Turns(s, serving'[s]) /\ serving[s].at = "insert" /\ UNCHANGED now
          /\ serving'[s].at = "move" /\ serving'[s].key = k /\ k \in Key
          /\ promised' = [promised EXCEPT ![k] = now + Term]
          /\ KeysIn(specs)' = KeysIn(specs) \union {k}
      BY <1>8, InsertStep DEF Records
    <2>2. Inside(s) /\ \A t \in Server \ {s} : ~Inside(t)
      BY <1>4, <2>1 DEF Inside
    <2>3. Sure(s)'
      BY <2>1 DEF Sure
    <2>4. \A l \in Key \ {k} : promised'[l] = promised[l]
      BY <2>1 DEF SpecTypeOK
    <2>5. Kept'
      BY <2>1, <2>4 DEF Uncrossed, Kept
    <2> QED
      BY <1>2, <2>1, <2>2, <2>3, <2>5
  <1>9. ASSUME NEW s \in Server, MoveToEnd(s) PROVE Uncrossed'
    <2>1. /\ Uncrossed /\ Turns(s, serving'[s]) /\ serving[s].at = "move"
          /\ UNCHANGED <<now, promised>>
      BY <1>9, MoveStep
    <2>2. Sure(s) /\ Inside(s) /\ \A t \in Server \ {s} : ~Inside(t)
      BY <1>4, <2>1 DEF Uncrossed, Inside
    <2>3. serving'[s].at = "measure" /\ KeysIn(specs)' = KeysIn(specs)
      BY <1>9, <2>1, <2>2, MoveStep DEF Sure
    <2>4. Sure(s)'
      BY <2>3 DEF Sure
    <2>5. Kept'
      BY <2>1, <2>3 DEF Uncrossed, Kept
    <2> QED
      BY <1>2, <2>1, <2>2, <2>4, <2>5
  <1>10. ASSUME NEW s \in Server, Measure(s) PROVE Uncrossed'
    <2>1. /\ Uncrossed /\ Turns(s, serving'[s]) /\ serving[s].at = "measure"
          /\ UNCHANGED <<now, specs, promised>>
          /\ \/ serving'[s].at = "evict" /\ Len(specs) > Capacity
             \/ serving'[s].at = "idle"
      BY <1>10, MeasureStep
    <2>2. Sure(s)' /\ Inside(s)
      BY <2>1 DEF Sure, Inside
    <2> QED
      BY <1>2, <1>3, <2>1, <2>2
  <1>11. ASSUME NEW s \in Server, Evict(s) PROVE Uncrossed'
    <2>1. /\ Uncrossed /\ Turns(s, serving'[s]) /\ serving[s].at = "evict" /\ UNCHANGED now
      BY <1>11, EvictStep
    <2>2. Sure(s) /\ Inside(s) /\ \A t \in Server \ {s} : ~Inside(t)
      BY <1>4, <2>1 DEF Uncrossed, Inside
    <2>3. Len(specs) > Capacity
      BY <2>1, <2>2 DEF Sure
    <2>4. serving'[s].at = "measure" /\ \E k \in Key : Forgets(k) /\ promised' = [promised EXCEPT ![k] = 0]
      BY <1>11, <2>3, EvictStep, CapacityAssumption
    <2>5. Sure(s)'
      BY <2>4 DEF Sure
    <2>6. PICK k \in Key : Forgets(k) /\ promised' = [promised EXCEPT ![k] = 0]
      BY <2>4
    <2>7. /\ promised'[k] = 0 /\ \A l \in Key \ {k} : promised'[l] = promised[l]
          /\ KeysIn(specs)' = KeysIn(specs) \ {k}
      BY <2>6 DEF SpecTypeOK, Forgets
    <2>8. ~(0 > now)
      BY TermAssumption DEF SpecTypeOK
    <2>9. Kept'
      BY <2>1, <2>7, <2>8 DEF Uncrossed, Kept
    <2> QED
      BY <1>2, <2>1, <2>2, <2>5, <2>9
  <1>12. ASSUME NEW s \in Server, Find(s) PROVE Uncrossed'
    <2>1. /\ Uncrossed /\ Turns(s, serving'[s]) /\ serving[s].at = "find"
          /\ UNCHANGED <<now, specs, promised>> /\ serving'[s].at = "idle"
      BY <1>12, FindStep
    <2>2. Sure(s)' /\ Inside(s)
      BY <2>1 DEF Sure, Inside
    <2> QED
      BY <1>2, <1>3, <2>1, <2>2
  <1> QED
    BY <1>1, <1>5, <1>6, <1>7, <1>8, <1>9, <1>10, <1>11, <1>12, <1>13 DEF SpecNext

LEMMA SpecInvHolds ==
    SpecSpec => []SpecInv
  <1>1. SpecInit => SpecInv
    <2> SUFFICES ASSUME SpecInit PROVE SpecInv
      OBVIOUS
    <2>1. SpecTypeOK /\ Entries(specs) = {} /\ KeysIn(specs) = {}
      BY SpecTypeInit DEF SpecInit, Entries, KeysIn
    <2>2. \A s \in Server : serving[s].at = "idle"
      BY AwayTyped DEF SpecInit
    <2>3. Purged /\ Recorded
      BY <2>1, <2>2 DEF Purged, Recorded
    <2>4. Unmoved = {}
      BY <2>1 DEF Unmoved
    <2>5. Bounded
      BY <2>4, FS_EmptySet, CapacityAssumption DEF Bounded
    <2>6. Kept
      BY DEF SpecInit, Kept
    <2>7. Single /\ \A s \in Server : Sure(s)
      BY <2>2 DEF Single, Inside, Sure
    <2> QED
      BY <2>1, <2>3, <2>5, <2>6, <2>7 DEF SpecInv, Uncrossed
  <1>2. SpecInv /\ [SpecNext]_specVars => SpecInv'
    BY SpecTypeStep, PurgedStep, BoundedStep, RecordedStep, UncrossedStep DEF SpecInv
  <1> QED
    BY <1>1, <1>2, PTL DEF SpecSpec

(***************************************************************************)
(* EphemeralSpecStore: every spec the dict holds has one key, and every    *)
(* request inside the store is at a step of its own with well-formed       *)
(* arguments, for any owners, queries, threads, TTL and capacity.          *)
(***************************************************************************)
THEOREM RegistryTypeCorrect ==
    SpecSpec => []SpecTypeOK
  BY SpecInvHolds, PTL DEF SpecInv

(***************************************************************************)
(* resolve: whatever other requests purge, register and evict between its  *)
(* own purge and its lookup, the spec it finds had not expired when it     *)
(* purged.                                                                 *)
(***************************************************************************)
THEOREM ExpiredIsNeverServed ==
    SpecSpec => []ServedWhileGood
  <1>1. SpecInv => ServedWhileGood
    <2> SUFFICES ASSUME SpecInv, NEW s \in Server, serving[s].at = "find",
                        serving[s].key \in SpecKeys
                 PROVE  specs[At(serving[s].key)].expires > serving[s].read
      BY DEF ServedWhileGood
    <2>1. At(serving[s].key) \in DOMAIN specs
      BY SpecsAreTidy DEF SpecInv
    <2>2. specs[At(serving[s].key)] \in Entries(specs)
      BY <2>1 DEF Entries
    <2> QED
      BY <2>2 DEF SpecInv, Purged
  <1> QED
    BY <1>1, SpecInvHolds, PTL

(***************************************************************************)
(* register: once no registration is between its insertion and the end of  *)
(* its evictions, the store is within its capacity, although any number    *)
(* of requests measure and evict at once.                                  *)
(***************************************************************************)
THEOREM StoreStaysBounded ==
    SpecSpec => []CapacityHolds
  <1>1. SpecInv => CapacityHolds
    <2> SUFFICES ASSUME SpecInv, \A s \in Server : serving[s].at \notin {"move", "measure", "evict"}
                 PROVE  Len(specs) <= Capacity
      BY DEF CapacityHolds
    <2>1. Unmoved = KeysIn(specs)
      BY DEF Unmoved
    <2>2. Cardinality(KeysIn(specs)) <= Capacity
      BY <2>1 DEF SpecInv, Bounded
    <2>3. Cardinality(KeysIn(specs)) = Len(specs)
      BY SpecsAreTidy, KeysCounted DEF SpecInv, Tidy
    <2> QED
      BY <2>2, <2>3
  <1> QED
    BY <1>1, SpecInvHolds, PTL

(***************************************************************************)
(* As long as requests have not met inside the store, a ref is there until *)
(* its term is over or its spec has been evicted, and no request fails on  *)
(* a KeyError of the dict.                                                 *)
(***************************************************************************)
THEOREM RefIsKept ==
    SpecSpec => []RefLivesItsTerm
  <1>1. SpecInv => RefLivesItsTerm
    <2> SUFFICES ASSUME SpecInv, ~crossed
                 PROVE  /\ \A k \in Key : promised[k] > now => k \in SpecKeys
                        /\ \A s \in Server : serving[s].at # "fault"
      BY DEF RefLivesItsTerm
    <2>1. Kept /\ \A s \in Server : Sure(s)
      BY DEF SpecInv, Uncrossed
    <2>2. SpecKeys = KeysIn(specs)
      BY SpecsAreTidy DEF SpecInv
    <2> QED
      BY <2>1, <2>2 DEF Kept, Sure
  <1> QED
    BY <1>1, SpecInvHolds, PTL
===============================================================================
