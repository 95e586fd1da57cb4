------------------------------- MODULE Question -------------------------------
(***************************************************************************)
(* One question to the graph QA agent (agents/graph_qa): the tiers of      *)
(* GraphQaPipeline.answer, the bounded loop of tier2.run_tier2 under them, *)
(* and the bridge of agent.py that relays the pipeline's steps, from the   *)
(* worker thread it runs on, to the stream the console reads.              *)
(*                                                                         *)
(* What a model or the graph replies is a choice; only whether a reply can *)
(* be used, and whether a result has rows, is kept.  Tokens are counted up *)
(* to the budget, which is all they are compared with.  Prompts, timings,  *)
(* traces, the ledger and the :AgentRun node (best-effort) are left out.   *)
(***************************************************************************)
EXTENDS Integers

CONSTANTS
    MaxFixRetries,  \* MAX_FIX_RETRIES
    MaxIterations,  \* MAX_ITERATIONS
    VoteSamples,    \* VOTE_SAMPLES
    MaxClarified,   \* bound: terms that the person has clarified before
    TokenBudget,    \* token_budget
    CallTokens      \* what one call may cost

ASSUME QuestionAssumption ==
    /\ MaxFixRetries \in Nat /\ MaxIterations \in Nat /\ VoteSamples \in Nat \ {0}
    /\ MaxClarified \in Nat /\ TokenBudget \in Nat /\ CallTokens \subseteq Nat /\ CallTokens # {}

VARIABLES
    run,        \* the pipeline and its envelope
    stream,     \* the agent's side: how it stands, and the steps still to relay
    calls,      \* envelope.metrics.llm_calls
    overrun,    \* history: calls made once the budget was used up, outside Tier 1
    found       \* history: some retrieval of Tiers 0 and 1 returned rows

questionVars == <<run, stream, calls, overrun, found>>

Result == {"none", "empty", "rows"}

\* spec and t2c are what the two retrievals of Tier 1 gave; rows is what the answer is
\* drawn from.  tier2 tells whose sub-question text2cypher works on.
Run ==
    [at: {"start", "router", "spec", "generate", "try", "fix", "choose", "answer",
          "round", "vote", "decompose", "gathered", "close", "solve", "ended", "failed"},
     spec: Result, t2c: Result, rows: Result, attempt: Nat, tier2: BOOLEAN,
     iteration: Nat, votes: Nat, enhance: Nat, evidence: Nat, tokens: 0 .. TokenBudget,
     forced: BOOLEAN, exhausted: BOOLEAN,
     tier: {"unanswered", "declared", "clarification", "spec", "text2cypher", "tier2"}]

Asked ==
    [at |-> "start", spec |-> "none", t2c |-> "none", rows |-> "none", attempt |-> 0,
     tier2 |-> FALSE, iteration |-> 0, votes |-> 0, enhance |-> 0, evidence |-> 0,
     tokens |-> 0, forced |-> FALSE, exhausted |-> FALSE, tier |-> "unanswered"]

Ended == run.at \in {"ended", "failed"}

----------------------------------------------------------------------------
(* A step of the pipeline, the steps it posts, and a call of the model.    *)

Post(n) == stream' = [stream EXCEPT !.waiting = @ + n]

Quiet == UNCHANGED <<stream, calls, overrun, found>>

Goto(step) == run' = [run EXCEPT !.at = step]

OverBudget == run.tokens >= TokenBudget

Spend(cost) == IF run.tokens + cost > TokenBudget THEN TokenBudget ELSE run.tokens + cost

\* _llm: the provider replies, and the call and its tokens are counted; r is the
\* envelope after it but for the tokens.
Call(r) ==
    /\ \E cost \in CallTokens : run' = [r EXCEPT !.tokens = Spend(cost)]
    /\ calls' = calls + 1
    /\ overrun' = overrun + (IF run.tier2 /\ OverBudget THEN 1 ELSE 0)

\* The provider raises, and nobody in between catches it: agent.py reports an error.
CallFails ==
    /\ Goto("failed")
    /\ Quiet

----------------------------------------------------------------------------
(* answer: Tier 0 and the router. *)

\* A declared term is answered from its declaration.  Else a question with terms posts a
\* step for each clarification it came with, and is asked about if a term is left unknown.
Open ==
    /\ run.at = "start"
    /\ \/ run' = [run EXCEPT !.at = "ended", !.tier = "declared"] /\ Post(1)
       \/ \E clarified \in 0 .. MaxClarified :
             \/ Goto("router") /\ Post(clarified)
             \/ /\ run' = [run EXCEPT !.at = "ended", !.tier = "clarification"]
                /\ Post(clarified + 1)
    /\ UNCHANGED <<calls, overrun, found>>

\* The router names a spec, or none: an unreadable reply and a spec outside the scope
\* are none.
Route ==
    /\ run.at = "router"
    /\ \E next \in {"spec", "generate"} : Call([run EXCEPT !.at = next])
    /\ Post(1)
    /\ UNCHANGED found

\* _run_spec: an unknown id gives nothing, and a failing read nothing but a step.
RunSpec ==
    /\ run.at = "spec"
    /\ \E result \in Result, posted \in {0, 1} :
          /\ posted = 0 => result = "none"
          /\ run' = [run EXCEPT !.spec = result, !.rows = result,
                                !.tier = IF result = "none" THEN @ ELSE "spec",
                                !.at = IF result = "rows" THEN "answer" ELSE "generate"]
          /\ found' = (found \/ result = "rows")
          /\ Post(posted)
    /\ UNCHANGED <<calls, overrun>>

----------------------------------------------------------------------------
(* _run_text2cypher, for Tier 1 or for a sub-question of Tier 2. *)

Generate ==
    /\ run.at = "generate"
    /\ Call([run EXCEPT !.at = "try", !.attempt = 0])
    /\ UNCHANGED <<stream, found>>

\* What text2cypher returns to: Tier 1's choice, or the round of Tier 2.
Returned(result) ==
    IF run.tier2
    THEN [run EXCEPT !.at = "gathered", !.attempt = 0,
                     !.evidence = IF result = "none" THEN @ ELSE @ + 1]
    ELSE [run EXCEPT !.at = "choose", !.attempt = 0, !.t2c = result]

\* Mutant: one fix more than the maximum.
RetriesLeftOnceMore == run.attempt <= MaxFixRetries

RetriesLeft == run.attempt < MaxFixRetries

\* The query runs, or it is refused, empty or fails and is sent back to be fixed.
Try ==
    /\ run.at = "try"
    /\ Post(1)
    /\ \/ \E result \in {"empty", "rows"} :
             /\ run' = Returned(result)
             /\ found' = (found \/ (result = "rows" /\ ~run.tier2))
       \/ /\ run' = IF RetriesLeft THEN [run EXCEPT !.at = "fix"] ELSE Returned("none")
          /\ UNCHANGED found
    /\ UNCHANGED <<calls, overrun>>

FixQuery ==
    /\ run.at = "fix"
    /\ Call([run EXCEPT !.at = "try", !.attempt = @ + 1])
    /\ UNCHANGED <<stream, found>>

\* Mutant: a spec's result stands, with rows or without.
PrefersTheFormer == run.t2c # "none" /\ run.spec = "none"

\* A text2cypher result replaces a spec's only if it has rows or the spec gave nothing.
Prefers == run.t2c # "none" /\ (run.spec = "none" \/ run.t2c = "rows")

Choose ==
    /\ run.at = "choose"
    /\ run' = CASE Prefers -> [run EXCEPT !.at = "answer", !.rows = run.t2c,
                                          !.tier = "text2cypher"]
                [] ~Prefers /\ run.spec # "none" -> [run EXCEPT !.at = "answer"]
                [] OTHER -> [run EXCEPT !.at = "round", !.tier2 = TRUE]
    /\ Quiet

Answer ==
    /\ run.at = "answer"
    /\ Call([run EXCEPT !.at = "ended"])
    /\ Post(1)
    /\ UNCHANGED found

----------------------------------------------------------------------------
(* run_tier2. *)

\* Mutant: the budget is looked at once, before the loop.
StopsBeforeTheFirst == OverBudget /\ run.iteration = 0

StopsHere == OverBudget

\* The head of a round: the iteration cap, and the one place the budget is looked at.
Round ==
    /\ run.at = "round"
    /\ run' = CASE run.iteration = MaxIterations ->
                       [run EXCEPT !.at = "close", !.forced = TRUE]
                [] run.iteration < MaxIterations /\ StopsHere ->
                       [run EXCEPT !.at = "close", !.iteration = @ + 1,
                                   !.forced = TRUE, !.exhausted = TRUE]
                [] OTHER ->
                       [run EXCEPT !.at = "vote", !.iteration = @ + 1,
                                   !.votes = 0, !.enhance = 0]
    /\ Quiet

\* Ties, unreadable votes and calls that fail all count for solving.
Decided(enhance) ==
    [run EXCEPT !.votes = 0, !.enhance = 0,
                !.at = IF enhance > VoteSamples - enhance THEN "decompose" ELSE "close"]

Voted(yes) ==
    IF run.votes + 1 = VoteSamples
    THEN Decided(run.enhance + yes)
    ELSE [run EXCEPT !.votes = @ + 1, !.enhance = @ + yes]

Vote ==
    /\ run.at = "vote"
    /\ \/ \E yes \in {0, 1} : Call(Voted(yes))
       \/ run' = Voted(0) /\ UNCHANGED <<calls, overrun>>
    /\ UNCHANGED <<stream, found>>

\* No sub-question, or no reply: nothing to enhance with.
Decompose ==
    /\ run.at = "decompose"
    /\ \/ Call([run EXCEPT !.at = "generate"])
       \/ Call([run EXCEPT !.at = "close", !.forced = TRUE])
       \/ /\ run' = [run EXCEPT !.at = "close", !.forced = TRUE]
          /\ UNCHANGED <<calls, overrun>>
    /\ UNCHANGED <<stream, found>>

Gathered ==
    /\ run.at = "gathered"
    /\ Goto("round")
    /\ Quiet

\* Without evidence there is nothing to solve from: CANNOT_ANSWER.
Close ==
    /\ run.at = "close"
    /\ IF run.evidence = 0
       THEN Goto("ended") /\ Post(1)
       ELSE run' = [run EXCEPT !.at = "solve", !.exhausted = @ \/ OverBudget] /\ UNCHANGED stream
    /\ UNCHANGED <<calls, overrun, found>>

\* The solving call runs over budget too; an empty reply or a failed call is no answer.
Solve ==
    /\ run.at = "solve"
    /\ \/ \E tier \in {"tier2", "unanswered"} : Call([run EXCEPT !.at = "ended", !.tier = tier])
       \/ Goto("ended") /\ UNCHANGED <<calls, overrun>>
    /\ Post(1)
    /\ UNCHANGED found

\* The failures that end the run: the provider's, and, for a spec with a required
\* parameter, a router reply whose parameters do not fit it (the defaults that
\* _run_spec falls back on are refused as well, outside its try).
Raises ==
    /\ run.at \in {"router", "spec", "generate", "fix", "answer"}
    /\ CallFails

Pipeline ==
    \/ Open \/ Route \/ RunSpec \/ Generate \/ Try \/ FixQuery \/ Choose \/ Answer
    \/ Round \/ Vote \/ Decompose \/ Gathered \/ Close \/ Solve \/ Raises

----------------------------------------------------------------------------
(* _run_async_impl: steps are relayed as they come; when the answer is there *)
(* first, the steps still in the queue follow, and then the payload.         *)

Relay ==
    /\ stream.at \in {"relay", "drain"}
    /\ stream.waiting > 0
    /\ stream' = [stream EXCEPT !.waiting = @ - 1]
    /\ UNCHANGED <<run, calls, overrun, found>>

\* Mutant: the end is noticed only when a step arrives.
AnswerDoneOnStep ==
    /\ stream.at = "relay"
    /\ Ended /\ stream.waiting > 0
    /\ stream' = [stream EXCEPT !.at = "drain"]
    /\ UNCHANGED <<run, calls, overrun, found>>

AnswerDone ==
    /\ stream.at = "relay"
    /\ Ended
    /\ stream' = [stream EXCEPT !.at = "drain"]
    /\ UNCHANGED <<run, calls, overrun, found>>

Drained == stream.waiting = 0

SendPayload ==
    /\ stream.at = "drain"
    /\ Drained
    /\ stream' = [stream EXCEPT !.at = "sent"]
    /\ UNCHANGED <<run, calls, overrun, found>>

\* The console goes away: the stream is closed, and the worker thread runs on.
HangUp ==
    /\ stream.at \in {"relay", "drain"}
    /\ stream' = [at |-> "gone", waiting |-> 0]
    /\ UNCHANGED <<run, calls, overrun, found>>

Bridge == Relay \/ AnswerDone \/ SendPayload

----------------------------------------------------------------------------
QuestionInit ==
    /\ run = Asked
    /\ stream = [at |-> "relay", waiting |-> 0]
    /\ calls = 0 /\ overrun = 0 /\ found = FALSE

QuestionNext == Pipeline \/ Bridge \/ HangUp

(***************************************************************************)
(* Fairness: the pipeline is straight-line code on a thread of its own and *)
(* every call it makes returns or raises (the driver and the provider have *)
(* timeouts); the event loop runs the callbacks it is given.  Nothing is   *)
(* assumed of the user.                                                    *)
(***************************************************************************)
QuestionFairness == WF_questionVars(Pipeline) /\ WF_questionVars(Bridge)

QuestionSpec == QuestionInit /\ [][QuestionNext]_questionVars /\ QuestionFairness

----------------------------------------------------------------------------
(* Properties. *)

QuestionTypeOK ==
    /\ run \in Run
    /\ stream \in [at: {"relay", "drain", "sent", "gone"}, waiting: Nat]
    /\ calls \in Nat /\ overrun \in Nat /\ found \in BOOLEAN

\* One text2cypher: the query and its fixes.
TextCalls == 1 + MaxFixRetries

\* A round of Tier 2: the votes, the sub-question and its retrieval.
RoundCalls == VoteSamples + 1 + TextCalls

(***************************************************************************)
(* Whatever the model replies and whichever calls fail, a question costs a *)
(* bounded number of calls: the router, a retrieval and the answer, or the *)
(* router, a retrieval, MaxIterations rounds and the solving call.         *)
(***************************************************************************)
CallsAreBounded == calls <= 1 + TextCalls + MaxIterations * RoundCalls + 1

(***************************************************************************)
(* The budget is only looked at between rounds, so it can be overrun; by   *)
(* no more than what is left of the round that used it up, and the solving *)
(* call.                                                                   *)
(***************************************************************************)
OverrunIsOneRound == overrun <= RoundCalls

(***************************************************************************)
(* Tiering: once a retrieval of Tier 0 or 1 has returned rows, the answer  *)
(* is drawn from rows, by the tier that is reported, and the loop is never *)
(* entered; a spec without rows does not hide those of text2cypher.        *)
(***************************************************************************)
AnswerFromRowsIfAny ==
    /\ found => ~run.tier2
    /\ run.at = "answer" \/ (run.at = "ended" /\ run.tier \in {"spec", "text2cypher"}) =>
          /\ found <=> run.rows = "rows"
          /\ run.rows = IF run.tier = "spec" THEN run.spec ELSE run.t2c

(***************************************************************************)
(* A question whose user stays is answered or reported as failed, and the  *)
(* pipeline ends even if the user has gone.                                *)
(***************************************************************************)
EveryQuestionEnds == <>Ended /\ <>(stream.at \in {"sent", "gone"})
=============================================================================
