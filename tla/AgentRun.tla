------------------------------ MODULE AgentRun ------------------------------
(***************************************************************************)
(* The agent_prompt handler: handleAgentPrompt (session/handler.go),       *)
(* runAgentWithTools and runPlanned (session/agent_tools.go), the plan of  *)
(* session/plan.go and the conversation of session/context.go.             *)
(*                                                                         *)
(* The executor runs one handler at a time.  What the provider answers is  *)
(* a choice: an error, text, a final answer, tool calls, a question or a   *)
(* plan; so is whether a tool succeeds, which only runPlanned looks at.    *)
(* Prompt texts are left out: every reminder is "ask again".               *)
(***************************************************************************)
EXTENDS Integers, Sequences

CONSTANTS
    MaxRounds,     \* toolMaxRounds: 8
    MaxAttempts,   \* maxPlanAttempts: 2
    MaxTurns,      \* maxChatTurns: 12
    MaxSteps,      \* bound: steps of a plan
    MaxCalls,      \* bound: tool calls in one answer
    MaxRequests    \* bound: agent_prompt actions

ASSUME LimitsAssumption ==
    /\ MaxRounds \in Nat /\ MaxAttempts \in Nat \ {0}
    /\ MaxSteps \in Nat /\ MaxCalls \in Nat /\ MaxRequests \in Nat
ASSUME TurnsAssumption == MaxTurns \in Nat \ {0} /\ MaxTurns % 2 = 0

\* read_file; write_file or apply_patch; any other tool, known or not.
Kinds == {"read", "write", "other"}

NoPlan == [request |-> 0, steps |-> << >>, index |-> 0]
Plans == [request : 0 .. MaxRequests, steps : Seq(Kinds), index : Nat]

VARIABLES
    pc,         \* what the handler does next, see Places
    request,    \* number of the agent_prompt being handled, or handled last
    demand,     \* what requiresTools, requiresWrite, requiresMultiStep found
    attempt,    \* of runPlanned
    plan,       \* s.plan, and runPlanned's copy of it
    retries,    \* of the current step
    round,      \* of runAgentWithTools
    calls,      \* tool calls of the answer that are still to be made
    results,    \* kinds of the tool results collected so far
    tried,      \* history: a write tool was called in this part of the request
    prompts,    \* history: prompts sent to the provider for this request
    shown,      \* history: the last message emitted for this request
    reply,      \* what runAgentWithTools returned
    history     \* s.chatHistory

planning == <<attempt, plan, retries>>
loop == <<round, calls>>
vars == <<pc, request, demand, planning, loop, results, tried, prompts,
          shown, reply, history>>

Places == {"idle", "plan", "step", "judge", "conclude", "ask", "call", "reply"}

\* "error" is the empty string; "blank" is white space.
Replies == {"none", "error", "blank", "text", "final", "question", "limit", "noWrite"}

Demands == [tools : BOOLEAN, write : BOOLEAN, multi : BOOLEAN]

Init ==
    /\ pc = "idle" /\ request = 0
    /\ demand = [tools |-> FALSE, write |-> FALSE, multi |-> FALSE]
    /\ attempt = 0 /\ plan = NoPlan /\ retries = 0
    /\ round = 0 /\ calls = << >> /\ results = << >>
    /\ tried = FALSE /\ prompts = 0
    /\ shown = "none" /\ reply = "none"
    /\ history = << >>

Has(kind) == \E n \in 1 .. Len(results) : results[n] = kind

Prompt == prompts' = prompts + 1

\* runAgentWithTools and runPlanned emit what they return, then return it.
AnswerUnseen(what) ==
    /\ pc' = "reply"
    /\ reply' = what
    /\ UNCHANGED shown

Answer(what) ==
    /\ pc' = "reply"
    /\ reply' = what
    /\ shown' = what

\* What the provider wrote is tested for "", not for white space.
Accept(what) == Answer(what) \/ Answer("blank")

-----------------------------------------------------------------------------
Begin(d) ==
    /\ pc = "idle" /\ request < MaxRequests
    /\ request' = request + 1
    /\ demand' = d
    /\ pc' = IF d.multi THEN "plan" ELSE "ask"
    /\ attempt' = 0 /\ retries' = 0 /\ round' = 0
    /\ results' = << >>
    /\ tried' = FALSE /\ prompts' = 0 /\ shown' = "none" /\ reply' = "none"
    /\ UNCHANGED <<plan, calls, history>>

\* A request that ends before the first prompt.  No runner, no active
\* provider, or a disabled one: a message, no error.  A payload that is no
\* JSON, or blank content: an error, no message; all the client sees of it is
\* the executor's action_finished with "failure" (serial_executor.go).
BeginFails ==
    /\ pc = "idle" /\ request < MaxRequests
    /\ request' = request + 1
    /\ results' = << >> /\ prompts' = 0
    /\ shown' \in {"noProvider", "failure"} /\ reply' = "none"
    /\ UNCHANGED <<pc, demand, planning, loop, tried, history>>

-----------------------------------------------------------------------------
(***************************************************************************)
(* runPlanned                                                              *)
(***************************************************************************)
\* runAgentWithTools goes on as if there had been no plan.
FallBack == pc' = "ask" /\ results' = << >>

\* getPlan finds only a plan with the same text, which only the same request
\* has; it is then not asked for.
ReusesPlan ==
    /\ plan.request = request
    /\ pc' = "step"
    /\ shown' = IF plan.index = 0 THEN "plan" ELSE shown
    /\ UNCHANGED <<plan, results, prompts, reply>>

AsksForPlan ==
    /\ plan.request # request
    /\ Prompt
    /\ \/ FallBack /\ shown' = "error" /\ UNCHANGED <<plan, reply>>
       \/ FallBack /\ UNCHANGED <<plan, shown, reply>>
       \/ Accept("question") /\ UNCHANGED <<plan, results>>
       \/ \E n \in 2 .. MaxSteps : \E steps \in [1 .. n -> Kinds] :
             /\ plan' = [request |-> request, steps |-> steps, index |-> 0]
             /\ pc' = "step" /\ shown' = "plan"
             /\ UNCHANGED <<results, reply>>

GetPlan ==
    /\ pc = "plan"
    /\ IF plan.request = request THEN ReusesPlan ELSE AsksForPlan
    /\ UNCHANGED <<request, demand, attempt, retries, loop, tried, history>>

\* The step counts as done, whether it succeeded or not.
StepDone(done) ==
    /\ retries' = 0
    /\ UNCHANGED attempt
    /\ IF plan.index + 1 < Len(plan.steps)
         THEN /\ plan' = [plan EXCEPT !.index = @ + 1]
              /\ pc' = "step" /\ shown' = "step" /\ UNCHANGED reply
         ELSE /\ plan' = NoPlan
              /\ IF demand.write /\ ~ \E n \in 1 .. Len(done) : done[n] = "write"
                   THEN Answer("noWrite")
                   ELSE pc' = "conclude" /\ shown' = "step" /\ UNCHANGED reply

\* The step's tool runs, or fails and is judged; its result, or its error, is
\* kept, so that a write that failed counts as one (hasWriteResult).
RunStep ==
    /\ pc = "step"
    /\ LET kind == plan.steps[plan.index + 1] IN
         /\ results' = Append(results, kind)
         /\ tried' = (tried \/ kind = "write")
    /\ \/ StepDone(results')
       \/ pc' = "judge" /\ shown' = "step" /\ UNCHANGED <<planning, reply>>
    /\ UNCHANGED <<request, demand, loop, prompts, history>>

RetriesForEver ==
    /\ pc' = "step" /\ shown' = "step"
    /\ UNCHANGED <<planning, results, tried, reply>>

Retries ==
    /\ retries < 1
    /\ retries' = retries + 1
    /\ pc' = "step" /\ shown' = "step"
    /\ UNCHANGED <<attempt, plan, results, tried, reply>>

ReplansKeepingPlan ==
    /\ attempt' = attempt + 1 /\ retries' = 0
    /\ results' = << >> /\ tried' = FALSE /\ shown' = "step"
    /\ pc' = IF attempt' < MaxAttempts THEN "plan" ELSE "ask"
    /\ UNCHANGED <<plan, reply>>

ReplansKeepingResults ==
    /\ plan' = NoPlan
    /\ attempt' = attempt + 1 /\ retries' = 0
    /\ tried' = FALSE /\ shown' = "step"
    /\ pc' = IF attempt' < MaxAttempts THEN "plan" ELSE "ask"
    /\ UNCHANGED <<results, reply>>

\* What earlier steps did stays done, but nothing remembers it: what follows,
\* another plan or the rounds, starts with no results.
Replans ==
    /\ plan' = NoPlan
    /\ attempt' = attempt + 1 /\ retries' = 0
    /\ results' = << >> /\ tried' = FALSE /\ shown' = "step"
    /\ pc' = IF attempt' < MaxAttempts THEN "plan" ELSE "ask"
    /\ UNCHANGED reply

\* evaluateStep: an error or an unknown status is an "ok", and so is the
\* second "retry" of a step.
JudgeStep ==
    /\ pc = "judge"
    /\ Prompt
    /\ Retries \/ Replans \/ (StepDone(results) /\ UNCHANGED <<results, tried>>)
    /\ UNCHANGED <<request, demand, loop, history>>

\* The final prompt; an empty answer is replaced by a fixed sentence.
Conclude ==
    /\ pc = "conclude"
    /\ Prompt
    /\ Answer("error") \/ Accept("final")
    /\ UNCHANGED <<request, demand, planning, loop, results, tried, history>>

-----------------------------------------------------------------------------
(***************************************************************************)
(* The rounds of runAgentWithTools                                         *)
(***************************************************************************)
AskAgain ==
    /\ round' = round + 1
    /\ UNCHANGED <<pc, calls, shown, reply>>

FinalAccepted ==
    /\ demand.tools => results # << >>
    /\ demand.multi => Len(results) >= 2
    /\ demand.write => Has("write")

Ask ==
    /\ pc = "ask" /\ round < MaxRounds
    /\ Prompt
    /\ \/ Answer("error") /\ UNCHANGED loop
       \/ IF FinalAccepted THEN Accept("final") /\ UNCHANGED loop ELSE AskAgain
       \/ IF demand.tools THEN AskAgain
          ELSE Accept("text") /\ UNCHANGED loop
       \/ \E n \in 1 .. MaxCalls : \E answer \in [1 .. n -> Kinds] :
             /\ calls' = answer
             /\ pc' = "call"
             /\ UNCHANGED <<round, shown, reply>>
    /\ UNCHANGED <<request, demand, planning, results, tried, history>>

\* A call runs, fails, or is refused because a file was read and must be
\* written first, which no write is; each way it is a result.
Call ==
    /\ pc = "call"
    /\ results' = Append(results, Head(calls))
    /\ tried' = (tried \/ Head(calls) = "write")
    /\ calls' = Tail(calls)
    /\ IF calls' = << >> THEN pc' = "ask" /\ round' = round + 1
                         ELSE UNCHANGED <<pc, round>>
    /\ UNCHANGED <<request, demand, planning, prompts, shown, reply, history>>

LimitReached ==
    /\ pc = "ask" /\ round = MaxRounds
    /\ Answer("limit")
    /\ UNCHANGED <<request, demand, planning, loop, results, tried, prompts, history>>

-----------------------------------------------------------------------------
(***************************************************************************)
(* The end of handleAgentPrompt                                            *)
(***************************************************************************)
Trimmed(h) ==
    IF Len(h) > MaxTurns THEN SubSeq(h, Len(h) - MaxTurns + 1, Len(h)) ELSE h

\* AddChatTurn
AddTurn(h, role) == Trimmed(Append(h, [role |-> role, request |-> request]))

UserTurnAlways == history' = AddTurn(history, "user")
NothingToRemember == UNCHANGED history

Finish ==
    /\ pc = "reply"
    /\ pc' = "idle"
    /\ IF reply \in {"error", "blank"}
         THEN shown' = "emptyResponse" /\ NothingToRemember
         ELSE /\ history' = AddTurn(AddTurn(history, "user"), "assistant")
              /\ UNCHANGED shown
    /\ UNCHANGED <<request, demand, planning, loop, results, tried, prompts, reply>>

Handle ==
    \/ GetPlan \/ RunStep \/ JudgeStep \/ Conclude
    \/ Ask \/ Call \/ LimitReached \/ Finish

Next == Handle \/ BeginFails \/ \E d \in Demands : Begin(d)

Spec == Init /\ [][Next]_vars

-----------------------------------------------------------------------------
TypeOK ==
    /\ pc \in Places
    /\ request \in 0 .. MaxRequests
    /\ demand \in Demands
    /\ attempt \in 0 .. MaxAttempts /\ retries \in 0 .. 1
    /\ plan \in Plans
    /\ pc \in {"step", "judge"} => plan.index < Len(plan.steps)
    /\ round \in 0 .. MaxRounds
    /\ calls \in Seq(Kinds) /\ results \in Seq(Kinds)
    /\ (pc = "call") <=> (calls # << >>)
    /\ tried \in BOOLEAN /\ prompts \in Nat
    /\ reply \in Replies
    /\ shown \in Replies \union {"plan", "step", "emptyResponse", "noProvider", "failure"}
    /\ history \in Seq([role : {"user", "assistant"}, request : 1 .. MaxRequests])
    /\ Len(history) <= MaxTurns

\* However a request ends, the conversation that the next prompt quotes
\* alternates: each question with its answer, the oldest dropped in pairs
\* (context.go:19-29, handler.go:370-374).
HistoryPaired ==
    /\ Len(history) % 2 = 0
    /\ \A n \in 1 .. Len(history) :
          history[n].role = IF n % 2 = 1 THEN "user" ELSE "assistant"
    /\ \A n \in 1 .. Len(history) - 1 :
          n % 2 = 1 => history[n].request = history[n + 1].request

\* No plan outlives the part of a request that follows it, whatever is
\* retried, replanned or given up: the next request starts from none, and
\* getPlan never revives one (agent_tools.go:244, 253; plan.go:10-20).
PlanIsSpent == pc \in {"idle", "plan", "ask", "call", "conclude", "reply"} => plan = NoPlan

\* One agent_prompt costs a bounded number of prompts, whatever the provider
\* answers (agent_tools.go:63, 201, 237).
MaxPrompts == MaxAttempts * (1 + 2 * MaxSteps) + 1 + MaxRounds
PromptsBounded == prompts <= MaxPrompts

\* A final answer to a request that asked for a change comes after a call of
\* a write tool in the part of the request that gives the answer: the plan that
\* was carried out, or the rounds.  A write of a plan that was given up does not
\* replace it.  The call need not have succeeded: hasWriteResult looks at no
\* error (agent_tools.go:79, 93, 119-127, 224, 254).
FinalAfterWriteCall == reply = "final" /\ demand.write => tried

\* Every request ends with a message or, one that ended before the first
\* prompt, with a reported failure; and the conversation never holds an answer
\* the user was not shown (agent_tools.go:83, 90, 116; handler.go:213-216,
\* 350-376).
AnswerWasShown ==
    pc = "idle" /\ request > 0 =>
        /\ shown # "none"
        /\ history # << >> /\ history[Len(history)].request = request => shown = reply
=============================================================================
