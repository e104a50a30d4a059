--------------------------- MODULE AgentRunProofs ---------------------------
(***************************************************************************)
(* Proofs about AgentRun, for any limits: a plan never outlives its part   *)
(* of a request, a final answer to a change comes after a write call, one  *)
(* agent_prompt costs a bounded number of prompts, and the conversation    *)
(* pairs each question with an answer that was shown.                      *)
(***************************************************************************)
EXTENDS AgentRun, SequenceTheorems, TLAPS

(***************************************************************************)
(* What the arguments share: the types of what the handler works     *)
(* with, and where it can be with an attempt or a plan left.               *)
(***************************************************************************)
WorkTypes ==
    /\ pc \in Places /\ request \in 0 .. MaxRequests /\ (pc # "idle" => request # 0)
    /\ demand \in Demands
    /\ attempt \in Nat /\ attempt <= MaxAttempts
    /\ retries \in 0 .. 1
    /\ plan \in Plans /\ Len(plan.steps) <= MaxSteps
    /\ round \in 0 .. MaxRounds
    /\ calls \in Seq(Kinds) /\ results \in Seq(Kinds)
    /\ tried \in BOOLEAN /\ prompts \in Nat

WorkPlaces ==
    /\ pc \in {"plan", "step", "judge"} => attempt < MaxAttempts
    /\ pc \in {"step", "judge"} => plan.index < Len(plan.steps)
    /\ pc = "call" => calls # << >> /\ round < MaxRounds

Work == WorkTypes /\ WorkPlaces /\ PlanIsSpent

-----------------------------------------------------------------------------
\* A list of kinds is a sequence of that length.
LEMMA KindLists ==
  ASSUME NEW n \in Nat, NEW list \in [1 .. n -> Kinds]
  PROVE  list \in Seq(Kinds) /\ Len(list) = n
BY SeqDef, LenProperties

LEMMA NoPlanIsPlan == NoPlan \in Plans /\ Len(NoPlan.steps) = 0 /\ NoPlan.request = 0
BY LimitsAssumption DEF NoPlan, Plans

\* The guard of ReusesPlan never holds: getPlan finds no plan to revive.
LEMMA NothingToReuse ==
  ASSUME Work, pc = "plan"
  PROVE  plan.request # request
BY NoPlanIsPlan DEF Work, WorkTypes, PlanIsSpent

LEMMA StepDoneWork ==
  ASSUME Work, pc \in {"step", "judge"}, NEW done, StepDone(done)
  PROVE  /\ pc' \in {"step", "conclude", "reply"}
         /\ retries' = 0 /\ attempt' = attempt
         /\ plan' \in Plans /\ Len(plan'.steps) <= MaxSteps
         /\ pc' = "step" => /\ plan'.index < Len(plan'.steps)
                            /\ plan'.index = plan.index + 1
         /\ pc' # "step" => plan' = NoPlan
<1>1. plan.index + 1 \in Nat
  BY DEF Work, WorkTypes, Plans
<1>2. CASE plan.index + 1 < Len(plan.steps)
  <2>1. plan' = [plan EXCEPT !.index = plan.index + 1] /\ pc' = "step"
    BY <1>2 DEF StepDone
  <2>2. /\ plan' \in Plans /\ plan'.steps = plan.steps
        /\ plan'.index = plan.index + 1
    BY <1>1, <2>1 DEF Work, WorkTypes, Plans
  <2>. QED
    BY <1>2, <2>1, <2>2 DEF StepDone, Work, WorkTypes
<1>3. CASE ~(plan.index + 1 < Len(plan.steps))
  BY <1>3, NoPlanIsPlan, LimitsAssumption DEF StepDone, Answer
<1>. QED
  BY <1>2, <1>3

LEMMA WorkInit == Init => Work
<1>. SUFFICES ASSUME Init
              PROVE  Work
  OBVIOUS
<1>1. demand \in Demands
  BY DEF Init, Demands
<1>2. plan \in Plans /\ Len(plan.steps) <= MaxSteps /\ plan = NoPlan
  BY NoPlanIsPlan, LimitsAssumption DEF Init
<1>3. calls \in Seq(Kinds) /\ results \in Seq(Kinds)
  BY EmptySeq DEF Init
<1>4. WorkTypes
  <2>1. pc \in Places /\ request \in 0 .. MaxRequests /\ (pc # "idle" => request # 0)
    BY LimitsAssumption DEF Init, Places
  <2>2. attempt \in Nat /\ attempt <= MaxAttempts
    BY LimitsAssumption DEF Init
  <2>3. retries \in 0 .. 1 /\ round \in 0 .. MaxRounds /\ prompts \in Nat
    BY LimitsAssumption DEF Init
  <2>4. tried \in BOOLEAN
    BY DEF Init
  <2>. QED
    BY <1>1, <1>2, <1>3, <2>1, <2>2, <2>3, <2>4 DEF WorkTypes
<1>5. WorkPlaces
  BY DEF Init, WorkPlaces
<1>. QED
  BY <1>2, <1>4, <1>5 DEF Work, PlanIsSpent

LEMMA WorkStep == Work /\ [Next]_vars => Work'
<1>. SUFFICES ASSUME Work, [Next]_vars
              PROVE  Work'
  OBVIOUS
<1>. USE LimitsAssumption DEF Work, WorkTypes, WorkPlaces, PlanIsSpent, planning, loop
<1>1. ASSUME NEW d \in Demands, Begin(d)
      PROVE  Work'
  <2>1. pc' \in {"plan", "ask"} /\ UNCHANGED <<plan, calls>>
    BY <1>1 DEF Begin
  <2>2. /\ request' \in 0 .. MaxRequests /\ request' # 0
        /\ attempt' = 0 /\ retries' = 0 /\ round' = 0 /\ prompts' = 0
    BY <1>1 DEF Begin
  <2>3. demand' \in Demands /\ results' \in Seq(Kinds) /\ tried' \in BOOLEAN
    BY <1>1, EmptySeq DEF Begin
  <2>4. plan = NoPlan
    BY <1>1 DEF Begin
  <2>. QED
    BY <2>1, <2>2, <2>3, <2>4 DEF Places
<1>2. CASE BeginFails
  BY <1>2, EmptySeq DEF BeginFails, Places
<1>3. CASE GetPlan
  <2>1. plan.request # request
    BY <1>3, NothingToReuse DEF GetPlan
  <2>2. prompts' \in Nat /\ UNCHANGED <<request, demand, attempt, retries, loop, tried>>
    BY <1>3, <2>1 DEF GetPlan, AsksForPlan, Prompt
  <2>3. CASE pc' \in {"ask", "reply"} /\ UNCHANGED plan /\ results' \in Seq(Kinds)
    BY <1>3, <2>2, <2>3 DEF GetPlan, Places
  <2>4. ASSUME NEW n \in 2 .. MaxSteps, NEW steps \in [1 .. n -> Kinds],
               plan' = [request |-> request, steps |-> steps, index |-> 0],
               pc' = "step", UNCHANGED results
        PROVE  Work'
    <3>1. steps \in Seq(Kinds) /\ Len(steps) = n
      BY KindLists
    <3>2. plan' \in Plans /\ plan'.index < Len(plan'.steps) /\ Len(plan'.steps) <= MaxSteps
      BY <2>4, <3>1 DEF Plans
    <3>. QED
      BY <1>3, <2>2, <2>4, <3>2 DEF GetPlan, Places
  <2>5. CASE pc' = "ask" /\ results' = << >> /\ UNCHANGED plan
    BY <2>3, <2>5, EmptySeq
  <2>. QED
    BY <1>3, <2>1, <2>3, <2>4, <2>5 DEF GetPlan, AsksForPlan, FallBack, Accept, Answer
<1>4. CASE RunStep
  <2>1. plan.steps[plan.index + 1] \in Kinds
    BY <1>4 DEF RunStep, Plans
  <2>2. results' \in Seq(Kinds) /\ tried' \in BOOLEAN
    BY <1>4, <2>1 DEF RunStep
  <2>3. CASE StepDone(results')
    BY <1>4, <2>2, <2>3, StepDoneWork DEF RunStep, Places
  <2>4. CASE pc' = "judge" /\ UNCHANGED planning
    BY <1>4, <2>2, <2>4 DEF RunStep, Places
  <2>. QED
    BY <1>4, <2>3, <2>4 DEF RunStep
<1>5. CASE JudgeStep
  <2>1. prompts' \in Nat /\ UNCHANGED <<request, demand, loop>>
    BY <1>5 DEF JudgeStep, Prompt
  <2>2. CASE Retries
    BY <1>5, <2>1, <2>2 DEF JudgeStep, Retries, Places
  <2>3. CASE Replans
    <3>1. results' \in Seq(Kinds) /\ tried' \in BOOLEAN
      BY <2>3, EmptySeq DEF Replans
    <3>2. pc = "judge" /\ pc' \in {"plan", "ask"} /\ (pc' = "plan" => attempt' < MaxAttempts)
      BY <1>5, <2>3 DEF JudgeStep, Replans
    <3>3. attempt' \in Nat /\ attempt' <= MaxAttempts /\ retries' = 0 /\ plan' = NoPlan
      BY <2>3, <3>2 DEF Replans
    <3>. QED
      BY <2>1, <3>1, <3>2, <3>3, NoPlanIsPlan DEF Places
  <2>4. CASE StepDone(results) /\ UNCHANGED <<results, tried>>
    BY <1>5, <2>1, <2>4, StepDoneWork DEF JudgeStep, Places
  <2>. QED
    BY <1>5, <2>2, <2>3, <2>4 DEF JudgeStep
<1>6. CASE Conclude
  BY <1>6 DEF Conclude, Prompt, Accept, Answer, Places
<1>7. CASE Ask
  <2>1. prompts' \in Nat
    BY <1>7 DEF Ask, Prompt
  <2>2. CASE pc' = "reply" /\ UNCHANGED loop
    BY <1>7, <2>1, <2>2 DEF Ask, Places
  <2>3. CASE AskAgain
    BY <1>7, <2>1, <2>3 DEF Ask, AskAgain
  <2>4. ASSUME NEW n \in 1 .. MaxCalls, NEW answer \in [1 .. n -> Kinds],
               calls' = answer, pc' = "call", UNCHANGED round
        PROVE  Work'
    <3>1. calls' \in Seq(Kinds) /\ Len(calls') = n
      BY <2>4, KindLists
    <3>2. calls' # << >>
      BY <3>1
    <3>. QED
      BY <1>7, <2>1, <2>4, <3>1, <3>2 DEF Ask, Places
  <2>. QED
    BY <1>7, <2>2, <2>3, <2>4 DEF Ask, Accept, Answer
<1>8. CASE Call
  <2>1. Head(calls) \in Kinds /\ Tail(calls) \in Seq(Kinds)
    BY <1>8 DEF Call
  <2>2. results' \in Seq(Kinds) /\ tried' \in BOOLEAN
    BY <1>8, <2>1 DEF Call
  <2>. QED
    BY <1>8, <2>1, <2>2 DEF Call, Places
<1>9. CASE LimitReached
  BY <1>9 DEF LimitReached, Answer, Places
<1>10. CASE Finish
  BY <1>10 DEF Finish, Places
<1>11. CASE UNCHANGED vars
  BY <1>11 DEF vars
<1>. QED
  BY <1>1, <1>2, <1>3, <1>4, <1>5, <1>6, <1>7, <1>8, <1>9, <1>10, <1>11
     DEF Next, Handle

\* No plan outlives the part of a request that follows it, and getPlan never
\* revives one, for any limits (agent_tools.go:244, 253; plan.go:10-20).
THEOREM PlansAreSpent == Spec => []PlanIsSpent
BY WorkInit, WorkStep, PTL DEF Spec, Work

-----------------------------------------------------------------------------
(***************************************************************************)
(* Finals come after writes.  What the handler looks at is results, which  *)
(* hold a write only if one was called in the part of the request that     *)
(* they are from: giving up a plan forgets both.                           *)
(***************************************************************************)
Holds(list, kind) == \E n \in 1 .. Len(list) : list[n] = kind

ResultsAreReal == Holds(results, "write") => tried
ConcludesWritten == pc = "conclude" /\ demand.write => tried

NoAnswerYet == pc \notin {"idle", "reply"} => reply # "final"

WriteInv ==
    /\ Work /\ ResultsAreReal /\ ConcludesWritten /\ NoAnswerYet
    /\ FinalAfterWriteCall

LEMMA HoldsAppend ==
  ASSUME NEW list \in Seq(Kinds), NEW kind \in Kinds, NEW one \in Kinds
  PROVE  Holds(Append(list, one), kind) => Holds(list, kind) \/ one = kind
BY DEF Holds

LEMMA HoldsNothing == ~Holds(<< >>, "write")
BY DEF Holds

\* A step that counts as done leads to the final prompt only with a write.
LEMMA StepDoneWrites ==
  ASSUME NEW done, StepDone(done)
  PROVE  /\ pc' = "conclude" /\ demand.write => Holds(done, "write")
         /\ reply' \in {reply, "noWrite"}
BY DEF StepDone, Holds, Answer

LEMMA WriteInvInit == Init => WriteInv
BY WorkInit, HoldsNothing
   DEF Init, WriteInv, ResultsAreReal, ConcludesWritten, NoAnswerYet, FinalAfterWriteCall

LEMMA WriteInvStep == WriteInv /\ [Next]_vars => WriteInv'
<1>. SUFFICES ASSUME WriteInv, [Next]_vars
              PROVE  ResultsAreReal' /\ ConcludesWritten' /\ NoAnswerYet' /\ FinalAfterWriteCall'
  BY WorkStep DEF WriteInv
<1>. USE DEF WriteInv, ResultsAreReal, ConcludesWritten, NoAnswerYet, FinalAfterWriteCall
<1>0. results \in Seq(Kinds) /\ tried \in BOOLEAN
  BY DEF Work, WorkTypes
<1>1. ASSUME NEW d \in Demands, Begin(d)
      PROVE  WriteInv'
  <2>1. results' = << >> /\ pc' \in {"plan", "ask"} /\ reply' = "none"
    BY <1>1 DEF Begin
  <2>. QED
    BY <2>1, HoldsNothing, WorkStep
<1>2. CASE BeginFails
  <2>1. results' = << >> /\ pc' = pc /\ pc = "idle" /\ reply' = "none"
    BY <1>2 DEF BeginFails
  <2>. QED
    BY <2>1, HoldsNothing, WorkStep
<1>3. CASE GetPlan
  <2>1. AsksForPlan /\ UNCHANGED <<demand, tried>>
    BY <1>3, NothingToReuse DEF GetPlan
  <2>2. /\ results' \in {<< >>, results} /\ pc' \in {"ask", "reply", "step"}
        /\ pc = "plan"
    BY <1>3, <2>1 DEF GetPlan, AsksForPlan, FallBack, Accept, Answer
  <2>3. reply' \in {reply, "question", "blank"}
    BY <2>1 DEF AsksForPlan, Accept, Answer
  <2>. QED
    BY <2>1, <2>2, <2>3, HoldsNothing, WorkStep
<1>4. CASE RunStep
  <2>. DEFINE kind == plan.steps[plan.index + 1]
  <2>1. kind \in Kinds
    BY <1>4 DEF RunStep, Work, WorkTypes, WorkPlaces, Plans
  <2>2. results' = Append(results, kind) /\ tried' = (tried \/ kind = "write")
    BY <1>4 DEF RunStep
  <2>3. Holds(results', "write") => Holds(results, "write") \/ kind = "write"
    BY <1>0, <2>1, <2>2, HoldsAppend DEF Kinds
  <2>4. tried => tried'
    BY <2>2
  <2>5. ResultsAreReal'
    BY <2>2, <2>3
  <2>6. /\ pc' = "conclude" /\ demand.write => Holds(results', "write")
        /\ reply' \in {reply, "noWrite"} /\ UNCHANGED demand /\ pc = "step"
    BY <1>4, StepDoneWrites DEF RunStep
  <2>. QED
    BY <2>4, <2>5, <2>6, WorkStep
<1>5. CASE JudgeStep
  <2>1. pc = "judge" /\ UNCHANGED demand
    BY <1>5 DEF JudgeStep
  <2>2. CASE Retries
    <3>1. UNCHANGED <<results, tried, reply>> /\ pc' = "step"
      BY <2>2 DEF Retries
    <3>. QED
      BY <2>1, <3>1, WorkStep
  <2>3. CASE Replans
    <3>1. results' = << >> /\ reply' = reply /\ pc' \in {"plan", "ask"}
      BY <2>3 DEF Replans
    <3>2. reply # "final"
      BY <2>1
    <3>. QED
      BY <2>1, <3>1, <3>2, HoldsNothing, WorkStep
  <2>4. CASE StepDone(results) /\ UNCHANGED <<results, tried>>
    BY <2>1, <2>4, StepDoneWrites, WorkStep
  <2>. QED
    BY <1>5, <2>2, <2>3, <2>4 DEF JudgeStep
<1>6. CASE Conclude
  <2>1. pc = "conclude" /\ pc' = "reply" /\ UNCHANGED <<demand, results, tried>>
    BY <1>6 DEF Conclude, Accept, Answer
  <2>. QED
    BY <2>1, WorkStep
<1>7. CASE Ask
  <2>1. UNCHANGED <<demand, results, tried>> /\ pc' \in {"reply", "ask", "call"}
    BY <1>7 DEF Ask, AskAgain, Accept, Answer
  <2>2. /\ reply' = "final" => reply = "final" \/ FinalAccepted
        /\ pc = "ask" /\ (pc' # "reply" => reply' = reply)
    BY <1>7 DEF Ask, AskAgain, Accept, Answer
  <2>3. FinalAccepted /\ demand.write => tried
    BY DEF FinalAccepted, Has, Holds
  <2>. QED
    BY <2>1, <2>2, <2>3, WorkStep
<1>8. CASE Call
  <2>. DEFINE kind == Head(calls)
  <2>1. kind \in Kinds
    BY <1>8 DEF Call, Work, WorkTypes, WorkPlaces
  <2>2. /\ results' = Append(results, kind) /\ UNCHANGED <<demand, reply>>
        /\ tried' = (tried \/ kind = "write")
    BY <1>8 DEF Call
  <2>3. kind = "write" => tried'
    BY <2>2
  <2>4. tried => tried'
    BY <2>2
  <2>5. Holds(results', "write") => Holds(results, "write") \/ kind = "write"
    BY <1>0, <2>1, <2>2, HoldsAppend DEF Kinds
  <2>6. pc' \in {"ask", "call"} /\ pc = "call"
    BY <1>8 DEF Call
  <2>. QED
    BY <2>2, <2>3, <2>4, <2>5, <2>6, WorkStep
<1>9. CASE LimitReached
  BY <1>9, WorkStep DEF LimitReached, Answer
<1>10. CASE Finish
  BY <1>10, WorkStep DEF Finish
<1>11. CASE UNCHANGED vars
  BY <1>11, WorkStep DEF vars
<1>. QED
  BY <1>1, <1>2, <1>3, <1>4, <1>5, <1>6, <1>7, <1>8, <1>9, <1>10, <1>11
     DEF Next, Handle

\* A final answer to a request for a change comes after a call of a write tool,
\* which may have failed, in the part of the request that gives the answer: a
\* write of a plan that was given up does not count (agent_tools.go:79-96, 224,
\* 254), for any limits and whatever is refused, retried or replanned.
THEOREM FinalsAreBacked == Spec => []FinalAfterWriteCall
BY WriteInvInit, WriteInvStep, PTL DEF Spec, WriteInv

-----------------------------------------------------------------------------
(***************************************************************************)
(* Prompts are bounded.  An attempt costs one prompt for the plan and at   *)
(* most two judgements for each of its steps; what is spent can be read    *)
(* off the attempt, the step, its retry and the round.                     *)
(***************************************************************************)
Cost(attempts) == attempts * (1 + 2 * MaxSteps)

InPlan == Cost(attempt) + 1 + 2 * plan.index + retries

Budget ==
    /\ pc = "plan" => prompts <= Cost(attempt)
    /\ pc \in {"step", "judge"} => prompts <= InPlan
    /\ pc = "conclude" => prompts <= Cost(MaxAttempts)
    /\ pc = "ask" => prompts <= Cost(MaxAttempts) + round
    /\ pc = "call" => prompts <= Cost(MaxAttempts) + round + 1
    /\ PromptsBounded

LEMMA CostFacts ==
  ASSUME NEW n \in Nat, n < MaxAttempts
  PROVE  /\ Cost(n) \in Nat /\ Cost(n + 1) \in Nat /\ Cost(MaxAttempts) \in Nat
         /\ Cost(n + 1) = Cost(n) + 1 + 2 * MaxSteps
         /\ Cost(n + 1) <= Cost(MaxAttempts)
<1>. DEFINE c == 1 + 2 * MaxSteps
            rest == MaxAttempts - (n + 1)
<1>1. c \in Nat /\ rest \in Nat /\ MaxAttempts = (n + 1) + rest
  BY LimitsAssumption
<1>. HIDE DEF c, rest
<1>2. n * c \in Nat /\ (n + 1) * c \in Nat /\ rest * c \in Nat
  BY <1>1
<1>3. (n + 1) * c = n * c + c /\ ((n + 1) + rest) * c = (n + 1) * c + rest * c
  BY <1>1
<1>4. /\ n * c \in Nat /\ (n + 1) * c \in Nat /\ MaxAttempts * c \in Nat
      /\ (n + 1) * c = n * c + c /\ (n + 1) * c <= MaxAttempts * c
  BY <1>1, <1>2, <1>3
<1>. QED
  BY <1>4, LimitsAssumption DEF Cost, c

LEMMA MaxPromptsIsCost ==
  /\ Cost(MaxAttempts) \in Nat
  /\ MaxPrompts = Cost(MaxAttempts) + 1 + MaxRounds
<1>1. Cost(MaxAttempts) \in Nat
  BY CostFacts, LimitsAssumption, MaxAttempts - 1 \in Nat, MaxAttempts - 1 < MaxAttempts
<1>. QED
  BY <1>1 DEF MaxPrompts, Cost

LEMMA BudgetInit == Init => Budget
<1>. SUFFICES ASSUME Init
              PROVE  pc = "idle" /\ prompts = 0 /\ PromptsBounded
  BY DEF Budget
<1>. QED
  BY MaxPromptsIsCost, LimitsAssumption DEF Init, PromptsBounded

\* The work of one attempt fits in the cost of the attempts up to it.
LEMMA InPlanFacts ==
  ASSUME Work, pc \in {"step", "judge"}
  PROVE  /\ Cost(attempt) \in Nat /\ InPlan \in Nat
         /\ Cost(attempt + 1) \in Nat /\ Cost(MaxAttempts) \in Nat
         /\ plan.index \in Nat /\ retries \in 0 .. 1
         /\ InPlan + 1 <= Cost(attempt) + 1 + 2 * (plan.index + 1)
         /\ Cost(attempt) + 1 + 2 * (plan.index + 1) <= Cost(attempt + 1)
         /\ Cost(attempt + 1) <= Cost(MaxAttempts)
<1>1. attempt \in Nat /\ attempt < MaxAttempts
  BY DEF Work, WorkTypes, WorkPlaces
<1>2. plan.index \in Nat /\ plan.index + 1 <= MaxSteps /\ retries \in 0 .. 1
  BY LimitsAssumption DEF Work, WorkTypes, WorkPlaces, Plans
<1>. QED
  BY <1>1, <1>2, CostFacts, LimitsAssumption DEF InPlan

\* A step that counts as done moves on within the budget, one judgement of
\* it included.
LEMMA StepDoneBudget ==
  ASSUME Work, pc \in {"step", "judge"}, NEW done, StepDone(done),
         prompts' \in Nat, prompts' <= InPlan + 1
  PROVE  /\ pc' = "step" => prompts' <= InPlan'
         /\ prompts' <= Cost(MaxAttempts)
<1>1. prompts' <= Cost(MaxAttempts)
  BY InPlanFacts
<1>2. ASSUME pc' = "step"
      PROVE  prompts' <= InPlan'
  <2>1. plan'.index = plan.index + 1 /\ retries' = 0 /\ attempt' = attempt
    BY <1>2, StepDoneWork
  <2>2. InPlan' = Cost(attempt) + 1 + 2 * (plan.index + 1) + 0
    BY <2>1 DEF InPlan, Cost
  <2>. QED
    BY <2>2, InPlanFacts
<1>. QED
  BY <1>1, <1>2

LEMMA BudgetStep == Work /\ Budget /\ [Next]_vars => Budget'
<1>. SUFFICES ASSUME Work, Budget, [Next]_vars
              PROVE  Budget'
  OBVIOUS
<1>0. /\ prompts \in Nat /\ prompts' \in Nat /\ round \in Nat /\ round <= MaxRounds
      /\ Cost(MaxAttempts) \in Nat /\ MaxRounds \in Nat
      /\ MaxPrompts = Cost(MaxAttempts) + 1 + MaxRounds
      /\ MaxPrompts' = MaxPrompts /\ Cost(MaxAttempts)' = Cost(MaxAttempts)
  BY WorkStep, MaxPromptsIsCost, LimitsAssumption DEF Work, WorkTypes, MaxPrompts, Cost
<1>. USE DEF Budget, PromptsBounded
<1>1. ASSUME NEW d \in Demands, Begin(d)
      PROVE  Budget'
  <2>1. prompts' = 0 /\ attempt' = 0 /\ round' = 0 /\ pc' \in {"plan", "ask"}
    BY <1>1 DEF Begin
  <2>2. Cost(attempt)' = 0
    BY <2>1, LimitsAssumption DEF Cost
  <2>. QED
    BY <1>0, <2>1, <2>2
<1>2. CASE BeginFails
  <2>1. prompts' = 0 /\ pc' = "idle"
    BY <1>2 DEF BeginFails
  <2>. QED
    BY <1>0, <2>1
<1>3. CASE GetPlan
  <2>1. /\ AsksForPlan /\ UNCHANGED <<attempt, retries, round>>
        /\ attempt \in Nat /\ attempt < MaxAttempts /\ retries \in 0 .. 1
    BY <1>3, NothingToReuse DEF GetPlan, loop, Work, WorkTypes, WorkPlaces
  <2>2. prompts' = prompts + 1 /\ prompts <= Cost(attempt)
    BY <1>3, <2>1 DEF GetPlan, AsksForPlan, Prompt
  <2>3. /\ Cost(attempt) \in Nat /\ Cost(attempt)' = Cost(attempt)
        /\ Cost(attempt) + 1 <= Cost(MaxAttempts)
    BY <2>1, CostFacts, LimitsAssumption, <1>0 DEF Cost
  <2>4. prompts' <= Cost(MaxAttempts)
    BY <1>0, <2>2, <2>3
  <2>5. CASE pc' \in {"ask", "reply"}
    BY <1>0, <2>1, <2>4, <2>5
  <2>6. CASE pc' = "step" /\ plan'.index = 0
    <3>1. InPlan' = Cost(attempt) + 1 + 2 * 0 + retries
      BY <2>1, <2>6 DEF InPlan, Cost
    <3>. QED
      BY <1>0, <2>1, <2>2, <2>3, <2>4, <2>6, <3>1
  <2>. QED
    BY <2>1, <2>5, <2>6 DEF AsksForPlan, FallBack, Accept, Answer
<1>4. CASE RunStep
  <2>1. pc = "step" /\ prompts' = prompts /\ prompts <= InPlan
    BY <1>4 DEF RunStep
  <2>2. CASE StepDone(results')
    <3>1. /\ pc' = "step" => prompts' <= InPlan'
          /\ prompts' <= Cost(MaxAttempts)
      BY <1>0, <2>1, <2>2, StepDoneBudget, InPlanFacts
    <3>2. pc' \in {"step", "conclude", "reply"}
      BY <2>1, <2>2, StepDoneWork
    <3>. QED
      BY <1>0, <3>1, <3>2
  <2>3. CASE pc' = "judge" /\ UNCHANGED planning
    <3>1. InPlan' = InPlan
      BY <2>3 DEF planning, InPlan, Cost
    <3>. QED
      BY <1>0, <2>1, <2>3, <3>1
  <2>. QED
    BY <1>4, <2>2, <2>3 DEF RunStep
<1>5. CASE JudgeStep
  <2>1. pc = "judge" /\ prompts' = prompts + 1 /\ prompts <= InPlan
    BY <1>5 DEF JudgeStep, Prompt
  <2>2. prompts' <= InPlan + 1 /\ prompts' <= Cost(attempt + 1)
           /\ prompts' <= Cost(MaxAttempts)
    <3>1. /\ InPlan + 1 <= Cost(attempt) + 1 + 2 * (plan.index + 1)
          /\ Cost(attempt) + 1 + 2 * (plan.index + 1) <= Cost(attempt + 1)
          /\ Cost(attempt + 1) <= Cost(MaxAttempts)
          /\ InPlan \in Nat /\ Cost(attempt) \in Nat /\ Cost(attempt + 1) \in Nat
          /\ plan.index \in Nat
      BY <2>1, InPlanFacts
    <3>. QED
      BY <1>0, <2>1, <3>1
  <2>3. CASE Retries
    <3>1. pc' = "step" /\ retries' = retries + 1 /\ UNCHANGED <<attempt, plan>>
      BY <2>3 DEF Retries
    <3>2. InPlan' = Cost(attempt) + 1 + 2 * plan.index + (retries + 1)
      BY <3>1 DEF InPlan, Cost
    <3>3. InPlan' = InPlan + 1
      BY <2>1, <3>2, InPlanFacts DEF InPlan
    <3>. QED
      BY <1>0, <2>2, <3>1, <3>3
  <2>4. CASE Replans
    <3>1. /\ attempt' = attempt + 1 /\ pc' \in {"plan", "ask"}
          /\ round' = round
      BY <1>5, <2>4 DEF JudgeStep, Replans, loop
    <3>2. Cost(attempt)' = Cost(attempt + 1)
      BY <3>1 DEF Cost
    <3>. QED
      BY <1>0, <2>2, <3>1, <3>2
  <2>5. CASE StepDone(results) /\ UNCHANGED <<results, tried>>
    <3>1. /\ pc' = "step" => prompts' <= InPlan'
          /\ prompts' <= Cost(MaxAttempts)
      BY <1>0, <2>1, <2>2, <2>5, StepDoneBudget
    <3>2. pc' \in {"step", "conclude", "reply"}
      BY <2>1, <2>5, StepDoneWork
    <3>. QED
      BY <1>0, <3>1, <3>2
  <2>. QED
    BY <1>5, <2>3, <2>4, <2>5 DEF JudgeStep
<1>6. CASE Conclude
  <2>1. pc = "conclude" /\ pc' = "reply" /\ prompts' = prompts + 1
    BY <1>6 DEF Conclude, Prompt, Accept, Answer
  <2>. QED
    BY <1>0, <2>1
<1>7. CASE Ask
  <2>1. pc = "ask" /\ prompts' = prompts + 1 /\ round < MaxRounds
    BY <1>7 DEF Ask, Prompt
  <2>2. \/ pc' = "reply"
        \/ pc' = "ask" /\ round' = round + 1
        \/ pc' = "call" /\ round' = round
    BY <1>7 DEF Ask, AskAgain, Accept, Answer
  <2>. QED
    BY <1>0, <2>1, <2>2
<1>8. CASE Call
  <2>1. pc = "call" /\ prompts' = prompts /\ round < MaxRounds
    BY <1>8 DEF Call, Work, WorkPlaces
  <2>2. \/ pc' = "ask" /\ round' = round + 1
        \/ pc' = "call" /\ round' = round
    BY <1>8 DEF Call
  <2>. QED
    BY <1>0, <2>1, <2>2
<1>9. CASE LimitReached
  BY <1>0, <1>9 DEF LimitReached, Answer
<1>10. CASE Finish
  BY <1>0, <1>10 DEF Finish
<1>11. CASE UNCHANGED vars
  <2>1. UNCHANGED <<pc, attempt, plan, retries, round, prompts>>
    BY <1>11 DEF vars, planning, loop
  <2>2. InPlan' = InPlan /\ Cost(attempt)' = Cost(attempt)
    BY <2>1 DEF InPlan, Cost
  <2>. QED
    BY <1>0, <2>1, <2>2
<1>. QED
  BY <1>1, <1>2, <1>3, <1>4, <1>5, <1>6, <1>7, <1>8, <1>9, <1>10, <1>11
     DEF Next, Handle

\* One agent_prompt costs at most MaxPrompts prompts, for any limits and
\* whatever the provider answers (agent_tools.go:63, 201, 237).
THEOREM PromptsAreBounded == Spec => []PromptsBounded
<1>1. Budget => PromptsBounded
  BY DEF Budget
<1>. QED
  BY WorkInit, WorkStep, BudgetInit, BudgetStep, <1>1, PTL DEF Spec

-----------------------------------------------------------------------------
(***************************************************************************)
(* The conversation.  It changes only in Finish, by a question and its     *)
(* answer; since MaxTurns is even, what trimming drops is a pair too.      *)
(***************************************************************************)
Turns == [role : {"user", "assistant"}, request : 1 .. MaxRequests]
Turn(role) == [role |-> role, request |-> request]

HistoryTypes == history \in Seq(Turns) /\ Len(history) <= MaxTurns

HistoryIsOlder ==
    \A n \in 1 .. Len(history) :
        history[n].request <= request /\ (pc # "idle" => history[n].request # request)

ReplyWasShown == pc = "reply" => shown = reply /\ reply # "none"

TalkInv ==
    /\ Work /\ HistoryTypes /\ HistoryPaired /\ HistoryIsOlder
    /\ ReplyWasShown /\ AnswerWasShown

\* Adding one turn to a conversation: it is appended, or replaces the oldest.
LEMMA AddTurnFacts ==
  ASSUME NEW h \in Seq(Turns), Len(h) <= MaxTurns,
         request \in 1 .. MaxRequests, NEW role \in {"user", "assistant"}
  PROVE  /\ AddTurn(h, role) \in Seq(Turns) /\ Len(AddTurn(h, role)) <= MaxTurns
         /\ Len(h) < MaxTurns => AddTurn(h, role) = Append(h, Turn(role))
         /\ Len(h) = MaxTurns =>
               /\ Len(AddTurn(h, role)) = MaxTurns
               /\ \A n \in 1 .. MaxTurns - 1 : AddTurn(h, role)[n] = h[n + 1]
               /\ AddTurn(h, role)[MaxTurns] = Turn(role)
<1>. DEFINE long == Append(h, Turn(role))
<1>1. Turn(role) \in Turns
  BY DEF Turn, Turns
<1>2. /\ long \in Seq(Turns) /\ Len(long) = Len(h) + 1
      /\ \A n \in 1 .. Len(h) : long[n] = h[n]
      /\ long[Len(h) + 1] = Turn(role)
  BY <1>1
<1>3. AddTurn(h, role) = Trimmed(long)
  BY DEF AddTurn, Turn
<1>. HIDE DEF long
<1>4. CASE Len(h) < MaxTurns
  BY <1>2, <1>3, <1>4, TurnsAssumption DEF Trimmed, long
<1>5. CASE Len(h) = MaxTurns
  <2>1. AddTurn(h, role) = SubSeq(long, 2, MaxTurns + 1)
    BY <1>2, <1>3, <1>5, TurnsAssumption DEF Trimmed
  <2>2. \A n \in 2 .. MaxTurns + 1 : long[n] \in Turns
    BY <1>2, <1>5, TurnsAssumption
  <2>3. /\ AddTurn(h, role) \in Seq(Turns)
        /\ Len(AddTurn(h, role)) = MaxTurns
        /\ \A n \in 1 .. MaxTurns : AddTurn(h, role)[n] = long[n + 1]
    BY <1>2, <1>5, <2>1, <2>2, TurnsAssumption, SubSeqProperties
  <2>. QED
    BY <1>2, <1>5, <2>3, TurnsAssumption
<1>. QED
  BY <1>4, <1>5, TurnsAssumption

\* Adding a question and its answer keeps the newest turns, shifted by 0 or 2.
AddPair(h) == AddTurn(AddTurn(h, "user"), "assistant")

LEMMA AddPairFacts ==
  ASSUME NEW h \in Seq(Turns), Len(h) <= MaxTurns, Len(h) % 2 = 0,
         request \in 1 .. MaxRequests
  PROVE  /\ AddPair(h) \in Seq(Turns) /\ Len(AddPair(h)) <= MaxTurns
         /\ \E d \in {0, 2} :
               /\ d <= Len(h) /\ Len(AddPair(h)) = Len(h) - d + 2
               /\ \A n \in 1 .. Len(h) - d : AddPair(h)[n] = h[n + d]
               /\ AddPair(h)[Len(h) - d + 1] = Turn("user")
               /\ AddPair(h)[Len(h) - d + 2] = Turn("assistant")
<1>. DEFINE one == AddTurn(h, "user")
            both == AddTurn(one, "assistant")
<1>0. both = AddPair(h)
  BY DEF AddPair
<1>1. one \in Seq(Turns) /\ Len(one) <= MaxTurns
  BY AddTurnFacts
<1>2. both \in Seq(Turns) /\ Len(both) <= MaxTurns
  BY <1>1, AddTurnFacts
<1>3. CASE Len(h) < MaxTurns
  <2>1. Len(h) + 1 < MaxTurns
    BY <1>3, TurnsAssumption
  <2>2. one = Append(h, Turn("user"))
    BY <1>3, AddTurnFacts
  <2>3. Len(one) = Len(h) + 1
    BY <2>2
  <2>4. both = Append(one, Turn("assistant"))
    BY <1>1, <2>1, <2>3, AddTurnFacts
  <2>5. /\ Len(both) = Len(h) - 0 + 2
        /\ \A n \in 1 .. Len(h) - 0 : both[n] = h[n + 0]
        /\ both[Len(h) - 0 + 1] = Turn("user")
        /\ both[Len(h) - 0 + 2] = Turn("assistant")
    BY <2>2, <2>3, <2>4
  <2>. HIDE DEF both
  <2>. QED
    BY <1>0, <1>2, <2>5
<1>4. CASE Len(h) = MaxTurns
  <2>1. /\ Len(one) = MaxTurns /\ one[MaxTurns] = Turn("user")
        /\ \A n \in 1 .. MaxTurns - 1 : one[n] = h[n + 1]
    BY <1>4, AddTurnFacts
  <2>2. /\ Len(both) = MaxTurns /\ both[MaxTurns] = Turn("assistant")
        /\ \A n \in 1 .. MaxTurns - 1 : both[n] = one[n + 1]
    BY <1>1, <2>1, AddTurnFacts
  <2>3. MaxTurns >= 2
    BY TurnsAssumption
  <2>4. both[MaxTurns - 1] = Turn("user")
    BY <2>1, <2>2, <2>3, TurnsAssumption
  <2>5. \A n \in 1 .. MaxTurns - 2 : both[n] = h[n + 2]
    BY <2>1, <2>2, <2>3, TurnsAssumption
  <2>. HIDE DEF one, both
  <2>6. /\ 2 <= Len(h) /\ Len(both) = Len(h) - 2 + 2
        /\ \A n \in 1 .. Len(h) - 2 : both[n] = h[n + 2]
        /\ both[Len(h) - 2 + 1] = Turn("user")
        /\ both[Len(h) - 2 + 2] = Turn("assistant")
    BY <1>4, <2>2, <2>3, <2>4, <2>5, TurnsAssumption
  <2>. QED
    BY <1>0, <1>2, <2>6
<1>. QED
  BY <1>3, <1>4, TurnsAssumption

\* What trimming drops does not change who speaks.
LEMMA Parity ==
  ASSUME NEW d \in {0, 2}, NEW n \in Nat
  PROVE  (n + d) % 2 = n % 2 /\ (d <= n => (n - d) % 2 = n % 2)
<1>1. CASE d = 0
  BY <1>1
<1>2. CASE d = 2
  BY <1>2
<1>. QED
  BY <1>1, <1>2

LEMMA TalkInit == Init => TalkInv
<1>. SUFFICES ASSUME Init
              PROVE  TalkInv
  OBVIOUS
<1>1. history = << >> /\ history \in Seq(Turns)
  BY EmptySeq DEF Init
<1>2. pc = "idle" /\ request = 0
  BY DEF Init
<1>3. HistoryTypes /\ HistoryPaired /\ HistoryIsOlder
  BY <1>1, TurnsAssumption DEF HistoryTypes, HistoryPaired, HistoryIsOlder
<1>. QED
  BY <1>2, <1>3, WorkInit DEF TalkInv, ReplyWasShown, AnswerWasShown

\* Until it finishes, a request leaves the conversation alone.
LEMMA QuietStep ==
  ASSUME TalkInv, Work', pc # "idle", pc' # "idle", UNCHANGED <<history, request>>,
         pc' = "reply" => shown' = reply' /\ reply' # "none"
  PROVE  TalkInv'
BY DEF TalkInv, HistoryTypes, HistoryPaired, HistoryIsOlder, ReplyWasShown, AnswerWasShown

\* Every request that starts is newer than the conversation.
LEMMA NewRequest ==
  ASSUME TalkInv, pc = "idle", request' = request + 1, UNCHANGED history
  PROVE  HistoryTypes' /\ HistoryPaired' /\ HistoryIsOlder'
         /\ \A n \in 1 .. Len(history) : history[n].request # request'
<1>1. request \in Nat /\ Len(history) \in Nat
         /\ \A n \in 1 .. Len(history) : history[n].request \in Nat
  <2>1. request \in Nat /\ history \in Seq(Turns)
    BY DEF TalkInv, Work, WorkTypes, HistoryTypes
  <2>2. \A n \in 1 .. Len(history) : history[n] \in Turns
    BY <2>1
  <2>3. \A n \in 1 .. Len(history) : history[n].request \in Nat
    BY <2>2, LimitsAssumption DEF Turns
  <2>. QED
    BY <2>1, <2>3
<1>2. \A n \in 1 .. Len(history) : history[n].request <= request
  BY DEF TalkInv, HistoryIsOlder
<1>3. \A n \in 1 .. Len(history) :
          history[n].request <= request' /\ history[n].request # request'
  BY <1>1, <1>2
<1>. QED
  BY <1>3 DEF TalkInv, HistoryTypes, HistoryPaired, HistoryIsOlder

LEMMA FinishStep ==
  ASSUME TalkInv, Work', Finish
  PROVE  TalkInv'
<1>0. /\ pc = "reply" /\ pc' = "idle" /\ request \in 1 .. MaxRequests
      /\ UNCHANGED <<request, reply>>
  BY DEF Finish, TalkInv, Work, WorkTypes
<1>1. CASE reply \in {"error", "blank"}
  <2>1. shown' = "emptyResponse" /\ UNCHANGED history
    BY <1>1 DEF Finish, NothingToRemember
  <2>2. HistoryTypes' /\ HistoryPaired' /\ HistoryIsOlder'
    BY <1>0, <2>1 DEF TalkInv, HistoryTypes, HistoryPaired, HistoryIsOlder
  <2>3. history # << >> => Len(history) \in 1 .. Len(history)
    BY DEF TalkInv, HistoryTypes
  <2>4. AnswerWasShown'
    BY <1>0, <2>1, <2>3 DEF TalkInv, HistoryIsOlder, AnswerWasShown
  <2>. QED
    BY <1>0, <2>2, <2>4 DEF TalkInv, ReplyWasShown
<1>2. CASE reply \notin {"error", "blank"}
  <2>1. history' = AddPair(history) /\ shown' = shown
    BY <1>2 DEF Finish, AddPair
  <2>2. /\ history \in Seq(Turns) /\ Len(history) <= MaxTurns /\ Len(history) % 2 = 0
        /\ Len(history) \in Nat
    BY DEF TalkInv, HistoryTypes, HistoryPaired
  <2>3. history' \in Seq(Turns) /\ Len(history') <= MaxTurns
    BY <1>0, <2>1, <2>2, AddPairFacts
  <2>4. PICK d \in {0, 2} :
           /\ d <= Len(history) /\ Len(history') = Len(history) - d + 2
           /\ \A n \in 1 .. Len(history) - d : history'[n] = history[n + d]
           /\ history'[Len(history) - d + 1] = Turn("user")
           /\ history'[Len(history) - d + 2] = Turn("assistant")
    BY <1>0, <2>1, <2>2, AddPairFacts
  <2>. DEFINE kept == Len(history) - d
  <2>5. kept \in Nat /\ kept % 2 = 0 /\ Len(history') = kept + 2
    <3>1. kept \in Nat /\ Len(history') = kept + 2
      BY <2>2, <2>4
    <3>2. (Len(history) - d) % 2 = Len(history) % 2
      BY <2>2, <2>4, Parity
    <3>. QED
      BY <2>2, <3>1, <3>2
  <2>6. /\ Turn("user").role = "user" /\ Turn("assistant").role = "assistant"
        /\ Turn("user").request = request /\ Turn("assistant").request = request
    BY DEF Turn
  <2>7. \A n \in 1 .. kept :
           /\ n + d \in 1 .. Len(history) /\ (n + d) % 2 = n % 2
           /\ history'[n] = history[n + d]
    <3>1. \A n \in 1 .. kept : n + d \in 1 .. Len(history)
      BY <2>2, <2>4
    <3>2. \A n \in 1 .. kept : (n + d) % 2 = n % 2
      <4>. SUFFICES ASSUME NEW n \in 1 .. kept
                    PROVE  (n + d) % 2 = n % 2
        OBVIOUS
      <4>1. n \in Nat
        BY <2>5
      <4>. QED
        BY <4>1, Parity
    <3>. QED
      BY <2>4, <3>1, <3>2
  <2>8. /\ history'[kept + 1].role = "user" /\ history'[kept + 2].role = "assistant"
        /\ history'[kept + 1].request = request /\ history'[kept + 2].request = request
    BY <2>4, <2>6
  <2>. HIDE DEF kept
  <2>9. HistoryPaired'
    <3>1. Len(history') % 2 = 0
      BY <2>5
    <3>2. \A n \in 1 .. Len(history') :
             history'[n].role = IF n % 2 = 1 THEN "user" ELSE "assistant"
      <4>. SUFFICES ASSUME NEW n \in 1 .. Len(history')
                    PROVE  history'[n].role = IF n % 2 = 1 THEN "user" ELSE "assistant"
        OBVIOUS
      <4>1. CASE n \in 1 .. kept
        BY <2>7, <4>1 DEF TalkInv, HistoryPaired
      <4>2. CASE n = kept + 1
        BY <2>5, <2>8, <4>2
      <4>3. CASE n = kept + 2
        BY <2>5, <2>8, <4>3
      <4>. QED
        BY <2>5, <4>1, <4>2, <4>3
    <3>3. \A n \in 1 .. Len(history') - 1 :
             n % 2 = 1 => history'[n].request = history'[n + 1].request
      <4>. SUFFICES ASSUME NEW n \in 1 .. Len(history') - 1, n % 2 = 1
                    PROVE  history'[n].request = history'[n + 1].request
        OBVIOUS
      <4>1. CASE n \in 1 .. kept
        <5>1. n + 1 \in 1 .. kept
          BY <2>5, <4>1
        <5>2. n + d \in 1 .. Len(history) - 1 /\ (n + d) % 2 = 1
          BY <2>2, <2>4, <2>7, <4>1, <5>1
        <5>3. history[n + d].request = history[n + d + 1].request
          BY <5>2 DEF TalkInv, HistoryPaired
        <5>4. history'[n] = history[n + d] /\ history'[n + 1] = history[n + 1 + d]
          BY <2>7, <4>1, <5>1
        <5>5. n + 1 + d = n + d + 1
          BY <2>4
        <5>. QED
          BY <5>3, <5>4, <5>5
      <4>2. CASE n = kept + 1
        <5>1. n + 1 = kept + 2
          BY <2>5, <4>2
        <5>. QED
          BY <2>8, <4>2, <5>1
      <4>. QED
        BY <2>5, <4>1, <4>2
    <3>. QED
      BY <3>1, <3>2, <3>3 DEF HistoryPaired
  <2>10. HistoryIsOlder'
    <3>. SUFFICES ASSUME NEW n \in 1 .. Len(history')
                  PROVE  history'[n].request <= request
      BY <1>0 DEF HistoryIsOlder
    <3>1. CASE n \in 1 .. kept
      BY <2>7, <3>1 DEF TalkInv, HistoryIsOlder
    <3>2. CASE n \in {kept + 1, kept + 2}
      BY <1>0, <2>8, <3>2
    <3>. QED
      BY <2>5, <3>1, <3>2
  <2>11. AnswerWasShown' /\ ReplyWasShown'
    BY <1>0, <2>1 DEF TalkInv, ReplyWasShown, AnswerWasShown
  <2>. QED
    BY <2>3, <2>9, <2>10, <2>11 DEF TalkInv, HistoryTypes
<1>. QED
  BY <1>1, <1>2

LEMMA TalkStep == TalkInv /\ [Next]_vars => TalkInv'
<1>. SUFFICES ASSUME TalkInv, [Next]_vars
              PROVE  TalkInv'
  OBVIOUS
<1>0. Work' /\ Work
  BY WorkStep DEF TalkInv
<1>1. ASSUME NEW d \in Demands, Begin(d)
      PROVE  TalkInv'
  <2>1. pc = "idle" /\ pc' \in {"plan", "ask"} /\ request' = request + 1 /\ UNCHANGED history
    BY <1>1 DEF Begin
  <2>. QED
    BY <1>0, <2>1, NewRequest DEF TalkInv, ReplyWasShown, AnswerWasShown
<1>2. CASE BeginFails
  <2>1. /\ pc = "idle" /\ pc' = "idle" /\ request' = request + 1 /\ UNCHANGED history
        /\ shown' \in {"noProvider", "failure"}
    BY <1>2 DEF BeginFails
  <2>2. history # << >> => Len(history) \in 1 .. Len(history)
    BY DEF TalkInv, HistoryTypes
  <2>. QED
    BY <1>0, <2>1, <2>2, NewRequest DEF TalkInv, ReplyWasShown, AnswerWasShown
<1>3. CASE GetPlan
  <2>1. pc = "plan" /\ AsksForPlan /\ UNCHANGED <<history, request>>
    BY <1>0, <1>3, NothingToReuse DEF GetPlan
  <2>2. pc' # "idle" /\ (pc' = "reply" => shown' = reply' /\ reply' # "none")
    BY <2>1 DEF AsksForPlan, FallBack, Accept, Answer
  <2>. QED
    BY <1>0, <2>1, <2>2, QuietStep
<1>4. CASE RunStep
  <2>1. pc = "step" /\ UNCHANGED <<history, request>>
    BY <1>4 DEF RunStep
  <2>2. pc' # "idle" /\ (pc' = "reply" => shown' = reply' /\ reply' # "none")
    BY <1>4 DEF RunStep, StepDone, Answer
  <2>. QED
    BY <1>0, <2>1, <2>2, QuietStep
<1>5. CASE JudgeStep
  <2>1. pc = "judge" /\ UNCHANGED <<history, request>>
    BY <1>5 DEF JudgeStep
  <2>2. pc' # "idle" /\ (pc' = "reply" => shown' = reply' /\ reply' # "none")
    BY <1>5 DEF JudgeStep, Retries, Replans, StepDone, Answer
  <2>. QED
    BY <1>0, <2>1, <2>2, QuietStep
<1>6. CASE Conclude \/ Ask \/ LimitReached
  <2>1. pc \in {"conclude", "ask"} /\ UNCHANGED <<history, request>>
    BY <1>6 DEF Conclude, Ask, LimitReached
  <2>2. pc' # "idle" /\ (pc' = "reply" => shown' = reply' /\ reply' # "none")
    BY <1>6 DEF Conclude, Ask, AskAgain, LimitReached, Accept, Answer
  <2>. QED
    BY <1>0, <2>1, <2>2, QuietStep
<1>7. CASE Call
  <2>1. pc = "call" /\ pc' \in {"ask", "call"} /\ UNCHANGED <<history, request>>
    BY <1>7 DEF Call
  <2>. QED
    BY <1>0, <2>1, QuietStep
<1>8. CASE Finish
  BY <1>0, <1>8, FinishStep
<1>9. CASE UNCHANGED vars
  BY <1>9, <1>0
     DEF vars, TalkInv, HistoryTypes, HistoryPaired, HistoryIsOlder, ReplyWasShown,
         AnswerWasShown
<1>. QED
  BY <1>1, <1>2, <1>3, <1>4, <1>5, <1>6, <1>7, <1>8, <1>9 DEF Next, Handle

\* The conversation the next prompt quotes alternates, each question with its
\* answer, however requests end and whatever is trimmed (context.go:19-29).
THEOREM ConversationIsPaired == Spec => []HistoryPaired
BY TalkInit, TalkStep, PTL DEF Spec, TalkInv

\* Every request ends with a message or with a reported failure, and the
\* conversation never holds an answer the user was not shown (handler.go:213-216,
\* 350-376).
THEOREM AnswersAreShown == Spec => []AnswerWasShown
BY TalkInit, TalkStep, PTL DEF Spec, TalkInv

-----------------------------------------------------------------------------
(***************************************************************************)
(* Type correctness: Work and HistoryTypes have most of it.                *)
(***************************************************************************)
Shown == Replies \union {"plan", "step", "emptyResponse", "noProvider", "failure"}

RestTypes ==
    /\ pc # "call" => calls = << >>
    /\ reply \in Replies /\ shown \in Shown

LEMMA StepDoneRest ==
  ASSUME RestTypes, NEW done, StepDone(done)
  PROVE  reply' \in Replies /\ shown' \in Shown
BY DEF RestTypes, StepDone, Answer, Replies, Shown

LEMMA RestTypesStep == Work /\ RestTypes /\ [Next]_vars => RestTypes'
<1>. SUFFICES ASSUME Work, RestTypes, [Next]_vars
              PROVE  RestTypes'
  OBVIOUS
<1>1. ASSUME NEW d \in Demands, Begin(d)
      PROVE  RestTypes'
  BY <1>1 DEF Begin, RestTypes, Replies, Shown
<1>2. CASE BeginFails
  BY <1>2 DEF BeginFails, RestTypes, Replies, Shown, loop
<1>3. CASE GetPlan
  <2>1. pc = "plan" /\ AsksForPlan /\ UNCHANGED calls
    BY <1>3, NothingToReuse DEF GetPlan, loop
  <2>2. reply' \in Replies /\ shown' \in Shown
    BY <2>1 DEF AsksForPlan, FallBack, Accept, Answer, RestTypes, Replies, Shown
  <2>. QED
    BY <2>1, <2>2 DEF RestTypes
<1>4. CASE RunStep \/ JudgeStep
  <2>1. pc # "call" /\ UNCHANGED calls
    BY <1>4 DEF RunStep, JudgeStep, loop
  <2>2. reply' \in Replies /\ shown' \in Shown
    BY <1>4, StepDoneRest
       DEF RunStep, JudgeStep, Retries, Replans, RestTypes, Replies, Shown
  <2>. QED
    BY <2>1, <2>2 DEF RestTypes
<1>5. CASE Conclude \/ Ask \/ LimitReached
  <2>1. reply' \in Replies /\ shown' \in Shown
    BY <1>5
       DEF Conclude, Ask, AskAgain, LimitReached, Accept, Answer, RestTypes, Replies, Shown
  <2>2. pc # "call" /\ (pc' # "call" => UNCHANGED calls)
    BY <1>5 DEF Conclude, Ask, AskAgain, LimitReached, Accept, Answer, loop
  <2>. QED
    BY <2>1, <2>2 DEF RestTypes
<1>6. CASE Call
  BY <1>6 DEF Call, RestTypes
<1>7. CASE Finish
  BY <1>7 DEF Finish, RestTypes, Shown, loop
<1>8. CASE UNCHANGED vars
  BY <1>8 DEF vars, RestTypes, loop
<1>. QED
  BY <1>1, <1>2, <1>3, <1>4, <1>5, <1>6, <1>7, <1>8 DEF Next, Handle

\* The variables keep their types, for every value of the constants.
THEOREM TypeCorrect == Spec => []TypeOK
<1>1. Init => RestTypes
  BY DEF Init, RestTypes, Replies, Shown
<1>2. Work /\ RestTypes /\ HistoryTypes => TypeOK
  <2>. SUFFICES ASSUME Work, RestTypes, HistoryTypes
                PROVE  TypeOK
    OBVIOUS
  <2>1. /\ pc \in Places /\ request \in 0 .. MaxRequests /\ demand \in Demands
        /\ attempt \in 0 .. MaxAttempts /\ retries \in 0 .. 1 /\ plan \in Plans
        /\ round \in 0 .. MaxRounds /\ calls \in Seq(Kinds) /\ results \in Seq(Kinds)
        /\ prompts \in Nat
    BY LimitsAssumption DEF Work, WorkTypes
  <2>2. tried \in BOOLEAN
    BY DEF Work, WorkTypes
  <2>3. /\ pc \in {"step", "judge"} => plan.index < Len(plan.steps)
        /\ (pc = "call") <=> (calls # << >>)
    BY DEF Work, WorkPlaces, RestTypes
  <2>. QED
    BY <2>1, <2>2, <2>3 DEF TypeOK, RestTypes, Shown, HistoryTypes, Turns
<1>. QED
  BY WorkInit, WorkStep, TalkInit, TalkStep, RestTypesStep, <1>1, <1>2, PTL DEF Spec, TalkInv
=============================================================================
