--------------------------- MODULE AdvisorProofs ---------------------------
(***************************************************************************)
(* Proofs about Advisor, for any number of analyses and questions, any     *)
(* pool, number of iterations, replies of the model and failures.          *)
(***************************************************************************)
EXTENDS Advisor, SequenceTheorems, FiniteSetTheorems, TLAPS

Thinking == {"new", "select", "retrieve", "query", "ask", "tool"}

\* Before a run has an answer it has no advice; the advice of an analysis that is
\* to be stored is the model's or the rule's; the model's has a confidence that
\* float() accepts, the rule's leaves no reply behind.
AdviceInv ==
    \A r \in Runs :
      /\ runs[r].pc \in Thinking => runs[r].advice = "none"
      /\ runs[r].advice # "model" => runs[r].reply = NoReply
      /\ r \in Analyses => runs[r].pc # "store"
      /\ r \in Analyses /\ runs[r].pc \in {"decided", "done"} =>
           /\ runs[r].advice \in {"model", "rule"}
           /\ runs[r].reply.confidence # Text

\* What was written is what was decided.
StoredInv == \A r \in Analyses : At(r, "done") => outcome[r] = Decide(r)

\* Unless an entry was lost, a latest answer is in the session, and behind it only
\* the questions whose answers are still to be stored.
Answered == {q \in Questions : At(q, "done")}
Storing == {q \in Questions : At(q, "store")}
AnswerBehind(n) ==
    \E i \in DOMAIN memory : /\ memory[i].role = "assistant" /\ memory[i].by \in Answered
                             /\ Len(memory) - i <= n
MemoryInv == faults = 0 /\ Answered # {} => AnswerBehind(Cardinality(Storing))

IInv == /\ TypeOK /\ AdviceInv /\ RuleOnlyWhenNeeded /\ StoredInv
        /\ MemoryInv /\ LastAnswerShown

-----------------------------------------------------------------------------
(* Operators.                                                              *)

LEMMA IterationsPositive == Iterations \in Nat /\ Iterations >= 1
  BY AdvisorAssumption DEF Iterations

\* max(0.0, min(1.0, c)) lies on the same side of the threshold as c; NaN does not.
LEMMA ClampThreshold ==
    ASSUME NEW c \in Confidence, c # Text, c # Absent
    PROVE  Clamp(c) < Threshold <=> c.is = "number" /\ c.n < Threshold
  BY DEF Clamp, Confidence, NaN, Text, Absent, Threshold

LEMMA DecideType ==
    ASSUME NEW r \in Analyses, runs \in [Runs -> Run]
    PROVE  Decide(r) \in [from : Status, to : Status, review : BOOLEAN]
  BY DEF Decide, Runs, Run, Unsure

\* A question is shown HistoryLimit entries at most.
LEMMA RecentBounded ==
    ASSUME memory \in Seq(Entries)
    PROVE  Recent \in Seq(Entries)
           /\ Len(Recent) <= HistoryLimit
  <1> HistoryLimit \in Nat /\ Len(memory) \in Nat
    BY AdvisorAssumption
  <1>1. CASE Len(memory) <= HistoryLimit
    BY <1>1 DEF Recent
  <1>2. CASE Len(memory) > HistoryLimit
    <2> DEFINE first == Len(memory) - HistoryLimit + 1
    <2>1. /\ Recent = SubSeq(memory, first, Len(memory))
          /\ first \in 1 .. Len(memory) + 1 /\ Len(memory) \in 0 .. Len(memory)
      BY <1>2 DEF Recent, History
    <2>2. /\ Recent \in Seq(Entries)
          /\ Len(Recent) = IF first <= Len(memory) THEN Len(memory) - first + 1 ELSE 0
      BY <2>1, SubSeqProperties
    <2> QED
      BY <2>2
  <1> QED
    BY <1>1, <1>2

-----------------------------------------------------------------------------
(* Types.                                                                  *)

LEMMA RunType ==
    ASSUME TypeOK, NEW r \in Runs
    PROVE  runs[r] \in Run /\ runs[r].n \in 1 .. Iterations
  BY DEF TypeOK

\* A run may become any other; nothing else of it is in a type.
Moved(r, x) == runs' = [runs EXCEPT ![r] = x]
LEMMA MoveIs ==
    ASSUME TypeOK, NEW r \in Runs, NEW x, Moved(r, x)
    PROVE  runs'[r] = x /\ \A q \in Runs \ {r} : runs'[q] = runs[q]
  BY DEF TypeOK, Moved

LEMMA MoveType ==
    ASSUME TypeOK, NEW r \in Runs, NEW x \in Run, x.n \in 1 .. Iterations, Moved(r, x)
    PROVE  runs' \in [Runs -> Run] /\ \A q \in Runs : runs'[q].n \in 1 .. Iterations
  BY DEF TypeOK, Moved

LEMMA GotoType ==
    ASSUME TypeOK, NEW r \in Runs, NEW pc, Goto(r, pc),
           pc \in {"new", "select", "retrieve", "query", "ask", "tool", "decided", "store",
                   "done", "failed"}
    PROVE  runs' \in [Runs -> Run] /\ \A q \in Runs : runs'[q].n \in 1 .. Iterations
  <1> DEFINE x == [runs[r] EXCEPT !.pc = pc]
  <1>1. x \in Run /\ x.n \in 1 .. Iterations
    BY RunType DEF Run
  <1> QED
    BY <1>1, MoveType DEF Goto, Moved

LEMMA FallBackType ==
    ASSUME TypeOK, NEW r \in Runs, FallBack(r)
    PROVE  runs' \in [Runs -> Run] /\ \A q \in Runs : runs'[q].n \in 1 .. Iterations
  <1> DEFINE x == [runs[r] EXCEPT !.pc = "decided", !.advice = "rule", !.upset = TRUE]
  <1>1. x \in Run /\ x.n \in 1 .. Iterations
    BY RunType DEF Run
  <1> QED
    BY <1>1, MoveType DEF FallBack, Moved

LEMMA InitIInv == Init => IInv
  <1> SUFFICES ASSUME Init PROVE IInv
    OBVIOUS
  <1>1. NewRun \in Run /\ Iterations \in Nat /\ 1 \in 1 .. Iterations
    BY IterationsPositive DEF NewRun, Run, Status, NoReply
  <1>2. TypeOK
    BY <1>1, AdvisorAssumption DEF Init, TypeOK, NewRun, NoOutcome, Status
  <1>3. AdviceInv
    BY DEF Init, AdviceInv, NewRun, Thinking
  <1>4. RuleOnlyWhenNeeded /\ StoredInv
    <2>1. \A r \in Runs : runs[r].pc = "new" /\ runs[r].advice = "none"
      BY DEF Init, NewRun
    <2> QED
      BY <2>1 DEF RuleOnlyWhenNeeded, StoredInv, At, Runs
  <1>5. MemoryInv /\ LastAnswerShown
    <2>1. Answered = {}
      BY DEF Init, NewRun, Answered, At, Runs
    <2>2. \A q \in Questions : earlier[q] = {}
      BY DEF Init
    <2> QED
      BY <2>1, <2>2 DEF MemoryInv, LastAnswerShown
  <1> QED
    BY <1>2, <1>3, <1>4, <1>5 DEF IInv

\* What every step does to the runs.
LEMMA RunsStep ==
    ASSUME IInv, Next
    PROVE  runs' \in [Runs -> Run] /\ \A q \in Runs : runs'[q].n \in 1 .. Iterations
  <1> USE DEF IInv
  <1> DEFINE Typed == runs' \in [Runs -> Run] /\ \A q \in Runs : runs'[q].n \in 1 .. Iterations
  <1>1. ASSUME NEW r \in Runs, NEW s \in Situations, StartAnalysis(r, s)
        PROVE  Typed
    <2> DEFINE x == [runs[r] EXCEPT !.pc = "select", !.situation = s]
    <2>1. x \in Run /\ x.n \in 1 .. Iterations
      BY RunType DEF Run
    <2> QED
      BY <1>1, <2>1, MoveType DEF StartAnalysis, Moved
  <1>2. ASSUME NEW r \in Runs, NEW now \in Status, SelectIncident(r, now)
        PROVE  Typed
    <2> DEFINE x == [runs[r] EXCEPT !.pc = "retrieve", !.now = now]
    <2>1. x \in Run /\ x.n \in 1 .. Iterations
      BY RunType DEF Run
    <2> QED
      BY <1>2, <2>1, MoveType DEF SelectIncident, Moved
  <1>3. ASSUME NEW r \in Runs,
               \/ StartQuestion(r) \/ StartQuestionBlind(r)
               \/ BeginQuery(r) \/ EndQuery(r) \/ AskTool(r)
               \/ Conclude(r) \/ ConcludeFails(r)
               \/ StoreQuestion(r) \/ StoreAnswer(r) \/ StoreFails(r)
        PROVE  Typed
    BY <1>3, GotoType DEF StartQuestion, StartQuestionBlind, BeginQuery, EndQuery, AskTool,
                          Conclude, ConcludeFails, StoreQuestion, StoreAnswer, StoreFails
  <1>4. ASSUME NEW r \in Runs, PoolTimeout(r) \/ QueryFails(r) \/ AskFails(r)
        PROVE  Typed
    BY <1>4, GotoType, FallBackType DEF PoolTimeout, QueryFails, AskFails
  <1>5. ASSUME NEW r \in Runs, ToolAnswers(r) \/ ToolFails(r)
        PROVE  Typed
    <2> DEFINE x == IF LastIteration(r) THEN [runs[r] EXCEPT !.pc = "decided", !.advice = "rule"]
                    ELSE [runs[r] EXCEPT !.n = runs[r].n + 1, !.pc = "ask"]
    <2>1. CASE LastIteration(r)
      <3>1. x = [runs[r] EXCEPT !.pc = "decided", !.advice = "rule"]
        BY <2>1
      <3>2. x \in Run /\ x.n \in 1 .. Iterations
        BY <3>1, RunType DEF Run
      <3> QED
        BY <1>5, <2>1, <3>1, <3>2, MoveType DEF ToolAnswers, ToolFails, ToolReturns, Moved
    <2>2. CASE ~LastIteration(r)
      <3> DEFINE next == runs[r].n + 1
                 y == [runs[r] EXCEPT !.n = next, !.pc = "ask"]
      <3>1. next \in 1 .. Iterations /\ next \in Nat
        BY <2>2, IterationsPositive, RunType DEF LastIteration
      <3>2. y.n = next
        BY RunType DEF Run
      <3>3. Moved(r, y)
        BY <1>5, <2>2 DEF ToolAnswers, ToolFails, ToolReturns, Moved
      <3> HIDE DEF next
      <3>4. y \in Run
        BY <3>1, RunType DEF Run
      <3> QED
        BY <3>1, <3>2, <3>3, <3>4, MoveType
    <2> QED
      BY <2>1, <2>2
  <1>6. ASSUME NEW r \in Runs, NEW reply \in Replies, AskFinal(r, reply)
        PROVE  Typed
    <2> DEFINE x == [runs[r] EXCEPT !.pc = "decided", !.advice = "model",
                                    !.reply = IF r \in Analyses THEN reply ELSE NoReply]
    <2> DEFINE kept == IF r \in Analyses THEN reply ELSE NoReply
    <2>1. kept \in Replies \cup {NoReply}
      OBVIOUS
    <2> HIDE DEF kept
    <2>2. [runs[r] EXCEPT !.pc = "decided", !.advice = "model", !.reply = kept] \in Run
      BY <2>1, RunType DEF Run, NoReply
    <2>3. x \in Run /\ x.n \in 1 .. Iterations
      BY <2>2, RunType DEF Run, kept
    <2> QED
      BY <1>6, <2>3, MoveType, FallBackType DEF AskFinal, Moved
  <1>7. CASE Expire
    BY <1>7 DEF Expire, TypeOK
  <1> QED
    BY <1>1, <1>2, <1>3, <1>4, <1>5, <1>6, <1>7 DEF Next, Step

\* ... and to the other variables.
LEMMA TypeStep ==
    ASSUME IInv, Next
    PROVE  TypeOK'
  <1>1. mix' = mix
    BY DEF Next, Step, StartAnalysis, StartQuestion, StartQuestionBlind, SelectIncident,
           BeginQuery, EndQuery, PoolTimeout, AskTool, ToolAnswers, ToolFails, ToolReturns,
           AskFinal, Conclude, StoreQuestion, StoreAnswer, QueryFails, AskFails,
           ConcludeFails, StoreFails, Expire
  <1>2. faults' \in 0 .. MaxFaults
    <2>1. faults' = faults \/ Fault
      BY DEF Next, Step, StartAnalysis, StartQuestion, StartQuestionBlind, SelectIncident,
             BeginQuery, EndQuery, PoolTimeout, AskTool, ToolAnswers, ToolFails,
             AskFinal, Conclude, StoreQuestion, StoreAnswer, QueryFails, AskFails,
             ConcludeFails, StoreFails, Expire
    <2> QED
      BY <2>1, AdvisorAssumption DEF Fault, IInv, TypeOK
  <1>3. outcome' \in [Analyses -> [from : Status, to : Status, review : BOOLEAN]]
    <2>1. \/ outcome' = outcome
          \/ \E r \in Analyses : outcome' = [outcome EXCEPT ![r] = Decide(r)]
      BY DEF Next, Step, StartAnalysis, StartQuestion, StartQuestionBlind, SelectIncident,
             BeginQuery, EndQuery, PoolTimeout, AskTool, ToolAnswers, ToolFails, ToolReturns,
             AskFinal, Conclude, StoreQuestion, StoreAnswer, QueryFails, AskFails,
             ConcludeFails, StoreFails, Expire
    <2> QED
      BY <2>1, DecideType DEF IInv, TypeOK
  <1>4. /\ memory' \in Seq(Entries)
        /\ shown' \in [Questions -> Seq(Entries)]
        /\ \A q \in Questions : Len(shown'[q]) <= HistoryLimit
        /\ earlier' \in [Questions -> SUBSET Questions]
    <2> USE DEF IInv
    <2>1. CASE UNCHANGED session
      BY <2>1 DEF session, TypeOK
    <2>2. ASSUME NEW r \in Runs, StartQuestion(r)
          PROVE  <1>4!:
      <3>1. /\ memory' = memory
            /\ shown' = [shown EXCEPT ![r] = Recent]
            /\ earlier' = [earlier EXCEPT ![r] = {q \in Questions : At(q, "done")}]
        BY <2>2 DEF StartQuestion
      <3> QED
        BY <3>1, RecentBounded DEF TypeOK
    <2>3. ASSUME NEW r \in Runs, StoreQuestion(r) \/ StoreAnswer(r)
          PROVE  <1>4!:
      <3>1. r \in Questions
        BY <2>3 DEF StoreQuestion, StoreAnswer, AdviceInv, Runs, At
      <3>2. memory' \in Seq(Entries)
        <4>1. Entry(r, "user") \in Entries /\ Entry(r, "assistant") \in Entries
          BY <3>1 DEF Entry, Entries
        <4>2. memory' = Append(memory, Entry(r, "user")) \/ memory' = Append(memory, Entry(r, "assistant"))
          BY <2>3 DEF StoreQuestion, StoreAnswer
        <4>3. memory \in Seq(Entries)
          BY DEF TypeOK
        <4> QED
          BY <4>1, <4>2, <4>3
      <3> QED
        BY <2>3, <3>2 DEF StoreQuestion, StoreAnswer, TypeOK
    <2>4. CASE Expire
      BY <2>4 DEF Expire, TypeOK
    <2> QED
      BY <2>1, <2>2, <2>3, <2>4
         DEF Next, Step, StartAnalysis, StartQuestionBlind, SelectIncident,
             BeginQuery, EndQuery, PoolTimeout, AskTool, ToolAnswers, ToolFails, ToolReturns,
             AskFinal, Conclude, QueryFails, AskFails, ConcludeFails, StoreFails
  <1> QED
    BY <1>1, <1>2, <1>3, <1>4, RunsStep DEF IInv, TypeOK

-----------------------------------------------------------------------------
(* Advice and decisions.                                                   *)

\* What a step makes of one run: it goes on without advice, gives up, falls back,
\* takes the model's reply, or stores and ends.
Keeps(r, x) == x.advice = runs[r].advice /\ x.reply = runs[r].reply
Advances(r, x) ==
    \/ /\ runs[r].pc \in Thinking
       /\ \/ x.pc \in Thinking /\ Keeps(r, x)
          \/ x.pc = "failed" /\ Keeps(r, x)
          \/ /\ x.pc = "decided" /\ x.advice = "rule" /\ x.reply = runs[r].reply
             /\ ~x.upset => x.n = Iterations
          \/ /\ x.pc = "decided" /\ x.advice = "model"
             /\ r \in Analyses => x.reply.confidence # Text
    \/ /\ runs[r].pc \in {"decided", "store"}
       /\ x.pc \in {"store", "done", "failed"}
       /\ r \in Analyses => x.pc # "store"
       /\ x = [runs[r] EXCEPT !.pc = x.pc]

\* Every step but Expire moves one run, and writes a decision if that ends it.
Moves(r) ==
    \E x \in Run :
      /\ Moved(r, x)
      /\ Advances(r, x)
      /\ outcome' = IF r \in Analyses /\ x.pc = "done"
                    THEN [outcome EXCEPT ![r] = Decide(r)] ELSE outcome

LEMMA StepMoves ==
    ASSUME IInv, Next
    PROVE  (UNCHANGED <<runs, outcome>>) \/ \E r \in Runs : Moves(r)
  <1> USE DEF IInv
  <1>0. \A r \in Runs : runs[r] \in Run /\ runs[r].n <= Iterations
    BY RunType, IterationsPositive
  <1>1. ASSUME NEW r \in Runs, NEW s \in Situations, StartAnalysis(r, s)
        PROVE  Moves(r)
    <2> DEFINE x == [runs[r] EXCEPT !.pc = "select", !.situation = s]
    <2>1. x \in Run /\ x.pc = "select" /\ Keeps(r, x)
      BY <1>0 DEF Run, Keeps
    <2>2. Moved(r, x) /\ UNCHANGED outcome /\ runs[r].pc = "new"
      BY <1>1 DEF StartAnalysis, Moved, At
    <2> HIDE DEF x
    <2> QED
      BY <2>1, <2>2 DEF Moves, Advances, Thinking
  <1>2. ASSUME NEW r \in Runs, NEW now \in Status, SelectIncident(r, now)
        PROVE  Moves(r)
    <2> DEFINE x == [runs[r] EXCEPT !.pc = "retrieve", !.now = now]
    <2>1. x \in Run /\ x.pc = "retrieve" /\ Keeps(r, x)
      BY <1>0 DEF Run, Keeps
    <2>2. Moved(r, x) /\ UNCHANGED outcome /\ runs[r].pc = "select"
      BY <1>2 DEF SelectIncident, Moved, At
    <2> HIDE DEF x
    <2> QED
      BY <2>1, <2>2 DEF Moves, Advances, Thinking
  <1>3. ASSUME NEW r \in Runs, NEW pc \in Thinking \cup {"failed"}, Goto(r, pc),
               runs[r].pc \in Thinking, UNCHANGED outcome
        PROVE  Moves(r)
    <2> DEFINE x == [runs[r] EXCEPT !.pc = pc]
    <2>1. x \in Run /\ x.pc = pc /\ Keeps(r, x)
      BY <1>0 DEF Run, Keeps, Thinking
    <2>2. Moved(r, x)
      BY <1>3 DEF Goto, Moved
    <2> HIDE DEF x
    <2> QED
      BY <1>3, <2>1, <2>2 DEF Moves, Advances, Thinking
  <1>4. ASSUME NEW r \in Runs, FallBack(r), runs[r].pc \in Thinking, UNCHANGED outcome
        PROVE  Moves(r)
    <2> DEFINE x == [runs[r] EXCEPT !.pc = "decided", !.advice = "rule", !.upset = TRUE]
    <2>1. x \in Run /\ x.pc = "decided" /\ x.advice = "rule" /\ x.reply = runs[r].reply /\ x.upset
      BY <1>0 DEF Run, Keeps
    <2>2. Moved(r, x)
      BY <1>4 DEF FallBack, Moved
    <2> HIDE DEF x
    <2> QED
      BY <1>4, <2>1, <2>2 DEF Moves, Advances
  <1>5. ASSUME NEW r \in Runs,
               \/ StartQuestion(r) \/ StartQuestionBlind(r)
               \/ BeginQuery(r) \/ EndQuery(r) \/ AskTool(r)
        PROVE  Moves(r)
    <2>1. /\ runs[r].pc \in Thinking /\ UNCHANGED outcome
          /\ Goto(r, "ask") \/ Goto(r, "query") \/ Goto(r, "tool")
      BY <1>5 DEF StartQuestion, StartQuestionBlind, BeginQuery, EndQuery, AskTool, At, Thinking
    <2> QED
      BY <2>1, <1>3 DEF Thinking
  <1>6. ASSUME NEW r \in Runs, PoolTimeout(r) \/ QueryFails(r) \/ AskFails(r)
        PROVE  Moves(r)
    <2>1. /\ runs[r].pc \in Thinking /\ UNCHANGED outcome
          /\ Goto(r, "failed") \/ FallBack(r)
      BY <1>6 DEF PoolTimeout, QueryFails, AskFails, At, Thinking
    <2> QED
      BY <2>1, <1>3, <1>4
  <1>7. ASSUME NEW r \in Runs, ToolAnswers(r) \/ ToolFails(r)
        PROVE  Moves(r)
    <2>1. runs[r].pc \in Thinking /\ UNCHANGED outcome
      BY <1>7 DEF ToolAnswers, ToolFails, ToolReturns, At, Thinking
    <2>2. CASE LastIteration(r)
      <3> DEFINE x == [runs[r] EXCEPT !.pc = "decided", !.advice = "rule"]
      <3>0. runs[r].n = Iterations
        BY <2>2, RunType, IterationsPositive DEF LastIteration
      <3>1. /\ x \in Run /\ x.pc = "decided" /\ x.advice = "rule" /\ x.reply = runs[r].reply
            /\ x.n = Iterations
        BY <3>0, <1>0 DEF Run
      <3>2. Moved(r, x)
        BY <1>7, <2>2 DEF ToolAnswers, ToolFails, ToolReturns, Moved
      <3> HIDE DEF x
      <3> QED
        BY <2>1, <3>1, <3>2 DEF Moves, Advances
    <2>3. CASE ~LastIteration(r)
      <3> DEFINE next == runs[r].n + 1
                 x == [runs[r] EXCEPT !.n = next, !.pc = "ask"]
      <3>1. next \in Nat /\ next <= Iterations
        BY <2>3, RunType, IterationsPositive DEF LastIteration
      <3>2. Moved(r, x)
        BY <1>7, <2>3 DEF ToolAnswers, ToolFails, ToolReturns, Moved
      <3> HIDE DEF next
      <3>3. /\ x \in Run /\ x.pc = "ask" /\ Keeps(r, x)
          BY <3>1, RunType DEF Run, Keeps
      <3> HIDE DEF x
      <3> QED
        BY <2>1, <3>2, <3>3 DEF Moves, Advances, Thinking
    <2> QED
      BY <2>2, <2>3
  <1>8. ASSUME NEW r \in Runs, NEW reply \in Replies, AskFinal(r, reply)
        PROVE  Moves(r)
    <2>1. runs[r].pc \in Thinking /\ UNCHANGED outcome
      BY <1>8 DEF AskFinal, At, Thinking
    <2>2. CASE reply.confidence = Text /\ r \in Analyses
      BY <1>8, <1>4, <2>1, <2>2 DEF AskFinal
    <2>3. CASE ~(reply.confidence = Text /\ r \in Analyses)
      <3> DEFINE kept == IF r \in Analyses THEN reply ELSE NoReply
                 x == [runs[r] EXCEPT !.pc = "decided", !.advice = "model", !.reply = kept]
      <3>1. kept \in Replies \cup {NoReply} /\ (r \in Analyses => kept.confidence # Text)
        BY <2>3
      <3>2. Moved(r, x)
        BY <1>8, <2>3 DEF AskFinal, Moved
      <3> HIDE DEF kept
      <3>3. x \in Run /\ x.pc = "decided" /\ x.advice = "model" /\ x.reply = kept
        BY <3>1, RunType DEF Run, NoReply
      <3> HIDE DEF x
      <3> QED
        BY <2>1, <3>1, <3>2, <3>3 DEF Moves, Advances
    <2> QED
      BY <2>2, <2>3
  <1>9. ASSUME NEW r \in Runs,
               \/ Conclude(r) \/ ConcludeFails(r)
               \/ StoreQuestion(r) \/ StoreAnswer(r) \/ StoreFails(r)
        PROVE  Moves(r)
    <2>1. PICK pc \in {"store", "done", "failed"} :
                 /\ Goto(r, pc) /\ runs[r].pc \in {"decided", "store"}
                 /\ r \in Analyses => pc # "store"
                 /\ outcome' = IF r \in Analyses /\ pc = "done"
                               THEN [outcome EXCEPT ![r] = Decide(r)] ELSE outcome
      BY <1>9, AdvisorAssumption
         DEF Conclude, ConcludeFails, StoreQuestion, StoreAnswer, StoreFails, At, AdviceInv, Runs
    <2> DEFINE x == [runs[r] EXCEPT !.pc = pc]
    <2>2. x \in Run /\ x.pc = pc
      BY <1>0 DEF Run
    <2>3. Moved(r, x) /\ x = [runs[r] EXCEPT !.pc = x.pc]
      BY <2>1, <2>2 DEF Goto, Moved
    <2> HIDE DEF x
    <2>4. Advances(r, x)
      BY <2>1, <2>2, <2>3 DEF Advances
    <2> QED
      BY <2>1, <2>2, <2>3, <2>4 DEF Moves
  <1>10. CASE Expire
    BY <1>10 DEF Expire
  <1> QED
    BY <1>1, <1>2, <1>5, <1>6, <1>7, <1>8, <1>9, <1>10 DEF Next, Step

\* A decision depends on what the run has read and on its advice.
LEMMA DecideSame ==
    ASSUME NEW r \in Runs, runs'[r].situation = runs[r].situation, runs'[r].now = runs[r].now,
           runs'[r].advice = runs[r].advice, runs'[r].reply = runs[r].reply
    PROVE  Decide(r)' = Decide(r)
  <1>1. Advice(r)' = Advice(r)
    BY DEF Advice
  <1> QED
    BY <1>1 DEF Decide

LEMMA AdviceStep ==
    ASSUME IInv, UNCHANGED <<runs, outcome>> \/ \E r \in Runs : Moves(r)
    PROVE  AdviceInv' /\ RuleOnlyWhenNeeded'
  <1> USE DEF IInv
  <1>1. CASE UNCHANGED <<runs, outcome>>
    BY <1>1 DEF AdviceInv, RuleOnlyWhenNeeded
  <1>2. ASSUME NEW r \in Runs, Moves(r)
        PROVE  AdviceInv' /\ RuleOnlyWhenNeeded'
    <2>1. PICK x \in Run : Moved(r, x) /\ Advances(r, x)
      BY <1>2 DEF Moves
    <2>2. /\ runs'[r] = x
          /\ \A q \in Runs \ {r} : runs'[q] = runs[q]
      BY <2>1, MoveIs
    <2>3. \/ runs[r].pc \in Thinking
          \/ Keeps(r, x) /\ x.n = runs[r].n /\ x.upset = runs[r].upset
      <3> DEFINE y == [runs[r] EXCEPT !.pc = x.pc]
      <3>1. Keeps(r, y) /\ y.n = runs[r].n /\ y.upset = runs[r].upset
        BY RunType DEF Keeps, Run
      <3> HIDE DEF y
      <3>2. runs[r].pc \in Thinking \/ x = y
        BY <2>1 DEF Advances, y
      <3> QED
        BY <3>1, <3>2
    <2>4. AdviceInv'
      <3> SUFFICES ASSUME NEW q \in Runs
                   PROVE  /\ runs'[q].pc \in Thinking => runs'[q].advice = "none"
                          /\ runs'[q].advice # "model" => runs'[q].reply = NoReply
                          /\ q \in Analyses => runs'[q].pc # "store"
                          /\ q \in Analyses /\ runs'[q].pc \in {"decided", "done"} =>
                               /\ runs'[q].advice \in {"model", "rule"}
                               /\ runs'[q].reply.confidence # Text
        BY DEF AdviceInv, Thinking, NoReply, Text, Absent
      <3>1. CASE q # r
        BY <3>1, <2>2 DEF AdviceInv
      <3>2. CASE q = r
        <4>1. NoReply.confidence # Text
          BY DEF NoReply, Text, Absent
        <4> QED
          BY <3>2, <2>1, <2>2, <2>3, <4>1 DEF Advances, Keeps, AdviceInv, Thinking
      <3> QED
        BY <3>1, <3>2
    <2>5. RuleOnlyWhenNeeded'
      <3> SUFFICES ASSUME NEW q \in Runs, runs'[q].advice = "rule", ~runs'[q].upset
                   PROVE  runs'[q].n = Iterations
        BY DEF RuleOnlyWhenNeeded, Iterations
      <3>1. CASE q # r
        BY <3>1, <2>2 DEF RuleOnlyWhenNeeded
      <3>2. CASE q = r
        BY <3>2, <2>1, <2>2, <2>3 DEF Advances, Keeps, RuleOnlyWhenNeeded, AdviceInv, Thinking
      <3> QED
        BY <3>1, <3>2
    <2> QED
      BY <2>4, <2>5
  <1> QED
    BY <1>1, <1>2

LEMMA StoredStep ==
    ASSUME IInv, UNCHANGED <<runs, outcome>> \/ \E r \in Runs : Moves(r)
    PROVE  StoredInv'
  <1> USE DEF IInv
  <1> SUFFICES ASSUME NEW q \in Analyses, runs'[q].pc = "done"
               PROVE  outcome'[q] = Decide(q)'
    BY DEF StoredInv, At
  <1>0. q \in Runs
    BY DEF Runs
  <1>1. CASE runs'[q] = runs[q] /\ outcome'[q] = outcome[q]
    BY <1>0, <1>1, DecideSame DEF StoredInv, At
  <1>2. ASSUME NEW r \in Runs, Moves(r)
        PROVE  outcome'[q] = Decide(q)'
    <2>0. PICK x \in Run :
                 /\ Moved(r, x) /\ Advances(r, x)
                 /\ outcome' = IF r \in Analyses /\ x.pc = "done"
                               THEN [outcome EXCEPT ![r] = Decide(r)] ELSE outcome
      BY <1>2 DEF Moves
    <2>1. CASE q # r
      BY <1>0, <1>1, <2>0, <2>1, MoveIs DEF TypeOK
    <2>2. CASE q = r
      <3>1. runs'[r] = x /\ x.pc = "done"
        BY <2>0, <2>2, MoveIs
      <3>2. x = [runs[r] EXCEPT !.pc = "done"]
        BY <2>0, <3>1 DEF Advances, Thinking
      <3>3. /\ runs'[r].situation = runs[r].situation /\ runs'[r].now = runs[r].now
            /\ runs'[r].advice = runs[r].advice /\ runs'[r].reply = runs[r].reply
        BY <3>1, <3>2, RunType DEF Run
      <3>4. outcome'[r] = Decide(r)
        BY <2>0, <2>2, <3>1 DEF TypeOK
      <3> QED
        BY <2>2, <3>3, <3>4, DecideSame
    <2> QED
      BY <2>1, <2>2
  <1> QED
    BY <1>0, <1>1, <1>2

-----------------------------------------------------------------------------
(* The session.                                                            *)

\* Only what begins or ends the storing of a question changes who is storing and
\* who is answered.
SameQuestions == Answered' = Answered /\ Storing' = Storing

LEMMA QuietMove ==
    ASSUME TypeOK, NEW r \in Runs, NEW x, Moved(r, x),
           \/ r \in Analyses
           \/ /\ runs[r].pc \notin {"store", "done"}
              /\ x.pc \notin {"store", "done"}
    PROVE  SameQuestions
  <1>1. runs'[r] = x /\ \A q \in Runs \ {r} : runs'[q] = runs[q]
    BY MoveIs
  <1>2. ASSUME NEW q \in Questions
        PROVE  /\ runs'[q].pc = "done" <=> runs[q].pc = "done"
               /\ runs'[q].pc = "store" <=> runs[q].pc = "store"
    BY <1>1, AdvisorAssumption DEF Runs
  <1> QED
    BY <1>2 DEF SameQuestions, Answered, Storing, At

LEMMA GotoMoves ==
    ASSUME TypeOK, NEW r \in Runs, NEW pc, Goto(r, pc)
    PROVE  \E x : Moved(r, x) /\ x.pc = pc
  <1> DEFINE x == [runs[r] EXCEPT !.pc = pc]
  <1>1. Moved(r, x) /\ x.pc = pc
    BY RunType DEF Goto, Moved, Run
  <1> QED
    BY <1>1

\* What a step without a failure is to the session: nothing, or one of the three
\* steps of a question that touch it.
LEMMA SessionStep ==
    ASSUME IInv, Next, faults' = 0
    PROVE  \/ UNCHANGED session /\ SameQuestions
           \/ \E r \in Questions : StartQuestion(r) /\ SameQuestions
           \/ \E r \in Questions : StoreQuestion(r)
           \/ \E r \in Questions : StoreAnswer(r)
  <1> USE DEF IInv
  <1>0. faults \in Nat
    BY AdvisorAssumption DEF TypeOK
  <1>1. ASSUME NEW r \in Runs,
               \/ StartQuestionBlind(r) \/ QueryFails(r) \/ ToolFails(r) \/ AskFails(r)
               \/ ConcludeFails(r) \/ StoreFails(r) \/ Expire
        PROVE  FALSE
    <2>1. Fault
      BY <1>1 DEF StartQuestionBlind, QueryFails, ToolFails, AskFails, ConcludeFails, StoreFails,
                  Expire
    <2> QED
      BY <1>0, <2>1 DEF Fault
  <1>2. ASSUME NEW r \in Runs, NEW pc, Goto(r, pc), runs[r].pc \notin {"store", "done"},
               pc \notin {"store", "done"}
        PROVE  SameQuestions
    BY <1>2, GotoMoves, QuietMove
  <1>3. ASSUME NEW r \in Runs, NEW s \in Situations, StartAnalysis(r, s)
        PROVE  UNCHANGED session /\ SameQuestions
    BY <1>3, QuietMove DEF StartAnalysis, Moved
  <1>4. ASSUME NEW r \in Runs, NEW now \in Status, SelectIncident(r, now)
        PROVE  UNCHANGED session /\ SameQuestions
    <2> DEFINE x == [runs[r] EXCEPT !.pc = "retrieve", !.now = now]
    <2>1. x.pc = "retrieve" /\ Moved(r, x) /\ runs[r].pc = "select" /\ UNCHANGED session
      BY <1>4, RunType DEF SelectIncident, Moved, At, Run
    <2> HIDE DEF x
    <2> QED
      BY <2>1, QuietMove
  <1>5. ASSUME NEW r \in Runs, FallBack(r), runs[r].pc \notin {"store", "done"}
        PROVE  SameQuestions
    <2> DEFINE x == [runs[r] EXCEPT !.pc = "decided", !.advice = "rule", !.upset = TRUE]
    <2>1. x.pc = "decided" /\ Moved(r, x)
      BY <1>5, RunType DEF FallBack, Moved, Run
    <2> HIDE DEF x
    <2> QED
      BY <1>5, <2>1, QuietMove
  <1>6. ASSUME NEW r \in Runs, BeginQuery(r) \/ EndQuery(r) \/ AskTool(r) \/ PoolTimeout(r)
        PROVE  UNCHANGED session /\ SameQuestions
    <2>1. /\ UNCHANGED session
          /\ runs[r].pc \notin {"store", "done"}
          /\ \/ Goto(r, "query") \/ Goto(r, "ask") \/ Goto(r, "tool") \/ Goto(r, "failed")
             \/ FallBack(r)
      BY <1>6 DEF BeginQuery, EndQuery, AskTool, PoolTimeout, At
    <2> QED
      BY <2>1, <1>2, <1>5
  <1>7. ASSUME NEW r \in Runs, ToolAnswers(r)
        PROVE  UNCHANGED session /\ SameQuestions
    <2> DEFINE x == IF LastIteration(r) THEN [runs[r] EXCEPT !.pc = "decided", !.advice = "rule"]
                    ELSE [runs[r] EXCEPT !.n = runs[r].n + 1, !.pc = "ask"]
    <2>1. x.pc \in {"decided", "ask"}
      BY RunType DEF Run
    <2>2. Moved(r, x) /\ runs[r].pc = "tool" /\ UNCHANGED session
      BY <1>7 DEF ToolAnswers, ToolReturns, Moved, At
    <2> HIDE DEF x
    <2> QED
      BY <2>1, <2>2, QuietMove
  <1>8. ASSUME NEW r \in Runs, NEW reply \in Replies, AskFinal(r, reply)
        PROVE  UNCHANGED session /\ SameQuestions
    <2> DEFINE kept == IF r \in Analyses THEN reply ELSE NoReply
               x == [runs[r] EXCEPT !.pc = "decided", !.advice = "model", !.reply = kept]
    <2>1. x.pc = "decided"
      BY RunType DEF Run
    <2>2. /\ FallBack(r) \/ Moved(r, x)
          /\ runs[r].pc = "ask" /\ UNCHANGED session
      BY <1>8 DEF AskFinal, Moved, At
    <2> HIDE DEF x
    <2> QED
      BY <2>1, <2>2, <1>5, QuietMove
  <1>9. ASSUME NEW r \in Runs, Conclude(r)
        PROVE  UNCHANGED session /\ SameQuestions
    <2>1. UNCHANGED session /\ Goto(r, "done") /\ r \in Analyses
      BY <1>9 DEF Conclude
    <2> QED
      BY <2>1, GotoMoves, QuietMove
  <1>10. ASSUME NEW r \in Runs, StartQuestion(r)
         PROVE  r \in Questions /\ SameQuestions
    <2>1. r \in Questions /\ Goto(r, "ask") /\ runs[r].pc = "new"
      BY <1>10 DEF StartQuestion, At
    <2> QED
      BY <2>1, <1>2
  <1>11. ASSUME NEW r \in Runs, StoreQuestion(r) \/ StoreAnswer(r)
         PROVE  r \in Questions
    BY <1>11, AdvisorAssumption DEF StoreQuestion, StoreAnswer, At, AdviceInv, Runs
  <1>12. ~Expire
    BY <1>0 DEF Expire, Fault
  <1> QED
    BY <1>1, <1>3, <1>4, <1>6, <1>7, <1>8, <1>9, <1>10, <1>11, <1>12 DEF Next, Step

\* An answer with fewer entries behind it than are shown is shown.
LEMMA RecentShows ==
    ASSUME memory \in Seq(Entries), NEW i \in DOMAIN memory, Len(memory) - i < HistoryLimit
    PROVE  \E j \in DOMAIN Recent : Recent[j] = memory[i]
  <1>0. HistoryLimit \in Nat /\ Len(memory) \in Nat /\ i \in 1 .. Len(memory)
    BY AdvisorAssumption
  <1>1. CASE Len(memory) <= HistoryLimit
    BY <1>1 DEF Recent
  <1>2. CASE Len(memory) > HistoryLimit
    <2> DEFINE first == Len(memory) - HistoryLimit + 1
               j == i - first + 1
    <2>1. /\ Recent = SubSeq(memory, first, Len(memory))
          /\ first \in 1 .. Len(memory) + 1 /\ Len(memory) \in 0 .. Len(memory)
      BY <1>0, <1>2 DEF Recent, History
    <2>2. /\ Recent \in Seq(Entries)
          /\ Len(Recent) = IF first <= Len(memory) THEN Len(memory) - first + 1 ELSE 0
          /\ \A k \in 1 .. Len(memory) - first + 1 : Recent[k] = memory[first + k - 1]
      BY <2>1, SubSeqProperties
    <2>3. j \in 1 .. Len(memory) - first + 1 /\ first + j - 1 = i /\ first <= Len(memory)
      BY <1>0, <1>2
    <2>4. j \in DOMAIN Recent
      BY <1>0, <2>1, <2>2, <2>3
    <2> QED
      BY <2>2, <2>3, <2>4
  <1> QED
    BY <1>0, <1>1, <1>2

\* Those who store, those who are answered and one who asks are different questions.
LEMMA StoringBounded ==
    ASSUME NEW r \in Questions, At(r, "new"), Answered # {},
           Cardinality(Questions) <= HistoryLimit + 1
    PROVE  Cardinality(Storing) < HistoryLimit
  <1>0. /\ HistoryLimit \in Nat
        /\ IsFiniteSet(Questions) /\ Cardinality(Questions) \in Nat
    BY AdvisorAssumption, FS_CardinalityType
  <1>1. PICK a \in Questions : At(a, "done")
    BY DEF Answered
  <1> DEFINE rest == Questions \ {r}
             others == rest \ {a}
  <1>2. a \in rest /\ Storing \in SUBSET others
    BY <1>1 DEF At, Storing
  <1>3. IsFiniteSet(rest) /\ Cardinality(rest) = Cardinality(Questions) - 1
    BY <1>0, FS_RemoveElement
  <1> HIDE DEF rest
  <1>4. IsFiniteSet(others) /\ Cardinality(others) = Cardinality(Questions) - 2
    BY <1>0, <1>2, <1>3, FS_RemoveElement
  <1> HIDE DEF others
  <1>5. Cardinality(Storing) <= Cardinality(others) /\ Cardinality(Storing) \in Nat
    BY <1>2, <1>4, FS_Subset, FS_CardinalityType
  <1> QED
    BY <1>0, <1>4, <1>5

\* Entries behind the last answer are counted as they are appended.
LEMMA AppendedBehind ==
    ASSUME memory \in Seq(Entries), NEW e \in Entries, memory' = Append(memory, e),
           NEW n \in Int, AnswerBehind(n), Answered' = Answered
    PROVE  \E i \in DOMAIN memory' : /\ memory'[i].role = "assistant"
                                     /\ memory'[i].by \in Answered'
                                     /\ Len(memory') - i <= n + 1
  <1>1. PICK i \in DOMAIN memory : /\ memory[i].role = "assistant" /\ memory[i].by \in Answered
                                  /\ Len(memory) - i <= n
    BY DEF AnswerBehind
  <1>2. /\ Len(memory) \in Nat /\ i \in 1 .. Len(memory)
        /\ Len(memory') = Len(memory) + 1 /\ i \in DOMAIN memory' /\ memory'[i] = memory[i]
    BY <1>1
  <1>3. Len(memory') - i <= n + 1
    BY <1>1, <1>2
  <1> QED
    BY <1>1, <1>2, <1>3

LEMMA MemoryStep ==
    ASSUME IInv, Next, TypeOK'
    PROVE  MemoryInv' /\ LastAnswerShown'
  <1> USE DEF IInv
  <1>0. /\ faults \in Nat /\ memory \in Seq(Entries) /\ IsFiniteSet(Storing)
        /\ Cardinality(Storing) \in Nat
    <2>1. Storing \in SUBSET Questions
      BY DEF Storing
    <2> QED
      BY <2>1, AdvisorAssumption, FS_Subset, FS_CardinalityType DEF TypeOK
  <1>1. CASE faults' # 0
    BY <1>1 DEF MemoryInv, LastAnswerShown
  <1> SUFFICES ASSUME faults' = 0 PROVE MemoryInv' /\ LastAnswerShown'
    BY <1>1
  <1>2. faults = 0
    <2>1. faults' = faults \/ Fault
      BY DEF Next, Step, StartAnalysis, SelectIncident, BeginQuery, EndQuery, PoolTimeout, AskTool,
             ToolAnswers, AskFinal, Conclude, StoreQuestion, StoreAnswer, StartQuestion,
             StartQuestionBlind, QueryFails, ToolFails, AskFails, ConcludeFails, StoreFails, Expire
    <2> QED
      BY <1>0, <2>1 DEF Fault
  <1>3. CASE UNCHANGED session /\ SameQuestions
    BY <1>2, <1>3 DEF session, SameQuestions, MemoryInv, AnswerBehind, LastAnswerShown
  <1>4. ASSUME NEW r \in Questions, StartQuestion(r), SameQuestions
        PROVE  MemoryInv' /\ LastAnswerShown'
    <2>1. MemoryInv'
      BY <1>2, <1>4 DEF StartQuestion, SameQuestions, MemoryInv, AnswerBehind
    <2>2. ASSUME Cardinality(Questions) <= HistoryLimit + 1, Answered # {}
          PROVE  \E j \in DOMAIN Recent : Recent[j].role = "assistant" /\ Recent[j].by \in Answered
      <3>1. PICK i \in DOMAIN memory :
                   /\ memory[i].role = "assistant" /\ memory[i].by \in Answered
                   /\ Len(memory) - i <= Cardinality(Storing)
        BY <1>2, <2>2 DEF MemoryInv, AnswerBehind
      <3>2. Cardinality(Storing) < HistoryLimit
        BY <1>4, <2>2, StoringBounded DEF StartQuestion
      <3>3. Len(memory) - i < HistoryLimit
        <4>1. Len(memory) \in Nat /\ i \in 1 .. Len(memory) /\ HistoryLimit \in Nat
          BY <1>0, <3>1, AdvisorAssumption
        <4> QED
          BY <1>0, <3>1, <3>2, <4>1
      <3>4. PICK j \in DOMAIN Recent : Recent[j] = memory[i]
        BY <1>0, <3>1, <3>3, RecentShows
      <3> QED
        BY <3>1, <3>4
    <2>3. /\ shown'[r] = Recent /\ earlier'[r] = Answered
          /\ \A q \in Questions \ {r} : shown'[q] = shown[q] /\ earlier'[q] = earlier[q]
      BY <1>4 DEF StartQuestion, TypeOK, Answered
    <2>4. LastAnswerShown'
      <3> SUFFICES ASSUME Cardinality(Questions) <= HistoryLimit + 1,
                          NEW q \in Questions, earlier'[q] # {}
                   PROVE  \E i \in DOMAIN shown'[q] : /\ shown'[q][i].role = "assistant"
                                                     /\ shown'[q][i].by \in earlier'[q]
        BY DEF LastAnswerShown
      <3>1. CASE q = r
        BY <2>2, <2>3, <3>1
      <3>2. CASE q # r
        BY <1>2, <2>3, <3>2 DEF LastAnswerShown
      <3> QED
        BY <3>1, <3>2
    <2> QED
      BY <2>1, <2>4
  <1>5. ASSUME NEW r \in Questions, StoreQuestion(r) \/ StoreAnswer(r)
        PROVE  LastAnswerShown'
    <2>1. UNCHANGED <<shown, earlier>>
      BY <1>5 DEF StoreQuestion, StoreAnswer
    <2> QED
      BY <1>2, <2>1 DEF LastAnswerShown
  <1>6. ASSUME NEW r \in Questions, StoreQuestion(r)
        PROVE  MemoryInv'
    <2>1. /\ runs[r].pc = "decided" /\ runs'[r].pc = "store"
          /\ \A q \in Questions \ {r} : runs'[q] = runs[q]
      <3>1. r \in Runs /\ Goto(r, "store") /\ runs[r].pc = "decided"
        BY <1>6 DEF Runs, StoreQuestion, At
      <3>2. PICK x : Moved(r, x) /\ x.pc = "store"
        BY <3>1, GotoMoves
      <3> QED
        BY <3>1, <3>2, MoveIs DEF Runs
    <2>2. Answered' = Answered /\ Storing' = Storing \cup {r} /\ r \notin Storing
      BY <2>1 DEF Answered, Storing, At
    <2>3. Cardinality(Storing') = Cardinality(Storing) + 1
      BY <1>0, <2>2, FS_AddElement
    <2>4. Entry(r, "user") \in Entries /\ memory' = Append(memory, Entry(r, "user"))
      BY <1>6 DEF StoreQuestion, Entry, Entries
    <2>5. ASSUME Answered # {}
          PROVE  \E i \in DOMAIN memory' : /\ memory'[i].role = "assistant"
                                           /\ memory'[i].by \in Answered'
                                           /\ Len(memory') - i <= Cardinality(Storing) + 1
      <3>1. PICK n \in Int : n = Cardinality(Storing)
        BY <1>0
      <3>2. AnswerBehind(n)
        BY <1>2, <2>5, <3>1 DEF MemoryInv
      <3> QED
        BY <1>0, <2>2, <2>4, <3>1, <3>2, AppendedBehind
    <2> QED
      BY <2>2, <2>3, <2>5 DEF MemoryInv, AnswerBehind
  <1>7. ASSUME NEW r \in Questions, StoreAnswer(r)
        PROVE  MemoryInv'
    <2>1. runs'[r].pc = "done"
      <3>1. r \in Runs /\ Goto(r, "done")
        BY <1>7 DEF Runs, StoreAnswer
      <3>2. PICK x : Moved(r, x) /\ x.pc = "done"
        BY <3>1, GotoMoves
      <3> QED
        BY <3>1, <3>2, MoveIs
    <2>2. r \in Answered'
      BY <2>1 DEF Answered, At
    <2> DEFINE e == Entry(r, "assistant")
    <2>3. e \in Entries /\ e.role = "assistant" /\ e.by = r /\ memory' = Append(memory, e)
      BY <1>7 DEF StoreAnswer, Entry, Entries
    <2> HIDE DEF e
    <2>4. /\ Len(memory') = Len(memory) + 1 /\ Len(memory) \in Nat
          /\ Len(memory') \in DOMAIN memory' /\ memory'[Len(memory')] = e
      BY <1>0, <2>3
    <2>5. Storing' \in SUBSET Questions
      BY DEF Storing
    <2>6. Cardinality(Storing') \in Nat
      BY <2>5, AdvisorAssumption, FS_Subset, FS_CardinalityType
    <2>7. Len(memory') - Len(memory') <= Cardinality(Storing')
      BY <2>4, <2>6
    <2>8. AnswerBehind(Cardinality(Storing))'
      BY <2>2, <2>3, <2>4, <2>7 DEF AnswerBehind
    <2> QED
      BY <2>8 DEF MemoryInv
  <1> QED
    BY <1>3, <1>4, <1>5, <1>6, <1>7, SessionStep

LEMMA StepIInv == IInv /\ [Next]_vars => IInv'
  <1>1. ASSUME IInv, Next
        PROVE  IInv'
    BY <1>1, TypeStep, StepMoves, AdviceStep, StoredStep, MemoryStep DEF IInv
  <1>2. ASSUME IInv, UNCHANGED vars
        PROVE  IInv'
    <2>1. TypeOK'
      BY <1>2 DEF vars, session, IInv, TypeOK
    <2>2. MemoryInv' /\ LastAnswerShown'
      BY <1>2 DEF vars, session, IInv, MemoryInv, AnswerBehind, Answered, Storing, At,
                  LastAnswerShown
    <2> QED
      BY <1>2, <2>1, <2>2, AdviceStep, StoredStep DEF vars, IInv
  <1> QED
    BY <1>1, <1>2

\* What IInv says of a stored decision is that it was reviewed if doubtful.
LEMMA StoredReviewed == IInv => ReviewedIfDoubtful
  <1> SUFFICES ASSUME IInv, NEW r \in Analyses, At(r, "done")
               PROVE  /\ outcome[r].review = Doubtful(r)
                      /\ outcome[r].review => outcome[r].to = outcome[r].from
    BY DEF ReviewedIfDoubtful
  <1> DEFINE reply == runs[r].reply
             c == reply.confidence
             sure == Rule(runs[r].situation).confidence
  <1>1. /\ runs[r] \in Run /\ r \in Runs
        /\ outcome[r] = Decide(r)
        /\ runs[r].advice = "model" \/ (runs[r].advice = "rule" /\ reply = NoReply)
        /\ c # Text
    BY RunType DEF IInv, StoredInv, AdviceInv, At, Runs
  <1>2. reply \in Reply
    <2>1. NoReply \in Reply
      <3>1. Absent \in Confidence
        BY DEF Confidence
      <3> QED
        BY <3>1 DEF NoReply, Reply
    <2>2. reply \in Replies \cup {NoReply}
      BY <1>1 DEF Run, NoReply
    <2> QED
      BY <2>1, <2>2, AdvisorAssumption
  <1>3. Unsure(Advice(r)) = (reply.human \/ (c = Absent /\ sure < Threshold)
                             \/ (c # Absent /\ Clamp(c) < Threshold))
    BY <1>1, <1>2 DEF Unsure, Advice, NoReply, Reply
  <1>4. Unsure(Advice(r)) = Doubtful(r)
    <2>1. CASE runs[r].advice = "rule"
      BY <1>1, <1>3, <2>1 DEF Doubtful, NoReply
    <2>2. CASE runs[r].advice = "model" /\ c = Absent
      <3>1. c.is = "absent" /\ reply.human \in BOOLEAN
        BY <1>2, <2>2 DEF Absent, Reply
      <3> QED
        BY <1>3, <2>2, <3>1 DEF Doubtful
    <2>3. CASE runs[r].advice = "model" /\ c # Absent
      <3>1. c \in Confidence /\ (c.is # "absent")
        BY <1>2, <2>3 DEF Reply, Confidence, NaN, Text, Absent
      <3> QED
        BY <1>1, <1>3, <2>3, <3>1, ClampThreshold DEF Doubtful
    <2> QED
      BY <1>1, <2>1, <2>2, <2>3
  <1>5. /\ outcome[r].review = Unsure(Advice(r))
        /\ Unsure(Advice(r)) => outcome[r].to = outcome[r].from
    BY <1>1 DEF Decide
  <1> QED
    BY <1>4, <1>5

-----------------------------------------------------------------------------
(* Theorems.                                                               *)

\* The inductive invariant holds in every reachable state of Advisor.
THEOREM Invariance == Spec => []IInv
  BY InitIInv, StepIInv, PTL DEF Spec

\* Every variable of Advisor keeps its shape, and no run takes more iterations than
\* allowed.
THEOREM TypeCorrect == Spec => []TypeOK
  <1>1. IInv => TypeOK
    BY DEF IInv
  <1> QED
    BY <1>1, Invariance, PTL

\* The rule decides only when the model could not be asked or understood, or has
\* spent all its iterations on tools (build_decision, answer_question).
THEOREM RuleIsLastResort == Spec => []RuleOnlyWhenNeeded
  <1>1. IInv => RuleOnlyWhenNeeded
    BY DEF IInv
  <1> QED
    BY <1>1, Invariance, PTL

\* A decision is stored with a request for review exactly when it is in doubt, and
\* then keeps the status (analyze).
THEOREM DoubtIsReviewed == Spec => []ReviewedIfDoubtful
  BY StoredReviewed, Invariance, PTL

\* A question that comes after an answer is put to the model with that answer or a
\* later one, if no entry was lost and not too many questions are under way
\* (answer_question, WarRoomMemory).
THEOREM LastAnswerIsShown == Spec => []LastAnswerShown
  <1>1. IInv => LastAnswerShown
    BY DEF IInv
  <1> QED
    BY <1>1, Invariance, PTL
=============================================================================
