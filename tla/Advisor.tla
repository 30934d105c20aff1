------------------------------ MODULE Advisor ------------------------------
(***************************************************************************)
(* The supervisor asks a model: AnalysisService.analyze with               *)
(* build_decision (a request to /analyze, or the queue worker), and        *)
(* answer_question (a question in the war room).  Both let the model       *)
(* choose tools a bounded number of times; both answer by rule when the    *)
(* model cannot be asked or understood.                                    *)
(*                                                                         *)
(* An analysis keeps the connection of its transaction while the model     *)
(* thinks, and takes a second one from the same pool for the knowledge     *)
(* base.  A caller that waits too long for a connection gets TimeoutError. *)
(* Every analysis has an incident of its own; IncidentStream has the       *)
(* conflicts on one incident.                                              *)
(***************************************************************************)
EXTENDS Integers, FiniteSets, Sequences

CONSTANTS
    Analyses,       \* requests for an analysis
    Questions,      \* questions of one war-room session
    Mixes,          \* sets of the above that may arrive together
    Situations,     \* what an analysis may find: status and alerts
    Replies,        \* final replies of the model
    PoolSize,       \* pool_size + max_overflow
    MaxIterations,  \* REACT_MAX_ITERATIONS
    HistoryLimit,   \* entries of the session that a question is shown
    MaxFaults       \* bound: failures of tools, of the model, of the store

Status == {"open", "investigating", "mitigating", "resolved", "closed"}
Alerts == {"burst",   \* critical, or four alerts and more
           "quiet",   \* low or medium, and one alert at most
           "other"}

\* What the model may say of its confidence, in hundredths.
Number(n) == [is |-> "number", n |-> n]
NaN       == [is |-> "nan", n |-> 0]
Text      == [is |-> "text", n |-> 0]    \* not a number
Absent    == [is |-> "absent", n |-> 0]
Confidence == [is : {"number"}, n : Int] \cup {NaN, Text, Absent}

\* next is a status, something that is none, or missing.
Reply == [confidence : Confidence, human : BOOLEAN, next : Status \cup {"escalated", "absent"}]

ASSUME AdvisorAssumption ==
    /\ Analyses \cap Questions = {} /\ IsFiniteSet(Questions)
    /\ Mixes \subseteq SUBSET (Analyses \cup Questions)
    /\ Situations \subseteq [saw : Status, alerts : Alerts]
    /\ Replies \subseteq Reply
    /\ PoolSize \in Nat \ {0}
    /\ MaxIterations \in Int
    /\ HistoryLimit \in Nat \ {0}
    /\ MaxFaults \in Nat

Runs == Analyses \cup Questions
Threshold == 60     \* SUPERVISOR_CONFIDENCE_THRESHOLD

VARIABLES
    mix,       \* the analyses and questions that arrive
    runs,      \* progress of each analysis and question
    outcome,   \* what an analysis has written: [from, to, review, sure, human]
    memory,    \* the war-room session, in Redis
    shown,     \* entries of the session that a question was given
    earlier,   \* history variable: questions answered when a question came
    faults     \* bounded occurrences so far

vars == <<mix, runs, outcome, memory, shown, earlier, faults>>
session == <<memory, shown, earlier>>

-----------------------------------------------------------------------------
Run == [pc        : {"new", "select", "retrieve", "query", "ask", "tool", "decided", "store",
                     "done", "failed"},
        situation : Situations \cup {[saw |-> "open", alerts |-> "other"]},
        now       : Status,          \* the incident's status, read in the transaction
        n         : Nat,             \* iteration
        advice    : {"none", "model", "rule"},
        reply     : Replies \cup {[confidence |-> Absent, human |-> FALSE, next |-> "absent"]},
        upset     : BOOLEAN]         \* the model failed, or was not understood, or starved
NoReply == [confidence |-> Absent, human |-> FALSE, next |-> "absent"]
NewRun == [pc |-> "new", situation |-> [saw |-> "open", alerts |-> "other"], now |-> "open",
           n |-> 1, advice |-> "none", reply |-> NoReply, upset |-> FALSE]
NoOutcome == [from |-> "open", to |-> "open", review |-> FALSE]

At(r, pc) == runs[r].pc = pc
Ended(r) == runs[r].pc \in {"done", "failed"}
Goto(r, pc) == runs' = [runs EXCEPT ![r] = [@ EXCEPT !.pc = pc]]

\* Connections: an analysis has one from its SELECT to its commit, and a second
\* one during the query of the knowledge base.
InTransaction == {r \in Analyses : runs[r].pc \in {"retrieve", "query", "ask", "tool", "decided"}}
InQuery == {r \in Analyses : At(r, "query")}
Free == Cardinality(InTransaction) + Cardinality(InQuery) < PoolSize

Fault == /\ faults < MaxFaults
         /\ faults' = faults + 1

Init ==
    /\ mix \in Mixes
    /\ runs = [r \in Runs |-> NewRun]
    /\ outcome = [r \in Analyses |-> NoOutcome]
    /\ memory = <<>>
    /\ shown = [r \in Questions |-> <<>>]
    /\ earlier = [r \in Questions |-> {}]
    /\ faults = 0

-----------------------------------------------------------------------------
(* Lifecycle and rules.                                                    *)

Rank(s) == CASE s = "open" -> 0 [] s = "investigating" -> 1 [] s = "mitigating" -> 2
             [] s = "resolved" -> 3 [] s = "closed" -> 4
CanTransition(current, target) == Rank(target) - Rank(current) \in {0, 1}

\* build_fallback_decision
Rule(s) ==
    CASE s.saw \in {"resolved", "closed"} -> [next |-> s.saw, confidence |-> 99]
      [] s.saw \notin {"resolved", "closed"} /\ s.alerts = "burst" ->
           [next |-> IF s.saw = "open" THEN "investigating" ELSE "mitigating",
            confidence |-> 88]
      [] s.saw = "mitigating" /\ s.alerts = "quiet" -> [next |-> "resolved", confidence |-> 74]
      [] s.saw = "open" /\ s.alerts # "burst" -> [next |-> "investigating", confidence |-> 63]
      [] OTHER -> [next |-> s.saw, confidence |-> 45]

\* max(0.0, min(1.0, c)): a comparison with NaN is false, so that NaN is 1.0.
Clamp(c) == IF c.is = "nan" \/ c.n > 100 THEN 100 ELSE IF c.n < 0 THEN 0 ELSE c.n

\* _coerce_final_decision: what the model left out comes from the rule.
Advice(r) ==
    LET rule == Rule(runs[r].situation)
        reply == IF runs[r].advice = "model" THEN runs[r].reply ELSE NoReply
    IN [confidence |-> IF reply.confidence = Absent THEN rule.confidence ELSE Clamp(reply.confidence),
        next |-> IF reply.next = "absent" THEN rule.next ELSE reply.next,
        human |-> reply.human]

\* analyze: an unsure decision asks for a human and keeps the status; a status
\* that does not exist or may not follow is dropped.
Unsure_AtThreshold(d) == d.human \/ d.confidence <= Threshold
Unsure(d) == d.human \/ d.confidence < Threshold
Decide(r) ==
    LET d == Advice(r)
        now == runs[r].now
    IN [from |-> now,
        to |-> IF ~Unsure(d) /\ d.next \in Status /\ CanTransition(now, d.next)
               THEN d.next ELSE now,
        review |-> Unsure(d)]

-----------------------------------------------------------------------------
(* An analysis.                                                            *)

\* GET /incidents/{id} has answered.
StartAnalysis(r, situation) ==
    /\ At(r, "new") /\ r \in mix \cap Analyses
    /\ runs' = [runs EXCEPT ![r] = [@ EXCEPT !.pc = "select", !.situation = situation]]
    /\ UNCHANGED <<mix, outcome, session, faults>>

\* The transaction reads the incident, which may have gone on since then (by one
\* step: a bound).
SelectIncident(r, now) ==
    /\ At(r, "select")
    /\ Free
    /\ CanTransition(runs[r].situation.saw, now)
    /\ runs' = [runs EXCEPT ![r] = [@ EXCEPT !.pc = "retrieve", !.now = now]]
    /\ UNCHANGED <<mix, outcome, session, faults>>

\* retrieve_similar_incidents takes a connection, and gives it back.
BeginQuery(r) ==
    /\ At(r, "retrieve")
    /\ Free
    /\ Goto(r, "query")
    /\ UNCHANGED <<mix, outcome, session, faults>>
EndQuery(r) ==
    /\ At(r, "query")
    /\ Goto(r, "ask")
    /\ UNCHANGED <<mix, outcome, session, faults>>

\* Anything that raises in build_decision or answer_question.
FallBack(r) ==
    runs' = [runs EXCEPT ![r] = [@ EXCEPT !.pc = "decided", !.advice = "rule", !.upset = TRUE]]
QueryFails(r) ==
    /\ At(r, "query")
    /\ Fault
    /\ FallBack(r)
    /\ UNCHANGED <<mix, outcome, session>>

\* QueuePool limit reached, connection timed out: the request fails, or the
\* analysis goes on by rule.
PoolTimeout_Never(r) == FALSE /\ UNCHANGED vars
PoolTimeout(r) ==
    /\ ~Free
    /\ \/ At(r, "select") /\ Goto(r, "failed")
       \/ At(r, "retrieve") /\ FallBack(r)
    /\ UNCHANGED <<mix, outcome, session, faults>>

-----------------------------------------------------------------------------
(* The loop.                                                               *)

Iterations == IF MaxIterations > 1 THEN MaxIterations ELSE 1
LastIteration_OneMore(r) == runs[r].n > Iterations
LastIteration_Short(r) == runs[r].n + 1 >= Iterations
LastIteration(r) == runs[r].n >= Iterations

\* The model wants a tool, also when it has a final answer beside it.
AskTool(r) ==
    /\ At(r, "ask")
    /\ Goto(r, "tool")
    /\ UNCHANGED <<mix, outcome, session, faults>>

\* A tool never raises: its failure is an observation like another.  The step is
\* kept in the memory of the incident, whose failures are swallowed.
ToolReturns(r) ==
    /\ At(r, "tool")
    /\ runs' = [runs EXCEPT ![r] =
                  IF LastIteration(r) THEN [@ EXCEPT !.pc = "decided", !.advice = "rule"]
                  ELSE [@ EXCEPT !.n = runs[r].n + 1, !.pc = "ask"]]
    /\ UNCHANGED <<mix, outcome, session>>
ToolAnswers(r) == ToolReturns(r) /\ UNCHANGED faults
ToolFails(r) == Fault /\ ToolReturns(r)

\* The final reply; a confidence that is no number raises in float().
AskFinal(r, reply) ==
    /\ At(r, "ask")
    /\ IF reply.confidence = Text /\ r \in Analyses THEN FallBack(r)
       ELSE runs' = [runs EXCEPT ![r] =
                       [@ EXCEPT !.pc = "decided", !.advice = "model",
                                 !.reply = IF r \in Analyses THEN reply ELSE NoReply]]
    /\ UNCHANGED <<mix, outcome, session, faults>>

\* run_llm gives up, or the reply is not JSON.
AskFails(r) ==
    /\ At(r, "ask")
    /\ Fault
    /\ FallBack(r)
    /\ UNCHANGED <<mix, outcome, session>>

\* The events are appended, the status is changed, the transaction commits.
Conclude(r) ==
    /\ At(r, "decided") /\ r \in Analyses
    /\ outcome' = [outcome EXCEPT ![r] = Decide(r)]
    /\ Goto(r, "done")
    /\ UNCHANGED <<mix, session, faults>>
ConcludeFails(r) ==
    /\ At(r, "decided") /\ r \in Analyses
    /\ Fault
    /\ Goto(r, "failed")
    /\ UNCHANGED <<mix, outcome, session>>

-----------------------------------------------------------------------------
(* A question in the war room.                                             *)

Entries == [by : Questions, role : {"user", "assistant"}]
Entry(r, role) == [by |-> r, role |-> role]

\* lrange(-limit, -1)
History_First == SubSeq(memory, 1, HistoryLimit)
History == SubSeq(memory, Len(memory) - HistoryLimit + 1, Len(memory))
Recent == IF Len(memory) <= HistoryLimit THEN memory ELSE History

StartQuestion(r) ==
    /\ At(r, "new") /\ r \in mix \cap Questions
    /\ shown' = [shown EXCEPT ![r] = Recent]
    /\ earlier' = [earlier EXCEPT ![r] = {q \in Questions : At(q, "done")}]
    /\ Goto(r, "ask")
    /\ UNCHANGED <<mix, outcome, memory, faults>>

\* Redis is down when the history is read: get_history answers [].
StartQuestionBlind(r) ==
    /\ At(r, "new") /\ r \in mix \cap Questions
    /\ Fault
    /\ Goto(r, "ask")
    /\ UNCHANGED <<mix, outcome, session>>

\* Two calls of append: the question, then the answer.
StoreQuestion(r) ==
    /\ At(r, "decided") /\ r \in Questions
    /\ memory' = Append(memory, Entry(r, "user"))
    /\ Goto(r, "store")
    /\ UNCHANGED <<mix, outcome, shown, earlier, faults>>
StoreAnswer(r) ==
    /\ At(r, "store")
    /\ memory' = Append(memory, Entry(r, "assistant"))
    /\ Goto(r, "done")
    /\ UNCHANGED <<mix, outcome, shown, earlier, faults>>

\* WarRoomMemory swallows the failure.
StoreFails(r) ==
    /\ Fault
    /\ \/ At(r, "decided") /\ r \in Questions /\ Goto(r, "store")
       \/ At(r, "store") /\ Goto(r, "done")
    /\ UNCHANGED <<mix, outcome, session>>

\* WAR_ROOM_SESSION_TTL_SECONDS after the last entry.
Expire ==
    /\ memory # <<>>
    /\ Fault
    /\ memory' = <<>>
    /\ UNCHANGED <<mix, runs, outcome, shown, earlier>>

-----------------------------------------------------------------------------
Step(r) ==
    \/ \E now \in Status : SelectIncident(r, now)
    \/ BeginQuery(r) \/ EndQuery(r) \/ PoolTimeout(r)
    \/ AskTool(r) \/ ToolAnswers(r)
    \/ \E reply \in Replies : AskFinal(r, reply)
    \/ Conclude(r)
    \/ StoreQuestion(r) \/ StoreAnswer(r)

Next ==
    \/ \E r \in Runs :
         \/ \E situation \in Situations : StartAnalysis(r, situation)
         \/ StartQuestion(r) \/ StartQuestionBlind(r)
         \/ Step(r)
         \/ QueryFails(r) \/ ToolFails(r) \/ AskFails(r) \/ ConcludeFails(r) \/ StoreFails(r)
    \/ Expire

Spec == Init /\ [][Next]_vars

\* Calls return (they have timeouts), the pool gives up, the code goes on.
FairSpec == Spec /\ \A r \in Runs : WF_vars(Step(r))
-----------------------------------------------------------------------------
(* Properties.                                                             *)

\* Every variable has its shape, and no run takes more iterations than allowed.
TypeOK ==
    /\ mix \in Mixes
    /\ runs \in [Runs -> Run]
    /\ \A r \in Runs : runs[r].n \in 1 .. Iterations
    /\ outcome \in [Analyses -> [from : Status, to : Status, review : BOOLEAN]]
    /\ memory \in Seq(Entries)
    /\ shown \in [Questions -> Seq(Entries)]
    /\ \A q \in Questions : Len(shown[q]) <= HistoryLimit
    /\ earlier \in [Questions -> SUBSET Questions]
    /\ faults \in 0 .. MaxFaults

\* The rule decides only when the model could not be asked or understood, when the
\* knowledge base could not be read, or when the model has spent all its
\* iterations on tools; that a tool fails is never a reason.
RuleOnlyWhenNeeded ==
    \A r \in Runs : runs[r].advice = "rule" /\ ~runs[r].upset => runs[r].n = Iterations

\* A decision below the threshold, or one for which the model wants a human, be it
\* the model's or the rule's, keeps the status and asks for a review; any other does
\* not ask.  (A confidence that is not a number at all counts as 1.0, see Clamp.)
Doubtful(r) ==
    IF runs[r].advice = "rule" THEN Rule(runs[r].situation).confidence < Threshold
    ELSE LET c == runs[r].reply.confidence IN
         \/ runs[r].reply.human
         \/ c.is = "number" /\ c.n < Threshold
         \/ c.is = "absent" /\ Rule(runs[r].situation).confidence < Threshold
ReviewedIfDoubtful ==
    \A r \in Analyses : At(r, "done") =>
        /\ outcome[r].review = Doubtful(r)
        /\ outcome[r].review => outcome[r].to = outcome[r].from

\* A question that comes after an answer is put to the model with that answer or a
\* later one, unless an entry was lost or more questions than entries shown are
\* under way: two questions of one session interleave their entries.
LastAnswerShown ==
    faults = 0 /\ Cardinality(Questions) <= HistoryLimit + 1 =>
        \A q \in Questions : earlier[q] # {} =>
            \E i \in DOMAIN shown[q] : /\ shown[q][i].role = "assistant"
                                       /\ shown[q][i].by \in earlier[q]

\* Every analysis and every question ends, though analyses hold one connection
\* while they wait for another.
EveryRunEnds == \A r \in Runs : ~At(r, "new") ~> Ended(r)
=============================================================================
