------------------------------ MODULE Interview ------------------------------
(***************************************************************************)
(* The twenty-questions interview: likelihood tables are seeded from the   *)
(* authored answers and validated (src/content/in_memory_graph.cpp), then  *)
(* the loop of src/cli/run_20q_demo.cpp asks a question, reads an answer   *)
(* from the standard input, updates the belief                             *)
(* (src/inference/belief_state.cpp), and stops when one archetype is       *)
(* likely enough, when the questions are used up or when the answers fit   *)
(* no archetype (src/inference/novelty_hooks.cpp).                         *)
(*                                                                         *)
(* Probabilities are integer shares of a common denominator: a belief is   *)
(* known up to a factor, which normalize() divides out. Which remaining    *)
(* question promises the largest gain of information, and the logarithms   *)
(* of the normalised entropy, are arithmetic in doubles: any remaining     *)
(* question may be the next one, and Diffuse is a parameter.               *)
(***************************************************************************)
EXTENDS Integers, Sequences, FiniteSets, FiniteSetsExt, Functions

CONSTANTS
    Target,        \* archetypes
    Question,      \* authored questions
    Answer,        \* answer options of a question
    Idk,           \* the option "Not sure / depends"
    Authored,      \* authored weights: [Question -> [Answer -> [Target -> Nat]]], any of a set
    MaxQuestions,  \* NoveltyConfig.max_questions
    MaxIdk,        \* NoveltyConfig.max_idk_answers
    MaxRecoveries, \* NoveltyConfig.max_degenerate_recoveries
    Diffuse(_),    \* normalised entropy of a belief >= max_normalized_entropy
    None

ASSUME InterviewAssumption ==
    /\ IsFiniteSet(Target) /\ Target # {}
    /\ IsFiniteSet(Question) /\ Question # {}
    /\ IsFiniteSet(Answer) /\ Idk \in Answer
    /\ Authored \subseteq [Question -> [Answer -> [Target -> Nat]]]
    \* Fifteen questions, of which at most ten are put.
    /\ MaxQuestions \in 1 .. Cardinality(Question)
    /\ MaxIdk \in Nat \ {0}
    /\ MaxRecoveries \in Nat \ {0}
    /\ None \notin Question \cup Target

VARIABLES
    authored,    \* the authored weights of this build
    table,       \* likelihoods_: the share of each answer for each target
    belief,      \* BeliefState.posteriors_, up to a common factor
    asked,       \* questions put to the player
    current,     \* the question on the screen
    stream,      \* state of std::cin: "good", or "failed" for ever
    idkAnswers, recoveries,
    trace,       \* InferenceTraceLog.asked_questions
    noted,       \* InferenceTraceLog.novelty_triggered
    primary,     \* InferenceTraceLog.final_primary_target
    pc

tables == <<authored, table>>
counters == <<idkAnswers, recoveries>>
vars == <<tables, belief, asked, current, stream, counters, trace, noted, primary, pc>>

Steps == {"seed", "validate", "refused", "ask", "answer", "conclude", "done"}

\* What std::cin >> input makes of what the player types: an option, a number
\* outside 1..7, or something that is not a number, the end of the input included.
Input == Answer \cup {"out of range", "unreadable"}

-----------------------------------------------------------------------------
(* Likelihood tables.                                                      *)

\* Mutant: the floor is not added.
WeightUnfloored(q, a, t) == authored[q][a][t]

\* The authored weight and the floor of one unit that keeps it positive.
Weight(q, a, t) == authored[q][a][t] + 1

ColumnSum(q, t) == SumFunction([a \in Answer |-> Weight(q, a, t)])

Product(fun) == FoldFunction(LAMBDA x, y : x * y, 1, fun)

\* Each target's column is divided by its sum: over the common denominator of a
\* question, that multiplies it by the sums of the other columns.
OtherSums(q, t) == Product([u \in Target \ {t} |-> ColumnSum(q, u)])

Seed ==
    /\ pc = "seed"
    /\ table' = [q \in Question |-> [a \in Answer |-> [t \in Target |->
                    Weight(q, a, t) * OtherSums(q, t)]]]
    /\ pc' = "validate"
    /\ UNCHANGED <<authored, belief, asked, current, stream, counters, trace, noted, primary>>

\* The rules finite_values and positive_values.
PositiveValues ==
    \A q \in Question, a \in Answer, t \in Target : table[q][a][t] \in Nat \ {0}

\* The columns of a question sum up to one probability.
Normalized ==
    \A q \in Question : \A t, u \in Target :
        SumFunction([a \in Answer |-> table[q][a][t]]) =
            SumFunction([a \in Answer |-> table[q][a][u]])

\* WarnOnly: hard violations end the program, warnings are printed. The priors are
\* uniform.
Validate ==
    /\ pc = "validate"
    /\ pc' = IF PositiveValues /\ Normalized THEN "ask" ELSE "refused"
    /\ belief' = [t \in Target |-> 1]
    /\ UNCHANGED <<tables, asked, current, stream, counters, trace, noted, primary>>

-----------------------------------------------------------------------------
(* The belief.                                                             *)

Likelihoods(q, a) == table[q][a]

\* All likelihoods are zero: nothing can be concluded from the answer. (The total
\* cannot vanish otherwise, as each likelihood is raised to a floor far above
\* the mass that counts as none.)
Degenerate(likelihoods) == \A t \in Target : likelihoods[t] <= 0

\* Mutant: the first answer is forgotten, the belief starts from the priors.
UpdatedFromPriors(b, likelihoods) == likelihoods

Updated(b, likelihoods) == [t \in Target |-> b[t] * likelihoods[t]]

Top(b) == Max({b[t] : t \in Target})
Total(b) == SumFunction(b)

Strong(b) == 4 * Top(b) >= 3 * Total(b)
Weak(b) == 20 * Top(b) < 11 * Total(b)

\* Mutant: the budget counts as used up only after one more question.
BudgetHitLate(n) == n > MaxQuestions

BudgetHit(n) == n >= MaxQuestions

\* Mutant: one more "not sure" than the limit is allowed.
TriggeredLate(b, n, idk, rec) ==
    \/ BudgetHit(n) /\ Diffuse(b)
    \/ BudgetHit(n) /\ Weak(b)
    \/ idk > MaxIdk
    \/ rec >= MaxRecoveries

\* NoveltySignal.triggered.
Triggered(b, n, idk, rec) ==
    \/ BudgetHit(n) /\ Diffuse(b)
    \/ BudgetHit(n) /\ Weak(b)
    \/ idk >= MaxIdk
    \/ rec >= MaxRecoveries

-----------------------------------------------------------------------------
(* The interview.                                                          *)

\* Mutant: the question just put may be put again.
RemainingAgain == Question \ {trace[i].question : i \in 1 .. Len(trace) - 1}

Remaining == Question \ asked

Ask ==
    /\ pc = "ask"
    /\ \E q \in Remaining :
          /\ current' = q
          /\ asked' = asked \cup {q}
    /\ pc' = "answer"
    /\ UNCHANGED <<tables, belief, stream, counters, trace, noted, primary>>

\* What an answer does to the belief, the counters, the trace and the loop.
Take(a) ==
    LET likelihoods == Likelihoods(current, a)
        b    == IF Degenerate(likelihoods) THEN [t \in Target |-> 1]
                ELSE Updated(belief, likelihoods)
        rec  == IF Degenerate(likelihoods) THEN recoveries + 1 ELSE recoveries
        idk  == IF a = Idk THEN idkAnswers + 1 ELSE idkAnswers
        n    == Cardinality(asked)
        stop == Strong(b) \/ n >= MaxQuestions \/ Triggered(b, n, idk, rec)
    IN  /\ belief' = b
        /\ recoveries' = rec
        /\ idkAnswers' = idk
        /\ trace' = Append(trace, [question |-> current, answer |-> a])
        /\ noted' = IF stop THEN Triggered(b, n, idk, rec) ELSE noted
        /\ pc' = IF stop THEN "conclude" ELSE "ask"
        /\ UNCHANGED <<tables, asked, current, primary>>

\* Mutant: what is not a number is asked for again, from a stream that stays failed.
UnreadableInputAgain ==
    /\ pc = "answer"
    /\ stream' = "failed"
    /\ UNCHANGED <<tables, belief, asked, current, counters, trace, noted, primary, pc>>

\* The stream is never cleared: it fails once, and every later answer is "not sure".
UnreadableInput ==
    /\ pc = "answer"
    /\ stream' = "failed"
    /\ Take(Idk)

ReadAnswer ==
    /\ pc = "answer"
    /\ stream = "good"
    /\ \E i \in Input \ {"unreadable"} : Take(IF i \in Answer THEN i ELSE Idk)
    /\ UNCHANGED stream

\* Two targets with the same share may come in any order.
Conclude ==
    /\ pc = "conclude"
    /\ \E t \in Target : belief[t] = Top(belief) /\ primary' = t
    /\ pc' = "done"
    /\ UNCHANGED <<tables, belief, asked, current, stream, counters, trace, noted>>

-----------------------------------------------------------------------------
Init ==
    /\ authored \in Authored
    /\ table = [q \in Question |-> [a \in Answer |-> [t \in Target |-> 0]]]
    /\ belief = [t \in Target |-> 1]
    /\ asked = {}
    /\ current = None
    /\ stream = "good"
    /\ idkAnswers = 0
    /\ recoveries = 0
    /\ trace = <<>>
    /\ noted = FALSE
    /\ primary = None
    /\ pc = "seed"

Next ==
    \/ Seed \/ Validate \/ Ask
    \/ ReadAnswer \/ UnreadableInput \/ Conclude

Spec == Init /\ [][Next]_vars

\* The program only waits for its input, which the player types or closes.
FairSpec == Spec /\ WF_vars(Next)

-----------------------------------------------------------------------------
(* Properties.                                                             *)

Traced == [question : Question, answer : Answer]

TypeOK ==
    /\ authored \in Authored
    /\ pc \notin {"seed", "validate", "refused"} =>
          table \in [Question -> [Answer -> [Target -> Nat \ {0}]]]
    /\ belief \in [Target -> Nat \ {0}]
    /\ asked \subseteq Question
    /\ current \in Question \cup {None}
    /\ stream \in {"good", "failed"}
    /\ idkAnswers \in 0 .. MaxIdk
    /\ recoveries \in 0 .. MaxRecoveries
    /\ trace \in Seq(Traced)
    /\ noted \in BOOLEAN
    /\ primary \in Target \cup {None}
    /\ pc \in Steps

\* The probability of the whole trace for a target.
Evidence(t) ==
    Product([i \in 1 .. Len(trace) |-> table[trace[i].question][trace[i].answer][t]])

\* The seeded tables always pass the validation, and from then on the belief is what
\* Bayes' rule makes of all the answers together, in whatever order the questions
\* came: no answer is forgotten or used twice, and no recovery throws evidence away.
EvidenceKept ==
    /\ pc # "refused"
    /\ recoveries = 0
    /\ \A t \in Target : belief[t] = Evidence(t)

\* The novelty that the trace notes is the one the final evaluation finds; a verdict
\* without novelty is a confident one; and no question was put twice or beyond the
\* budget.
NoveltyHonest ==
    pc \in {"conclude", "done"} =>
        /\ noted = Triggered(belief, Cardinality(asked), idkAnswers, recoveries)
        /\ noted \/ Strong(belief) \/ (~Weak(belief) /\ ~Diffuse(belief))
        /\ Len(trace) = Cardinality(asked)
        /\ Len(trace) <= MaxQuestions
        /\ \A i, j \in 1 .. Len(trace) : trace[i].question = trace[j].question => i = j

\* Every interview ends, also after the input has failed.
InterviewEnds == <>(pc \in {"done", "refused"})
=============================================================================
