---------------------------- MODULE InterviewProofs ----------------------------
(* Theorems about Interview, for any archetypes, questions, answers, authored  *)
(* weights and limits.                                                         *)
EXTENDS Interview, FiniteSetTheorems, WellFoundedInduction, TLAPS

-----------------------------------------------------------------------------
(* The inductive invariant.                                                *)

\* Every question of the trace was put, and none of them twice.
TraceOfAsked ==
    /\ \A i \in 1 .. Len(trace) : trace[i].question \in asked
    /\ \A i, j \in 1 .. Len(trace) : trace[i].question = trace[j].question => i = j

\* Before the interview nothing was put or answered.
NotBegun ==
    pc \in {"seed", "validate", "refused"} =>
        asked = {} /\ trace = <<>> /\ idkAnswers = 0 /\ recoveries = 0 /\ ~noted

\* Between an answer and the next question every limit is still ahead, and so it is
\* while the answer to the question is awaited.
GoesOn ==
    /\ pc \in {"ask", "answer"} => idkAnswers < MaxIdk /\ recoveries < MaxRecoveries
    /\ pc = "ask" => Cardinality(asked) < MaxQuestions
    /\ pc = "answer" => Cardinality(asked) <= MaxQuestions

\* The trace lags behind the questions only while an answer is awaited.
InStep ==
    /\ pc \in {"ask", "conclude", "done"} => Len(trace) = Cardinality(asked)
    /\ pc = "answer" =>
          /\ Len(trace) + 1 = Cardinality(asked)
          /\ current \in asked
          /\ \A i \in 1 .. Len(trace) : trace[i].question # current

\* What made the interview stop still holds at its end.
Stopped ==
    pc \in {"conclude", "done"} =>
        /\ Len(trace) <= MaxQuestions
        /\ noted = Triggered(belief, Cardinality(asked), idkAnswers, recoveries)
        /\ Strong(belief) \/ BudgetHit(Cardinality(asked)) \/ noted

\* A likelihood for every question, answer and target, whatever its value.
Shaped ==
    table = [q \in Question |-> [a \in Answer |-> [t \in Target |-> table[q][a][t]]]]

IInv == Shaped /\ TypeOK /\ TraceOfAsked /\ NotBegun /\ GoesOn /\ InStep /\ Stopped

-----------------------------------------------------------------------------
(* Lemmas.                                                                 *)

\* A set of questions is finite, so its cardinality is a number.
LEMMA AskedFinite ==
    ASSUME NEW S, S \subseteq Question
    PROVE  IsFiniteSet(S) /\ Cardinality(S) \in Nat
BY FS_Subset, FS_CardinalityType, InterviewAssumption

\* The product of two positive numbers is one.
LEMMA ProductPositive ==
    ASSUME NEW m \in Nat \ {0}, NEW n \in Nat \ {0}
    PROVE  m * n \in Nat \ {0}
BY SMT

\* An update by positive likelihoods rules no target out.
LEMMA UpdatedPositive ==
    ASSUME NEW b \in [Target -> Nat \ {0}], NEW l \in [Target -> Nat \ {0}]
    PROVE  Updated(b, l) \in [Target -> Nat \ {0}]
<1>1. ASSUME NEW t \in Target PROVE b[t] * l[t] \in Nat \ {0}
  BY ProductPositive
<1> QED
  BY <1>1 DEF Updated

\* Positive likelihoods are never degenerate, as there is a target.
LEMMA PositiveNotDegenerate ==
    ASSUME NEW l \in [Target -> Nat \ {0}]
    PROVE  ~Degenerate(l)
<1>1. PICK t \in Target : TRUE
  BY InterviewAssumption
<1>2. l[t] \in Nat \ {0}
  OBVIOUS
<1> QED
  BY <1>2 DEF Degenerate

\* With likelihoods that are positive an answer is a Bayes update and nothing else.
LEMMA TakeUpdates ==
    ASSUME IInv, pc = "answer", NEW a \in Answer, Take(a)
    PROVE  /\ belief' = Updated(belief, table[current][a])
           /\ belief' \in [Target -> Nat \ {0}]
           /\ recoveries' = recoveries
<1>1. current \in Question
  BY DEF IInv, InStep, TypeOK
<1>2. table[current][a] \in [Target -> Nat \ {0}]
  BY <1>1 DEF IInv, TypeOK
<1>3. ~Degenerate(table[current][a])
  BY <1>2, PositiveNotDegenerate
<1>4. belief' = Updated(belief, table[current][a]) /\ recoveries' = recoveries
  BY <1>3 DEF Take, Likelihoods
<1>5. belief \in [Target -> Nat \ {0}]
  BY DEF IInv, TypeOK
<1> QED
  BY <1>2, <1>4, <1>5, UpdatedPositive

\* An answer keeps the invariant.
LEMMA TakeInvariant ==
    ASSUME IInv, pc = "answer", NEW a \in Answer, Take(a), stream' \in {"good", "failed"}
    PROVE  IInv'
<1> DEFINE idk == IF a = Idk THEN idkAnswers + 1 ELSE idkAnswers
           n == Cardinality(asked)
           novel == Triggered(belief', n, idk, recoveries)
           stop == Strong(belief') \/ n >= MaxQuestions \/ novel
           entry == [question |-> current, answer |-> a]
<1>1. /\ belief' \in [Target -> Nat \ {0}]
      /\ recoveries' = recoveries
  BY TakeUpdates
<1>2. /\ idkAnswers' = idk
      /\ trace' = Append(trace, entry)
      /\ noted' = IF stop THEN novel ELSE noted
      /\ pc' = IF stop THEN "conclude" ELSE "ask"
      /\ UNCHANGED <<tables, asked, current, primary>>
  <2>1. recoveries' = recoveries /\ belief' = belief'
    BY <1>1
  <2> QED
    BY <1>1 DEF Take
<1>3. n \in Nat /\ n <= MaxQuestions /\ MaxQuestions \in Nat /\ MaxIdk \in Nat /\ MaxRecoveries \in Nat
  <2>1. asked \subseteq Question /\ n <= MaxQuestions
    BY DEF IInv, TypeOK, GoesOn
  <2>2. n \in Nat
    BY <2>1, AskedFinite
  <2>3. Cardinality(Question) \in Nat
    BY AskedFinite
  <2> QED
    BY <2>1, <2>2, <2>3, InterviewAssumption
<1>4. idkAnswers \in Nat /\ idkAnswers < MaxIdk /\ recoveries \in Nat /\ recoveries < MaxRecoveries
  BY <1>3 DEF IInv, TypeOK, GoesOn
<1>5. idk \in 0 .. MaxIdk
  BY <1>3, <1>4
<1>6. noted \in BOOLEAN /\ novel \in BOOLEAN
  BY DEF IInv, TypeOK, Triggered
<1>7. ~novel => idk < MaxIdk
  BY <1>3, <1>5 DEF Triggered
<1>8. current \in Question /\ current \in asked /\ trace \in Seq(Traced) /\ Len(trace) + 1 = n
  BY DEF IInv, TypeOK, InStep
<1>9. entry \in Traced /\ entry.question = current
  BY <1>8 DEF Traced
<1>10. /\ Len(trace') = Len(trace) + 1
       /\ trace' \in Seq(Traced)
       /\ \A i \in 1 .. Len(trace) : trace'[i] = trace[i]
       /\ trace'[Len(trace) + 1] = entry
  BY <1>2, <1>8, <1>9
<1>11. TypeOK'
  <2>1. pc' \in Steps /\ noted' \in BOOLEAN
    BY <1>2, <1>6 DEF Steps
  <2>2. recoveries' \in 0 .. MaxRecoveries /\ idkAnswers' \in 0 .. MaxIdk
    BY <1>1, <1>2, <1>5 DEF IInv, TypeOK
  <2>3. table' \in [Question -> [Answer -> [Target -> Nat \ {0}]]]
    BY <1>2 DEF IInv, TypeOK, tables
  <2>4. /\ authored' \in Authored /\ asked' \subseteq Question
        /\ current' \in Question \cup {None} /\ primary' \in Target \cup {None}
    BY <1>2 DEF IInv, TypeOK, tables
  <2> QED
    BY <1>1, <1>10, <2>1, <2>2, <2>3, <2>4 DEF TypeOK
<1>12. TraceOfAsked'
  <2>1. asked' = asked /\ \A i \in 1 .. Len(trace) : trace[i].question \in asked
    BY <1>2 DEF IInv, TraceOfAsked
  <2>2. \A i, j \in 1 .. Len(trace) : trace[i].question = trace[j].question => i = j
    BY DEF IInv, TraceOfAsked
  <2>3. \A i \in 1 .. Len(trace) : trace[i].question # current
    BY DEF IInv, InStep
  <2>4. Len(trace) \in Nat
    BY <1>8
  <2>5. \A i \in 1 .. Len(trace') : i \in 1 .. Len(trace) \/ i = Len(trace) + 1
    BY <2>4, <1>10
  <2> QED
    BY <1>8, <1>9, <1>10, <2>1, <2>2, <2>3, <2>5 DEF TraceOfAsked
<1>13. NotBegun'
  BY <1>2 DEF NotBegun
<1>14. GoesOn'
  <2>1. pc' = "ask" => n < MaxQuestions /\ idk < MaxIdk
    BY <1>2, <1>3, <1>7
  <2> QED
    BY <1>1, <1>2, <1>4, <2>1 DEF GoesOn
<1>15. InStep'
  BY <1>2, <1>8, <1>10 DEF InStep
<1>16. Stopped'
  <2>1. SUFFICES ASSUME stop PROVE Stopped'
    BY <1>2 DEF Stopped
  <2>2. noted' = novel
    BY <1>2, <2>1
  <2>3. novel = Triggered(belief, Cardinality(asked), idkAnswers, recoveries)'
    BY <1>1, <1>2
  <2>4. Strong(belief') \/ BudgetHit(Cardinality(asked')) \/ noted'
    BY <1>2, <2>1, <2>2 DEF BudgetHit
  <2>5. Len(trace') <= MaxQuestions
    BY <1>3, <1>8, <1>10
  <2> QED
    BY <2>2, <2>3, <2>4, <2>5 DEF Stopped
<1>17. Shaped'
  BY <1>2 DEF IInv, Shaped, tables
<1> QED
  BY <1>11, <1>12, <1>13, <1>14, <1>15, <1>16, <1>17 DEF IInv

-----------------------------------------------------------------------------
(* The steps.                                                              *)

LEMMA InitInvariant == Init => IInv
<1> SUFFICES ASSUME Init PROVE IInv
  OBVIOUS
<1>1. MaxIdk \in Nat /\ MaxRecoveries \in Nat
  BY InterviewAssumption
<1>2. TypeOK
  <2>1. belief \in [Target -> Nat \ {0}]
    BY DEF Init
  <2>2. trace \in Seq(Traced)
    BY DEF Init
  <2>3. idkAnswers \in 0 .. MaxIdk /\ recoveries \in 0 .. MaxRecoveries
    BY <1>1 DEF Init
  <2>4. noted \in BOOLEAN /\ pc \in Steps /\ stream \in {"good", "failed"}
    BY DEF Init, Steps
  <2> QED
    BY <2>1, <2>2, <2>3, <2>4 DEF Init, TypeOK
<1>3. Shaped
  BY DEF Init, Shaped
<1> QED
  BY <1>2, <1>3 DEF Init, IInv, TraceOfAsked, NotBegun, GoesOn, InStep, Stopped

LEMMA SeedInvariant == IInv /\ Seed => IInv'
<1> SUFFICES ASSUME IInv, Seed PROVE IInv'
  OBVIOUS
<1>1. TypeOK'
  BY DEF Seed, IInv, TypeOK, Steps, counters
<1>2. Shaped'
  <2>1. table' = [q \in Question |-> [a \in Answer |-> [t \in Target |->
                    Weight(q, a, t) * OtherSums(q, t)]]]
    BY DEF Seed
  <2> QED
    BY <2>1 DEF Shaped
<1> QED
  BY <1>1, <1>2 DEF Seed, IInv, TraceOfAsked, NotBegun, GoesOn, InStep, Stopped, counters

LEMMA ValidateInvariant == IInv /\ Validate => IInv'
<1> SUFFICES ASSUME IInv, Validate PROVE IInv'
  OBVIOUS
<1>1. pc' \in {"ask", "refused"} /\ UNCHANGED <<tables, asked, current, stream, counters, trace, noted, primary>>
  BY DEF Validate
<1>2. asked = {} /\ trace = <<>> /\ idkAnswers = 0 /\ recoveries = 0 /\ ~noted
  BY DEF Validate, IInv, NotBegun
<1>3. MaxIdk \in Nat \ {0} /\ MaxRecoveries \in Nat \ {0}
  BY InterviewAssumption
<1>4. MaxQuestions >= 1 /\ MaxQuestions \in Nat /\ Cardinality({}) = 0
  <2>1. Cardinality(Question) \in Nat
    BY AskedFinite
  <2> QED
    BY <2>1, InterviewAssumption, FS_EmptySet
<1>5. TypeOK'
  <2>1. pc' = "ask" => table' \in [Question -> [Answer -> [Target -> Nat \ {0}]]]
    <3>1. SUFFICES ASSUME pc' = "ask" PROVE table' \in [Question -> [Answer -> [Target -> Nat \ {0}]]]
      OBVIOUS
    <3>2. PositiveValues
      BY <3>1 DEF Validate
    <3>3. table = [q \in Question |-> [a \in Answer |-> [t \in Target |-> table[q][a][t]]]]
      BY DEF IInv, Shaped
    <3> QED
      BY <1>1, <3>2, <3>3 DEF PositiveValues, tables
  <2>2. belief' \in [Target -> Nat \ {0}]
    BY DEF Validate
  <2> QED
    BY <1>1, <2>1, <2>2 DEF IInv, TypeOK, Steps, tables, counters
<1>6. Shaped'
  BY <1>1 DEF IInv, Shaped, tables
<1> QED
  BY <1>1, <1>2, <1>3, <1>4, <1>5, <1>6 DEF IInv, TraceOfAsked, NotBegun, GoesOn, InStep, Stopped, counters

LEMMA AskInvariant == IInv /\ Ask => IInv'
<1> SUFFICES ASSUME IInv, Ask PROVE IInv'
  OBVIOUS
<1>1. PICK q \in Question \ asked : current' = q /\ asked' = asked \cup {q}
  BY DEF Ask, Remaining
<1>2. /\ pc = "ask" /\ pc' = "answer"
      /\ UNCHANGED <<tables, belief, stream, counters, trace, noted, primary>>
  BY DEF Ask
<1>3. /\ asked \subseteq Question /\ trace \in Seq(Traced) /\ Len(trace) = Cardinality(asked)
      /\ Cardinality(asked) < MaxQuestions
  BY <1>2 DEF IInv, TypeOK, InStep, GoesOn
<1>4. Cardinality(asked) \in Nat /\ Cardinality(asked') = Cardinality(asked) + 1
  BY <1>1, <1>3, AskedFinite, FS_AddElement
<1>5. MaxQuestions \in Nat
  BY AskedFinite, InterviewAssumption
<1>6. TypeOK' /\ Shaped'
  BY <1>1, <1>2 DEF IInv, TypeOK, Shaped, Steps, tables, counters
<1>7. \A i \in 1 .. Len(trace) : trace[i].question \in asked
  BY DEF IInv, TraceOfAsked
<1>8. TraceOfAsked' /\ NotBegun' /\ Stopped'
  BY <1>1, <1>2, <1>7 DEF IInv, TraceOfAsked, NotBegun, Stopped
<1>9. GoesOn'
  BY <1>2, <1>3, <1>4, <1>5 DEF IInv, GoesOn, counters
<1>10. InStep'
  BY <1>1, <1>2, <1>3, <1>4, <1>7 DEF InStep
<1> QED
  BY <1>6, <1>8, <1>9, <1>10 DEF IInv

LEMMA ConcludeInvariant == IInv /\ Conclude => IInv'
<1> SUFFICES ASSUME IInv, Conclude PROVE IInv'
  OBVIOUS
<1>1. /\ pc = "conclude" /\ pc' = "done" /\ primary' \in Target
      /\ UNCHANGED <<tables, belief, asked, current, stream, counters, trace, noted>>
  BY DEF Conclude
<1>2. TypeOK' /\ Shaped'
  BY <1>1 DEF IInv, TypeOK, Shaped, Steps, tables, counters
<1> QED
  BY <1>1, <1>2 DEF IInv, TraceOfAsked, NotBegun, GoesOn, InStep, Stopped, counters

LEMMA NextInvariant == IInv /\ [Next]_vars => IInv'
<1> SUFFICES ASSUME IInv, [Next]_vars PROVE IInv'
  OBVIOUS
<1>1. CASE Seed
  BY <1>1, SeedInvariant
<1>2. CASE Validate
  BY <1>2, ValidateInvariant
<1>3. CASE Ask
  BY <1>3, AskInvariant
<1>4. CASE ReadAnswer
  <2>1. pc = "answer" /\ stream' = "good"
    BY <1>4 DEF ReadAnswer
  <2>2. PICK i \in Input : Take(IF i \in Answer THEN i ELSE Idk)
    BY <1>4 DEF ReadAnswer
  <2>3. (IF i \in Answer THEN i ELSE Idk) \in Answer
    BY InterviewAssumption
  <2> QED
    BY <2>1, <2>2, <2>3, TakeInvariant
<1>5. CASE UnreadableInput
  <2>1. pc = "answer" /\ stream' = "failed" /\ Take(Idk)
    BY <1>5 DEF UnreadableInput
  <2> QED
    BY <2>1, InterviewAssumption, TakeInvariant
<1>6. CASE Conclude
  BY <1>6, ConcludeInvariant
<1>7. CASE UNCHANGED vars
  <2>1. TypeOK' /\ Shaped'
    BY <1>7 DEF IInv, TypeOK, Shaped, vars, tables, counters
  <2> QED
    BY <1>7, <2>1 DEF IInv, TraceOfAsked, NotBegun, GoesOn, InStep, Stopped, vars, counters
<1> QED
  BY <1>1, <1>2, <1>3, <1>4, <1>5, <1>6, <1>7 DEF Next

LEMMA InvariantHolds == Spec => []IInv
<1>1. Init => IInv
  BY InitInvariant
<1>2. IInv /\ [Next]_vars => IInv'
  BY NextInvariant
<1> QED
  BY <1>1, <1>2, PTL DEF Spec

-----------------------------------------------------------------------------
(* Sums and products of finite families of numbers, for which the library  *)
(* has no theorems. The induction is the least-number principle for sets.  *)

\* The product of the values of w over S.
ProductOnSet(w, S) == FoldFunctionOnSet(LAMBDA i, j : i * j, 1, w, S)

\* The element a fold takes next.
Pick(T) == CHOOSE x \in T : TRUE

\* A set of numbers has a least one.
LEMMA LeastNumber ==
    ASSUME NEW N, N \subseteq Nat, N # {}
    PROVE  \E x \in N : \A y \in N : ~ (y < x)
<1> DEFINE R == {ss \in Nat \X Nat : ss[1] < ss[2]}
<1>1. IsWellFoundedOn(R, Nat)
  BY NatLessThanWellFounded DEF OpToRel
<1>2. \A x, y \in Nat : <<y, x>> \in R <=> y < x
  OBVIOUS
<1> HIDE DEF R
<1>3. \E x \in N : \A y \in N : ~ (<<y, x>> \in R)
  BY <1>1, WFMin
<1> QED BY <1>2, <1>3

\* Induction on the subsets of a finite set, for the members of a set.
LEMMA SubsetInduction ==
    ASSUME NEW S, IsFiniteSet(S), NEW Good,
           \A T \in SUBSET S : (\A U \in SUBSET S : Cardinality(U) < Cardinality(T) => U \in Good) => T \in Good
    PROVE  \A T \in SUBSET S : T \in Good
<1> DEFINE Sizes == {Cardinality(T) : T \in (SUBSET S) \ Good}
<1>1. SUFFICES ASSUME Sizes # {} PROVE FALSE
  OBVIOUS
<1>2. \A T \in SUBSET S : Cardinality(T) \in Nat
  BY FS_Subset, FS_CardinalityType
<1>3. Sizes \subseteq Nat
  BY <1>2
<1>4. \E x \in Sizes : \A y \in Sizes : ~ (y < x)
  <2> HIDE DEF Sizes
  <2> QED BY <1>1, <1>3, LeastNumber
<1>5. PICK T \in (SUBSET S) \ Good : \A U \in (SUBSET S) \ Good : ~(Cardinality(U) < Cardinality(T))
  BY <1>4
<1>6. T \in Good
  BY <1>5
<1> QED BY <1>5, <1>6

\* Induction on the numbers.
LEMMA NumberInduction ==
    ASSUME NEW Good, 0 \in Good, \A n \in Nat : n \in Good => n + 1 \in Good
    PROVE  \A n \in Nat : n \in Good
<1>1. SUFFICES ASSUME Nat \ Good # {} PROVE FALSE
  OBVIOUS
<1>2. PICK x \in Nat \ Good : \A y \in Nat \ Good : ~ (y < x)
  BY <1>1, LeastNumber
<1>3. x # 0 /\ x \in Nat
  BY <1>2
<1>4. x - 1 \in Nat /\ x - 1 < x /\ (x - 1) + 1 = x
  BY <1>3
<1>5. x - 1 \in Good
  BY <1>2, <1>4
<1> QED BY <1>2, <1>4, <1>5

\* A set without one of its elements.
LEMMA Smaller ==
    ASSUME NEW S, IsFiniteSet(S), NEW T \in SUBSET S, NEW x \in T
    PROVE  /\ T \ {x} \in SUBSET S
           /\ Cardinality(T) \in Nat /\ Cardinality(T \ {x}) \in Nat
           /\ Cardinality(T \ {x}) = Cardinality(T) - 1
<1>1. IsFiniteSet(T)
  BY FS_Subset
<1>2. Cardinality(T \ {x}) = Cardinality(T) - 1 /\ IsFiniteSet(T \ {x})
  BY <1>1, FS_RemoveElement
<1> QED BY <1>1, <1>2, FS_CardinalityType

\* A fold takes elements of its set.
LEMMA PickIn == ASSUME NEW T, T # {} PROVE Pick(T) \in T
BY DEF Pick

\* A way to join numbers, in any order.
Joins(g) ==
    /\ g \in [Nat \X Nat -> Nat]
    /\ \A i, j \in Nat : g[<<i, j>>] = g[<<j, i>>]
    /\ \A i, j, k \in Nat : g[<<i, g[<<j, k>>]>>] = g[<<g[<<i, j>>], k>>]

\* h gives the fold of w over each subset of S.
FoldsTo(h, g, base, w, S) ==
    /\ h \in [SUBSET S -> Nat]
    /\ \A T \in SUBSET S : h[T] = IF T = {} THEN base ELSE g[<<w[Pick(T)], h[T \ {Pick(T)}]>>]

\* There is such a function: it is found level by level.
LEMMA FoldExists ==
    ASSUME NEW S, IsFiniteSet(S), NEW g, Joins(g), NEW base \in Nat, NEW w \in [S -> Nat]
    PROVE  \E h : FoldsTo(h, g, base, w, S)
<1> DEFINE Level(n) == {T \in SUBSET S : Cardinality(T) <= n}
           Fits(h, n) ==
               /\ h \in [Level(n) -> Nat]
               /\ \A T \in Level(n) : h[T] = IF T = {} THEN base ELSE g[<<w[Pick(T)], h[T \ {Pick(T)}]>>]
           Good == {n \in Nat : \E h : Fits(h, n)}
<1>0. \A T \in SUBSET S : Cardinality(T) \in Nat /\ (Cardinality(T) = 0 <=> T = {})
  BY FS_Subset, FS_CardinalityType, FS_EmptySet
<1>a. g \in [Nat \X Nat -> Nat]
  BY DEF Joins
<1>1. 0 \in Good
  <2>1. \A T \in Level(0) : T = {}
    BY <1>0
  <2>2. Fits([T \in Level(0) |-> base], 0)
    BY <2>1
  <2> QED BY <2>2
<1>2. ASSUME NEW n \in Nat, n \in Good PROVE n + 1 \in Good
  <2>1. PICK h : Fits(h, n)
    BY <1>2
  <2> DEFINE k == [T \in Level(n + 1) |->
                     IF T \in Level(n) THEN h[T] ELSE g[<<w[Pick(T)], h[T \ {Pick(T)}]>>]]
  <2>2. ASSUME NEW T \in Level(n + 1), T # {}
        PROVE  /\ T \ {Pick(T)} \in Level(n) /\ T \ {Pick(T)} \in Level(n + 1)
               /\ w[Pick(T)] \in Nat
    <3>1. Pick(T) \in T /\ T \in SUBSET S
      BY <2>2, PickIn
    <3>2. Cardinality(T \ {Pick(T)}) = Cardinality(T) - 1 /\ Cardinality(T) \in Nat
          /\ T \ {Pick(T)} \in SUBSET S
      BY <3>1, Smaller
    <3> QED BY <3>1, <3>2
  <2>3. ASSUME NEW T \in Level(n + 1)
        PROVE  k[T] \in Nat /\ k[T] = IF T = {} THEN base ELSE g[<<w[Pick(T)], k[T \ {Pick(T)}]>>]
    <3>1. CASE T = {}
      <4>1. T \in Level(n)
        BY <1>0, <3>1
      <4> QED BY <2>1, <3>1, <4>1
    <3>2. CASE T # {}
      <4>1. k[T \ {Pick(T)}] = h[T \ {Pick(T)}] /\ h[T \ {Pick(T)}] \in Nat
        BY <2>1, <2>2, <3>2
      <4>2. k[T] = g[<<w[Pick(T)], h[T \ {Pick(T)}]>>]
        BY <2>1, <3>2
      <4> QED BY <1>a, <2>2, <3>2, <4>1, <4>2
    <3> QED BY <3>1, <3>2
  <2>4. Fits(k, n + 1)
    BY <2>3
  <2> HIDE DEF k, Fits, Level
  <2> QED BY <2>4
<1> HIDE DEF Good
<1>3. \A n \in Nat : n \in Good
  BY <1>1, <1>2, NumberInduction
<1>4. PICK h : Fits(h, Cardinality(S))
  BY <1>0, <1>3 DEF Good
<1>5. Level(Cardinality(S)) = SUBSET S
  BY FS_Subset
<1>6. FoldsTo(h, g, base, w, S)
  BY <1>4, <1>5 DEF FoldsTo
<1> QED BY <1>6

\* A fold depends on the values it joins only.
LEMMA FoldAgrees ==
    ASSUME NEW S, IsFiniteSet(S), NEW R, NEW g, NEW base, NEW w, NEW v, NEW h, NEW k,
           FoldsTo(h, g, base, w, S), FoldsTo(k, g, base, v, R),
           NEW T \in SUBSET S, T \subseteq R, \A x \in T : w[x] = v[x]
    PROVE  h[T] = k[T]
<1> DEFINE Good == {U \in SUBSET T : h[U] = k[U]}
<1>0. IsFiniteSet(T)
  BY FS_Subset
<1>1. ASSUME NEW U \in SUBSET T, \A V \in SUBSET T : Cardinality(V) < Cardinality(U) => V \in Good
      PROVE  U \in Good
  <2>1. h[U] = (IF U = {} THEN base ELSE g[<<w[Pick(U)], h[U \ {Pick(U)}]>>])
        /\ k[U] = (IF U = {} THEN base ELSE g[<<v[Pick(U)], k[U \ {Pick(U)}]>>])
    BY DEF FoldsTo
  <2>2. CASE U = {}
    BY <2>1, <2>2
  <2>3. CASE U # {}
    <3>1. Pick(U) \in U /\ w[Pick(U)] = v[Pick(U)]
      BY <2>3, PickIn
    <3>2. U \ {Pick(U)} \in SUBSET T /\ Cardinality(U \ {Pick(U)}) < Cardinality(U)
      BY <1>0, <3>1, Smaller
    <3>3. h[U \ {Pick(U)}] = k[U \ {Pick(U)}]
      BY <1>1, <3>2
    <3> QED BY <2>1, <2>3, <3>1, <3>3
  <2> QED BY <2>2, <2>3
<1> HIDE DEF Good
<1>2. T \in Good
  BY <1>0, <1>1, SubsetInduction
<1> QED BY <1>2 DEF Good

\* The elements may be taken in any order.
LEMMA FoldTakes ==
    ASSUME NEW S, IsFiniteSet(S), NEW g, Joins(g), NEW base \in Nat, NEW w \in [S -> Nat], NEW h,
           FoldsTo(h, g, base, w, S)
    PROVE  \A T \in SUBSET S : \A x \in T : h[T] = g[<<w[x], h[T \ {x}]>>]
<1> DEFINE Good == {T \in SUBSET S : \A x \in T : h[T] = g[<<w[x], h[T \ {x}]>>]}
<1>1. ASSUME NEW T \in SUBSET S, \A V \in SUBSET S : Cardinality(V) < Cardinality(T) => V \in Good
      PROVE  T \in Good
  <2>1. SUFFICES ASSUME NEW x \in T PROVE h[T] = g[<<w[x], h[T \ {x}]>>]
    OBVIOUS
  <2>2. PICK y : y = Pick(T)
    OBVIOUS
  <2>3. y \in T /\ h[T] = g[<<w[y], h[T \ {y}]>>]
    BY <2>2, PickIn DEF FoldsTo
  <2>4. CASE x = y
    BY <2>3, <2>4
  <2>5. CASE x # y
    <3>1. T \ {x} \in Good /\ T \ {y} \in Good
      BY <1>1, <2>3, Smaller
    <3>2. y \in T \ {x} /\ x \in T \ {y} /\ (T \ {x}) \ {y} = (T \ {y}) \ {x}
      BY <2>3, <2>5
    <3>3. PICK r : r = h[(T \ {x}) \ {y}]
      OBVIOUS
    <3>4. h[T \ {x}] = g[<<w[y], r>>] /\ h[T \ {y}] = g[<<w[x], r>>]
      BY <3>1, <3>2, <3>3
    <3>5. r \in Nat /\ w[x] \in Nat /\ w[y] \in Nat
      BY <2>3, <3>3 DEF FoldsTo
    <3>6. g[<<w[y], g[<<w[x], r>>]>>] = g[<<g[<<w[y], w[x]>>], r>>]
      BY <3>5 DEF Joins
    <3>7. g[<<w[x], g[<<w[y], r>>]>>] = g[<<g[<<w[x], w[y]>>], r>>]
      BY <3>5 DEF Joins
    <3>8. g[<<w[x], w[y]>>] = g[<<w[y], w[x]>>]
      BY <3>5 DEF Joins
    <3> QED BY <2>3, <3>4, <3>6, <3>7, <3>8
  <2> QED BY <2>4, <2>5
<1> HIDE DEF Good
<1>2. \A T \in SUBSET S : T \in Good
  BY <1>1, SubsetInduction
<1> QED BY <1>2 DEF Good

-----------------------------------------------------------------------------
Plus == [p \in Nat \X Nat |-> p[1] + p[2]]
Times == [p \in Nat \X Nat |-> p[1] * p[2]]

\* Addition joins numbers in any order.
LEMMA PlusJoins == Joins(Plus) /\ \A i, j \in Nat : Plus[<<i, j>>] = i + j
BY DEF Plus, Joins

\* So does multiplication.
LEMMA TimesJoins == Joins(Times) /\ \A i, j \in Nat : Times[<<i, j>>] = i * j
<1>1. \A i, j \in Nat : i * j \in Nat /\ i * j = j * i
  OBVIOUS
<1>2. \A i, j, k \in Nat : i * (j * k) = (i * j) * k
  OBVIOUS
<1>3. \A i, j \in Nat : Times[<<i, j>>] = i * j
  BY DEF Times
<1>4. Times \in [Nat \X Nat -> Nat]
  BY <1>1 DEF Times
<1>5. ASSUME NEW i \in Nat, NEW j \in Nat, NEW k \in Nat
      PROVE  Times[<<i, Times[<<j, k>>]>>] = Times[<<Times[<<i, j>>], k>>]
  <2>1. Times[<<j, k>>] = j * k /\ Times[<<i, j>>] = i * j
    BY <1>3
  <2>2. j * k \in Nat /\ i * j \in Nat
    BY <1>1
  <2> QED BY <1>2, <1>3, <2>1, <2>2
<1> QED BY <1>1, <1>3, <1>4, <1>5 DEF Joins

\* The sum of a family is such a fold.
LEMMA SumIs ==
    ASSUME NEW S, IsFiniteSet(S), NEW w \in [S -> Nat], NEW h, FoldsTo(h, Plus, 0, w, S), NEW T \in SUBSET S
    PROVE  SumFunctionOnSet(w, T) = h[T]
<1> DEFINE Step(i, U) == IF U = {} THEN 0 ELSE w[Pick(U)] + i[U \ {Pick(U)}]
           iter == CHOOSE i : i = [U \in SUBSET T |-> Step(i, U)]
           k == [U \in SUBSET T |-> h[U]]
           Good == {U \in SUBSET T : iter[U] = h[U]}
<1>0. IsFiniteSet(T)
  BY FS_Subset
<1>a. ASSUME NEW U \in SUBSET T, U # {}
      PROVE  /\ U \ {Pick(U)} \in SUBSET T /\ Cardinality(U \ {Pick(U)}) < Cardinality(U)
             /\ w[Pick(U)] \in Nat /\ h[U \ {Pick(U)}] \in Nat
             /\ h[U] = w[Pick(U)] + h[U \ {Pick(U)}]
  <2>1. Pick(U) \in U
    BY <1>a, PickIn
  <2>2. U \ {Pick(U)} \in SUBSET T /\ Cardinality(U \ {Pick(U)}) < Cardinality(U)
    BY <1>0, <2>1, Smaller
  <2>3. w[Pick(U)] \in Nat /\ h[U \ {Pick(U)}] \in Nat
    BY <2>1, <2>2 DEF FoldsTo
  <2>4. h[U] = Plus[<<w[Pick(U)], h[U \ {Pick(U)}]>>]
    BY <1>a DEF FoldsTo
  <2> QED BY <2>2, <2>3, <2>4, PlusJoins
<1>b. h[{}] = 0
  BY DEF FoldsTo
<1>1. \A U \in SUBSET T : h[U] = Step(k, U)
  BY <1>a, <1>b
<1>2. k = [U \in SUBSET T |-> Step(k, U)]
  BY <1>1
<1>3. iter = [U \in SUBSET T |-> Step(iter, U)]
  <2> HIDE DEF k, Step
  <2> QED BY <1>2
<1>4. SumFunctionOnSet(w, T) = iter[T]
  BY Zenon DEF SumFunctionOnSet, FoldFunctionOnSet, MapThenFoldSet, Pick
<1> HIDE DEF iter
<1>5. ASSUME NEW U \in SUBSET T, \A V \in SUBSET T : Cardinality(V) < Cardinality(U) => V \in Good
      PROVE  U \in Good
  <2>1. iter[U] = Step(iter, U)
    BY <1>3
  <2> QED BY <1>5, <1>a, <1>b, <2>1
<1> HIDE DEF Good
<1>6. T \in Good
  BY <1>0, <1>5, SubsetInduction
<1> QED BY <1>4, <1>6 DEF Good

\* So is its product.
LEMMA ProductIs ==
    ASSUME NEW S, IsFiniteSet(S), NEW w \in [S -> Nat], NEW h, FoldsTo(h, Times, 1, w, S), NEW T \in SUBSET S
    PROVE  ProductOnSet(w, T) = h[T]
<1> DEFINE Step(i, U) == IF U = {} THEN 1 ELSE w[Pick(U)] * i[U \ {Pick(U)}]
           iter == CHOOSE i : i = [U \in SUBSET T |-> Step(i, U)]
           k == [U \in SUBSET T |-> h[U]]
           Good == {U \in SUBSET T : iter[U] = h[U]}
<1>0. IsFiniteSet(T)
  BY FS_Subset
<1>a. ASSUME NEW U \in SUBSET T, U # {}
      PROVE  /\ U \ {Pick(U)} \in SUBSET T /\ Cardinality(U \ {Pick(U)}) < Cardinality(U)
             /\ w[Pick(U)] \in Nat /\ h[U \ {Pick(U)}] \in Nat
             /\ h[U] = w[Pick(U)] * h[U \ {Pick(U)}]
  <2>1. Pick(U) \in U
    BY <1>a, PickIn
  <2>2. U \ {Pick(U)} \in SUBSET T /\ Cardinality(U \ {Pick(U)}) < Cardinality(U)
    BY <1>0, <2>1, Smaller
  <2>3. w[Pick(U)] \in Nat /\ h[U \ {Pick(U)}] \in Nat
    BY <2>1, <2>2 DEF FoldsTo
  <2>4. h[U] = Times[<<w[Pick(U)], h[U \ {Pick(U)}]>>]
    BY <1>a DEF FoldsTo
  <2> QED BY <2>2, <2>3, <2>4, TimesJoins
<1>b. h[{}] = 1
  BY DEF FoldsTo
<1>1. \A U \in SUBSET T : h[U] = Step(k, U)
  BY <1>a, <1>b
<1>2. k = [U \in SUBSET T |-> Step(k, U)]
  BY <1>1
<1>3. iter = [U \in SUBSET T |-> Step(iter, U)]
  <2> HIDE DEF k, Step
  <2> QED BY <1>2
<1>4. ProductOnSet(w, T) = iter[T]
  BY Zenon DEF ProductOnSet, FoldFunctionOnSet, MapThenFoldSet, Pick
<1> HIDE DEF iter
<1>5. ASSUME NEW U \in SUBSET T, \A V \in SUBSET T : Cardinality(V) < Cardinality(U) => V \in Good
      PROVE  U \in Good
  <2>1. iter[U] = Step(iter, U)
    BY <1>3
  <2> QED BY <1>5, <1>a, <1>b, <2>1
<1> HIDE DEF Good
<1>6. T \in Good
  BY <1>0, <1>5, SubsetInduction
<1> QED BY <1>4, <1>6 DEF Good

\* A sum, without any of its terms.
LEMMA SumTakes ==
    ASSUME NEW S, IsFiniteSet(S), NEW w \in [S -> Nat]
    PROVE  /\ SumFunctionOnSet(w, {}) = 0
           /\ \A T \in SUBSET S :
                 /\ SumFunctionOnSet(w, T) \in Nat
                 /\ \A x \in T : /\ SumFunctionOnSet(w, T \ {x}) \in Nat
                                 /\ SumFunctionOnSet(w, T) = w[x] + SumFunctionOnSet(w, T \ {x})
<1>1. PICK h : FoldsTo(h, Plus, 0, w, S)
  BY FoldExists, PlusJoins
<1>a. \A T \in SUBSET S : SumFunctionOnSet(w, T) = h[T]
  BY <1>1, SumIs
<1>b. \A T \in SUBSET S : h[T] \in Nat
  BY <1>1 DEF FoldsTo
<1>2. \A T \in SUBSET S : SumFunctionOnSet(w, T) = h[T] /\ h[T] \in Nat
  BY <1>a, <1>b
<1>3. h[{}] = 0
  BY <1>1 DEF FoldsTo
<1>4. \A T \in SUBSET S : \A x \in T : h[T] = Plus[<<w[x], h[T \ {x}]>>]
  <2>1. PICK g, base : g = Plus /\ base = 0
    OBVIOUS
  <2>2. Joins(g) /\ base \in Nat /\ FoldsTo(h, g, base, w, S)
    BY <1>1, <2>1, PlusJoins
  <2>3. \A T \in SUBSET S : \A x \in T : h[T] = g[<<w[x], h[T \ {x}]>>]
    BY <2>2, FoldTakes
  <2> QED BY <2>1, <2>3
<1>5. ASSUME NEW T \in SUBSET S, NEW x \in T
      PROVE  SumFunctionOnSet(w, T \ {x}) \in Nat /\ SumFunctionOnSet(w, T) = w[x] + SumFunctionOnSet(w, T \ {x})
  <2>1. w[x] \in Nat /\ T \ {x} \in SUBSET S
    OBVIOUS
  <2>2. h[T] = w[x] + h[T \ {x}]
    BY <1>2, <1>4, <2>1, PlusJoins
  <2> QED BY <1>2, <2>1, <2>2
<1>6. SumFunctionOnSet(w, {}) = 0
  BY <1>2, <1>3
<1> QED BY <1>2, <1>5, <1>6

\* A product, without any of its factors.
LEMMA ProductTakes ==
    ASSUME NEW S, IsFiniteSet(S), NEW w \in [S -> Nat]
    PROVE  /\ ProductOnSet(w, {}) = 1
           /\ \A T \in SUBSET S :
                 /\ ProductOnSet(w, T) \in Nat
                 /\ \A x \in T : /\ ProductOnSet(w, T \ {x}) \in Nat
                                 /\ ProductOnSet(w, T) = w[x] * ProductOnSet(w, T \ {x})
<1>1. PICK h : FoldsTo(h, Times, 1, w, S)
  BY FoldExists, TimesJoins
<1>a. \A T \in SUBSET S : ProductOnSet(w, T) = h[T]
  BY <1>1, ProductIs
<1>b. \A T \in SUBSET S : h[T] \in Nat
  BY <1>1 DEF FoldsTo
<1>2. \A T \in SUBSET S : ProductOnSet(w, T) = h[T] /\ h[T] \in Nat
  BY <1>a, <1>b
<1>3. h[{}] = 1
  BY <1>1 DEF FoldsTo
<1>4. \A T \in SUBSET S : \A x \in T : h[T] = Times[<<w[x], h[T \ {x}]>>]
  <2>1. PICK g, base : g = Times /\ base = 1
    OBVIOUS
  <2>2. Joins(g) /\ base \in Nat /\ FoldsTo(h, g, base, w, S)
    BY <1>1, <2>1, TimesJoins
  <2>3. \A T \in SUBSET S : \A x \in T : h[T] = g[<<w[x], h[T \ {x}]>>]
    BY <2>2, FoldTakes
  <2> QED BY <2>1, <2>3
<1>5. ASSUME NEW T \in SUBSET S, NEW x \in T
      PROVE  ProductOnSet(w, T \ {x}) \in Nat /\ ProductOnSet(w, T) = w[x] * ProductOnSet(w, T \ {x})
  <2>1. w[x] \in Nat /\ T \ {x} \in SUBSET S
    OBVIOUS
  <2>2. h[T] = w[x] * h[T \ {x}]
    BY <1>2, <1>4, <2>1, TimesJoins
  <2> QED BY <1>2, <2>1, <2>2
<1>6. ProductOnSet(w, {}) = 1
  BY <1>2, <1>3
<1> QED BY <1>2, <1>5, <1>6

\* A product depends on its factors only.
LEMMA ProductAgrees ==
    ASSUME NEW S, IsFiniteSet(S), NEW w \in [S -> Nat], NEW R, IsFiniteSet(R), NEW v \in [R -> Nat],
           NEW T \in SUBSET S, T \subseteq R, \A x \in T : w[x] = v[x]
    PROVE  ProductOnSet(w, T) = ProductOnSet(v, T)
<1>1. PICK h : FoldsTo(h, Times, 1, w, S)
  BY FoldExists, TimesJoins
<1>2. PICK k : FoldsTo(k, Times, 1, v, R)
  BY FoldExists, TimesJoins
<1>3. ProductOnSet(w, T) = h[T] /\ ProductOnSet(v, T) = k[T]
  BY <1>1, <1>2, ProductIs
<1>4. h[T] = k[T]
  BY <1>1, <1>2, FoldAgrees
<1> QED BY <1>3, <1>4

\* A factor common to the terms is one of the sum.
LEMMA SumScaled ==
    ASSUME NEW S, IsFiniteSet(S), NEW w \in [S -> Nat], NEW v \in [S -> Nat], NEW c \in Nat,
           \A x \in S : v[x] = w[x] * c
    PROVE  SumFunctionOnSet(v, S) = SumFunctionOnSet(w, S) * c
<1> DEFINE Good == {T \in SUBSET S : SumFunctionOnSet(v, T) = SumFunctionOnSet(w, T) * c}
<1>1. ASSUME NEW T \in SUBSET S, \A V \in SUBSET S : Cardinality(V) < Cardinality(T) => V \in Good
      PROVE  T \in Good
  <2>1. CASE T = {}
    <3>1. SumFunctionOnSet(v, T) = 0 /\ SumFunctionOnSet(w, T) = 0
      BY <2>1, SumTakes
    <3> QED BY <3>1
  <2>2. CASE T # {}
    <3>1. PICK x \in T : TRUE
      BY <2>2
    <3>2. T \ {x} \in Good
      BY <1>1, <3>1, Smaller
    <3>3. PICK a, b : a = SumFunctionOnSet(w, T \ {x}) /\ b = SumFunctionOnSet(v, T \ {x})
      OBVIOUS
    <3>4. a \in Nat /\ SumFunctionOnSet(w, T) = w[x] + a
      <4>1. /\ SumFunctionOnSet(w, T \ {x}) \in Nat
            /\ SumFunctionOnSet(w, T) = w[x] + SumFunctionOnSet(w, T \ {x})
        BY SumTakes
      <4> QED BY <3>3, <4>1
    <3>5. b \in Nat /\ SumFunctionOnSet(v, T) = v[x] + b
      <4>1. /\ SumFunctionOnSet(v, T \ {x}) \in Nat
            /\ SumFunctionOnSet(v, T) = v[x] + SumFunctionOnSet(v, T \ {x})
        BY SumTakes
      <4> QED BY <3>3, <4>1
    <3>6. b = a * c /\ v[x] = w[x] * c /\ w[x] \in Nat
      BY <3>2, <3>3
    <3>7. w[x] * c + a * c = (w[x] + a) * c
      BY <3>4, <3>6
    <3> QED BY <3>4, <3>5, <3>6, <3>7
  <2> QED BY <2>1, <2>2
<1> HIDE DEF Good
<1>2. S \in Good
  BY <1>1, SubsetInduction
<1> QED BY <1>2 DEF Good

\* Positive terms have a positive sum.
LEMMA SumPositive ==
    ASSUME NEW S, IsFiniteSet(S), S # {}, NEW w \in [S -> Nat], \A x \in S : w[x] # 0
    PROVE  SumFunctionOnSet(w, S) \in Nat \ {0}
<1>1. PICK x \in S : TRUE
  OBVIOUS
<1>2. SumFunctionOnSet(w, S \ {x}) \in Nat /\ SumFunctionOnSet(w, S) = w[x] + SumFunctionOnSet(w, S \ {x})
  BY SumTakes
<1>3. w[x] \in Nat /\ w[x] # 0
  OBVIOUS
<1> QED BY <1>2, <1>3

\* Positive factors have a positive product.
LEMMA ProductsPositive ==
    ASSUME NEW S, IsFiniteSet(S), NEW w \in [S -> Nat], \A x \in S : w[x] # 0
    PROVE  ProductOnSet(w, S) \in Nat \ {0}
<1> DEFINE Good == {T \in SUBSET S : ProductOnSet(w, T) \in Nat \ {0}}
<1>1. ASSUME NEW T \in SUBSET S, \A V \in SUBSET S : Cardinality(V) < Cardinality(T) => V \in Good
      PROVE  T \in Good
  <2>1. CASE T = {}
    <3>1. ProductOnSet(w, T) = 1
      BY <2>1, ProductTakes
    <3> QED BY <3>1
  <2>2. CASE T # {}
    <3>1. PICK x \in T : TRUE
      BY <2>2
    <3>2. T \ {x} \in Good
      BY <1>1, <3>1, Smaller
    <3>3. ProductOnSet(w, T) = w[x] * ProductOnSet(w, T \ {x})
      BY ProductTakes
    <3>4. w[x] \in Nat \ {0}
      OBVIOUS
    <3>5. w[x] * ProductOnSet(w, T \ {x}) \in Nat \ {0}
      BY <3>2, <3>4, ProductPositive
    <3> QED BY <3>3, <3>5
  <2> QED BY <2>1, <2>2
<1> HIDE DEF Good
<1>2. S \in Good
  BY <1>1, SubsetInduction
<1> QED BY <1>2 DEF Good

-----------------------------------------------------------------------------
(* The seeded tables.                                                      *)

\* What Product folds.
LEMMA ProductIsOnSet == ASSUME NEW w PROVE Product(w) = ProductOnSet(w, DOMAIN w)
BY DEF Product, FoldFunction, ProductOnSet

\* The floor keeps every weight, every sum of a column and every product of them positive.
LEMMA ColumnsPositive ==
    ASSUME authored \in Authored, NEW q \in Question
    PROVE  \A t \in Target :
              /\ [a \in Answer |-> Weight(q, a, t)] \in [Answer -> Nat \ {0}]
              /\ ColumnSum(q, t) \in Nat \ {0}
              /\ OtherSums(q, t) \in Nat \ {0}
<1>1. ASSUME NEW t \in Target
      PROVE  /\ [a \in Answer |-> Weight(q, a, t)] \in [Answer -> Nat \ {0}]
             /\ ColumnSum(q, t) \in Nat \ {0}
  <2> DEFINE w == [a \in Answer |-> Weight(q, a, t)]
  <2>1. ASSUME NEW a \in Answer PROVE Weight(q, a, t) \in Nat \ {0}
    <3>1. authored[q][a][t] \in Nat
      BY InterviewAssumption
    <3> QED BY <3>1 DEF Weight
  <2>2. w \in [Answer -> Nat \ {0}]
    BY <2>1
  <2>3. DOMAIN w = Answer
    OBVIOUS
  <2>4. ColumnSum(q, t) = SumFunctionOnSet(w, Answer)
    BY <2>3 DEF ColumnSum, SumFunction
  <2>5. IsFiniteSet(Answer) /\ Answer # {}
    BY InterviewAssumption
  <2> HIDE DEF w
  <2>6. w \in [Answer -> Nat] /\ \A a \in Answer : w[a] # 0
    BY <2>2
  <2>7. SumFunctionOnSet(w, Answer) \in Nat \ {0}
    BY <2>5, <2>6, SumPositive
  <2> QED BY <2>2, <2>4, <2>7 DEF w
<1>2. ASSUME NEW t \in Target PROVE OtherSums(q, t) \in Nat \ {0}
  <2> DEFINE w == [u \in Target \ {t} |-> ColumnSum(q, u)]
  <2>1. w \in [Target \ {t} -> Nat] /\ \A u \in Target \ {t} : w[u] # 0
    BY <1>1
  <2>2. DOMAIN w = Target \ {t}
    OBVIOUS
  <2>3. OtherSums(q, t) = ProductOnSet(w, Target \ {t})
    BY <2>2, ProductIsOnSet DEF OtherSums
  <2>4. IsFiniteSet(Target \ {t})
    BY InterviewAssumption, FS_RemoveElement
  <2> HIDE DEF w
  <2>5. ProductOnSet(w, Target \ {t}) \in Nat \ {0}
    BY <2>1, <2>4, ProductsPositive
  <2> QED BY <2>3, <2>5
<1> QED BY <1>1, <1>2

\* Over the common denominator every column of a question sums up to the same.
LEMMA ColumnsEven ==
    ASSUME authored \in Authored, NEW q \in Question
    PROVE  \A t \in Target :
              ColumnSum(q, t) * OtherSums(q, t) = ProductOnSet([u \in Target |-> ColumnSum(q, u)], Target)
<1> DEFINE w == [u \in Target |-> ColumnSum(q, u)]
<1>1. w \in [Target -> Nat]
  BY ColumnsPositive
<1>2. IsFiniteSet(Target)
  BY InterviewAssumption
<1>3. ASSUME NEW t \in Target
      PROVE  ColumnSum(q, t) * OtherSums(q, t) = ProductOnSet(w, Target)
  <2> DEFINE v == [u \in Target \ {t} |-> ColumnSum(q, u)]
  <2>1. v \in [Target \ {t} -> Nat] /\ (\A u \in Target \ {t} : w[u] = v[u]) /\ w[t] = ColumnSum(q, t)
    BY <1>1
  <2>2. DOMAIN v = Target \ {t}
    OBVIOUS
  <2>3. OtherSums(q, t) = ProductOnSet(v, Target \ {t})
    BY <2>2, ProductIsOnSet DEF OtherSums
  <2>4. IsFiniteSet(Target \ {t})
    BY <1>2, FS_RemoveElement
  <2> HIDE DEF w, v
  <2>5. ProductOnSet(w, Target \ {t}) = ProductOnSet(v, Target \ {t})
    <3>1. Target \ {t} \in SUBSET Target /\ Target \ {t} \subseteq Target \ {t}
      OBVIOUS
    <3> QED BY <1>1, <1>2, <2>1, <2>4, <3>1, ProductAgrees
  <2>6. ProductOnSet(w, Target) = w[t] * ProductOnSet(w, Target \ {t})
    BY <1>1, <1>2, ProductTakes
  <2> QED BY <2>1, <2>3, <2>5, <2>6
<1> QED BY <1>3

\* Seeding makes tables that pass the validation.
LEMMA SeedIsValid ==
    ASSUME authored \in Authored, Seed
    PROVE  PositiveValues' /\ Normalized'
<1>1. \A q \in Question, a \in Answer, t \in Target :
         table'[q][a][t] = Weight(q, a, t) * OtherSums(q, t)
  BY DEF Seed
<1>2. PositiveValues'
  <2>1. ASSUME NEW q \in Question, NEW a \in Answer, NEW t \in Target
        PROVE  table'[q][a][t] \in Nat \ {0}
    <3>1. [x \in Answer |-> Weight(q, x, t)] \in [Answer -> Nat \ {0}] /\ OtherSums(q, t) \in Nat \ {0}
      BY ColumnsPositive
    <3>2. Weight(q, a, t) \in Nat \ {0}
      BY <3>1
    <3> QED BY <1>1, <3>1, <3>2, ProductPositive
  <2> QED BY <2>1 DEF PositiveValues
<1>3. ASSUME NEW q \in Question, NEW t \in Target
      PROVE  SumFunction([a \in Answer |-> table'[q][a][t]])
                = ProductOnSet([u \in Target |-> ColumnSum(q, u)], Target)
  <2> DEFINE w == [a \in Answer |-> Weight(q, a, t)]
             v == [a \in Answer |-> table'[q][a][t]]
  <2>1. PICK c : c = OtherSums(q, t)
    OBVIOUS
  <2>2. c \in Nat \ {0}
    BY <2>1, ColumnsPositive
  <2>3. w \in [Answer -> Nat \ {0}]
    BY ColumnsPositive
  <2>4. \A a \in Answer : v[a] = w[a] * c
    BY <1>1, <2>1
  <2>5. v \in [Answer -> Nat]
    <3>1. \A a \in Answer : v[a] \in Nat
      <4> HIDE DEF w, v
      <4>1. SUFFICES ASSUME NEW a \in Answer PROVE v[a] \in Nat
        OBVIOUS
      <4>2. w[a] \in Nat \ {0}
        BY <2>3
      <4> QED BY <2>2, <2>4, <4>2, ProductPositive
    <3> QED BY <3>1
  <2>6. DOMAIN v = Answer /\ DOMAIN w = Answer
    OBVIOUS
  <2>7. SumFunction(v) = SumFunctionOnSet(v, Answer) /\ ColumnSum(q, t) = SumFunctionOnSet(w, Answer)
    BY <2>6 DEF SumFunction, ColumnSum
  <2> HIDE DEF w, v
  <2>8. w \in [Answer -> Nat] /\ IsFiniteSet(Answer) /\ c \in Nat
    BY <2>2, <2>3, InterviewAssumption
  <2>9. SumFunctionOnSet(v, Answer) = SumFunctionOnSet(w, Answer) * c
    BY <2>4, <2>5, <2>8, SumScaled
  <2>10. ColumnSum(q, t) * c = ProductOnSet([u \in Target |-> ColumnSum(q, u)], Target)
    BY <2>1, ColumnsEven
  <2>11. SumFunction(v) = ProductOnSet([u \in Target |-> ColumnSum(q, u)], Target)
    BY <2>7, <2>9, <2>10
  <2> QED BY <2>11 DEF v
<1>4. Normalized'
  <2>1. ASSUME NEW q \in Question, NEW t \in Target, NEW u \in Target
        PROVE  SumFunction([a \in Answer |-> table'[q][a][t]]) = SumFunction([a \in Answer |-> table'[q][a][u]])
    BY <1>3, Zenon
  <2> QED BY <2>1, Zenon DEF Normalized
<1> QED BY <1>2, <1>4

-----------------------------------------------------------------------------
(* The evidence.                                                           *)

\* The probability of one more answer is a factor of that of the trace.
LEMMA EvidenceGrows ==
    ASSUME IInv, pc = "answer", NEW a \in Answer, Take(a), NEW t \in Target
    PROVE  Evidence(t)' = Evidence(t) * table[current][a][t]
<1> DEFINE n == Len(trace)
           w == [i \in 1 .. n |-> table[trace[i].question][trace[i].answer][t]]
           v == [i \in 1 .. n + 1 |-> table[trace'[i].question][trace'[i].answer][t]]
<1>1. /\ trace \in Seq(Traced) /\ current \in Question /\ n \in Nat
      /\ table \in [Question -> [Answer -> [Target -> Nat \ {0}]]]
  BY DEF IInv, TypeOK, InStep
<1>2. trace' = Append(trace, [question |-> current, answer |-> a]) /\ table' = table
  BY DEF Take, tables
<1>3. /\ Len(trace') = n + 1
      /\ \A i \in 1 .. n : trace'[i] = trace[i]
      /\ trace'[n + 1].question = current /\ trace'[n + 1].answer = a
  BY <1>1, <1>2
<1>4. \A i \in 1 .. n : trace[i].question \in Question /\ trace[i].answer \in Answer
  <2>1. \A i \in 1 .. n : trace[i] \in Traced
    BY <1>1
  <2> QED BY <2>1 DEF Traced
<1>5. w \in [1 .. n -> Nat]
  BY <1>1, <1>4
<1>6. \A i \in 1 .. n : v[i] = w[i]
  BY <1>1, <1>3
<1>7. v[n + 1] = table[current][a][t] /\ v[n + 1] \in Nat
  BY <1>1, <1>3
<1>8. v \in [1 .. n + 1 -> Nat]
  <2>1. \A i \in 1 .. n + 1 : i \in 1 .. n \/ i = n + 1
    BY <1>1
  <2>2. \A i \in 1 .. n + 1 : v[i] \in Nat
    BY <1>5, <1>6, <1>7, <2>1
  <2> QED BY <2>2
<1>9. DOMAIN w = 1 .. n /\ DOMAIN v = 1 .. n + 1
  OBVIOUS
<1>10. Evidence(t) = ProductOnSet(w, 1 .. n)
  BY <1>9, ProductIsOnSet DEF Evidence
<1>11. Evidence(t)' = ProductOnSet(v, 1 .. n + 1)
  <2>1. Evidence(t)' = Product([i \in 1 .. Len(trace') |-> table'[trace'[i].question][trace'[i].answer][t]])
    BY DEF Evidence
  <2>2. Evidence(t)' = Product(v)
    BY <1>2, <1>3, <2>1
  <2> QED BY <1>9, <2>2, ProductIsOnSet
<1> HIDE DEF w, v
<1>12. n + 1 \in 1 .. n + 1 /\ (1 .. n + 1) \ {n + 1} = 1 .. n
       /\ IsFiniteSet(1 .. n) /\ IsFiniteSet(1 .. n + 1)
  <2>1. n + 1 \in 1 .. n + 1 /\ (1 .. n + 1) \ {n + 1} = 1 .. n
    BY <1>1
  <2>2. 1 \in Int /\ n \in Int /\ n + 1 \in Int
    BY <1>1
  <2> HIDE DEF n
  <2> QED BY <2>1, <2>2, FS_Interval
<1>13. ProductOnSet(v, 1 .. n) = ProductOnSet(w, 1 .. n)
  <2>1. 1 .. n \in SUBSET (1 .. n + 1) /\ 1 .. n \subseteq 1 .. n
    BY <1>1
  <2>2. PICK S, R : S = 1 .. n + 1 /\ R = 1 .. n
    OBVIOUS
  <2>3. /\ IsFiniteSet(S) /\ IsFiniteSet(R) /\ v \in [S -> Nat] /\ w \in [R -> Nat]
        /\ R \in SUBSET S /\ R \subseteq R /\ \A x \in R : v[x] = w[x]
    BY <1>5, <1>6, <1>8, <1>12, <2>1, <2>2
  <2>4. ProductOnSet(v, R) = ProductOnSet(w, R)
    BY <2>3, ProductAgrees
  <2> QED BY <2>2, <2>4
<1>14. ProductOnSet(v, 1 .. n + 1) = v[n + 1] * ProductOnSet(v, 1 .. n) /\ ProductOnSet(v, 1 .. n) \in Nat
  <2> DEFINE S == 1 .. n + 1
  <2>1. \A x \in S : ProductOnSet(v, S \ {x}) \in Nat /\ ProductOnSet(v, S) = v[x] * ProductOnSet(v, S \ {x})
    <3> HIDE DEF S
    <3>1. IsFiniteSet(S) /\ v \in [S -> Nat] /\ S \in SUBSET S
      BY <1>8, <1>12 DEF S
    <3> QED BY <3>1, ProductTakes
  <2> QED BY <1>12, <2>1
<1> QED BY <1>7, <1>10, <1>11, <1>13, <1>14

\* What the tables and the belief hold along the way: the tables pass the validation and
\* the belief is the evidence.
Kept ==
    /\ EvidenceKept
    /\ pc = "validate" => PositiveValues /\ Normalized

\* Without an answer nothing is known.
LEMMA NoEvidence == ASSUME trace = <<>>, NEW t \in Target PROVE Evidence(t) = 1
<1> DEFINE w == [i \in 1 .. Len(trace) |-> table[trace[i].question][trace[i].answer][t]]
<1>1. 1 .. Len(trace) = {}
  OBVIOUS
<1>2. DOMAIN w = {}
  BY <1>1
<1>3. Evidence(t) = ProductOnSet(w, {})
  BY <1>2, ProductIsOnSet DEF Evidence
<1>4. w \in [{} -> Nat]
  BY <1>1
<1> HIDE DEF w
<1> QED BY <1>3, <1>4, FS_EmptySet, ProductTakes

LEMMA InitKept == Init => Kept
<1> SUFFICES ASSUME Init PROVE Kept
  OBVIOUS
<1>1. \A t \in Target : Evidence(t) = 1
  BY NoEvidence DEF Init
<1> QED BY <1>1 DEF Init, Kept, EvidenceKept

LEMMA NextKept == IInv /\ Kept /\ [Next]_vars => Kept'
<1> SUFFICES ASSUME IInv, Kept, [Next]_vars PROVE Kept'
  OBVIOUS
<1>1. ASSUME trace' = trace, trace = <<>>
      PROVE  \A t \in Target : Evidence(t)' = 1
  <2> SUFFICES ASSUME NEW t \in Target PROVE Evidence(t)' = 1
    OBVIOUS
  <2> DEFINE w == [i \in 1 .. Len(trace') |-> table'[trace'[i].question][trace'[i].answer][t]]
  <2>1. Len(trace') = 0 /\ 1 .. Len(trace') = {}
    BY <1>1
  <2>2. DOMAIN w = {}
    BY <2>1
  <2>3. Evidence(t)' = ProductOnSet(w, {})
    BY <2>2, ProductIsOnSet DEF Evidence
  <2>4. w \in [{} -> Nat]
    BY <2>1
  <2> HIDE DEF w
  <2> QED BY <2>3, <2>4, FS_EmptySet, ProductTakes
<1>2. ASSUME UNCHANGED <<table, belief, recoveries, trace>>, pc' # "refused", pc' # "validate" \/ pc' = pc
      PROVE  Kept'
  <2>1. \A t \in Target : Evidence(t)' = Evidence(t)
    BY <1>2, Zenon DEF Evidence
  <2>2. EvidenceKept'
    BY <1>2, <2>1 DEF Kept, EvidenceKept
  <2>3. pc' = "validate" => (PositiveValues /\ Normalized)'
    BY <1>2, Zenon DEF Kept, PositiveValues, Normalized
  <2> QED BY <2>2, <2>3 DEF Kept
<1>3. CASE Seed
  <2>1. authored \in Authored
    BY DEF IInv, TypeOK
  <2>2. PositiveValues' /\ Normalized'
    BY <1>3, <2>1, SeedIsValid
  <2>3. trace = <<>> /\ trace' = trace /\ belief' = belief /\ recoveries' = recoveries /\ pc' = "validate"
    BY <1>3 DEF IInv, NotBegun, Seed, counters
  <2>4. \A t \in Target : belief[t] = 1
    BY <2>3, NoEvidence DEF Kept, EvidenceKept
  <2> QED BY <1>1, <2>2, <2>3, <2>4 DEF Kept, EvidenceKept
<1>4. CASE Validate
  <2>1. trace = <<>> /\ trace' = trace /\ recoveries' = recoveries
    BY <1>4 DEF IInv, NotBegun, Validate, counters
  <2>2. pc' = "ask" /\ \A t \in Target : belief'[t] = 1
    BY <1>4 DEF Kept, Validate
  <2> QED BY <1>1, <2>1, <2>2 DEF Kept, EvidenceKept
<1>5. ASSUME NEW a \in Answer, Take(a), pc = "answer" PROVE Kept'
  <2>1. belief' = Updated(belief, table[current][a]) /\ recoveries' = recoveries
    BY <1>5, TakeUpdates
  <2>2. ASSUME NEW t \in Target PROVE belief'[t] = Evidence(t)'
    <3>1. Evidence(t)' = Evidence(t) * table[current][a][t]
      BY <1>5, EvidenceGrows
    <3>2. belief'[t] = belief[t] * table[current][a][t]
      BY <2>1 DEF Updated
    <3> QED BY <3>1, <3>2 DEF Kept, EvidenceKept
  <2>3. pc' \in {"conclude", "ask"}
    BY <1>5 DEF Take
  <2> QED BY <2>1, <2>2, <2>3 DEF Kept, EvidenceKept
<1>6. CASE Ask
  BY <1>2, <1>6 DEF Ask, tables, counters
<1>7. CASE ReadAnswer
  <2>1. pc = "answer"
    BY <1>7 DEF ReadAnswer
  <2>2. PICK i \in Input : Take(IF i \in Answer THEN i ELSE Idk)
    BY <1>7 DEF ReadAnswer
  <2>3. (IF i \in Answer THEN i ELSE Idk) \in Answer
    BY InterviewAssumption
  <2> QED BY <1>5, <2>1, <2>2, <2>3
<1>8. CASE UnreadableInput
  BY <1>5, <1>8, InterviewAssumption DEF UnreadableInput
<1>9. CASE Conclude
  BY <1>2, <1>9 DEF Conclude, tables, counters
<1>10. CASE UNCHANGED vars
  BY <1>2, <1>10 DEF Kept, EvidenceKept, vars, tables, counters
<1> QED BY <1>3, <1>4, <1>6, <1>7, <1>8, <1>9, <1>10 DEF Next

-----------------------------------------------------------------------------
(* Theorems.                                                               *)

\* Type correctness: in particular the counters stay within their limits, and no
\* target is ever ruled out for good by the answers of run_20q_demo.
THEOREM TypeCorrect == Spec => []TypeOK
<1>1. IInv => TypeOK
  BY DEF IInv
<1> QED
  BY <1>1, InvariantHolds, PTL

\* The verdict of run_20q_demo: the novelty the trace notes is the one found at the
\* end, a verdict without novelty is a confident one, and no question was put twice
\* or beyond the budget, whatever the player types and whatever the tables hold.
THEOREM VerdictIsHonest == Spec => []NoveltyHonest
<1>1. IInv => NoveltyHonest
  <2> SUFFICES ASSUME IInv, pc \in {"conclude", "done"} PROVE NoveltyHonest
    BY DEF NoveltyHonest
  <2>1. /\ Len(trace) = Cardinality(asked)
        /\ Len(trace) <= MaxQuestions
        /\ noted = Triggered(belief, Cardinality(asked), idkAnswers, recoveries)
        /\ Strong(belief) \/ BudgetHit(Cardinality(asked)) \/ noted
    BY DEF IInv, InStep, Stopped
  <2>2. noted \/ Strong(belief) \/ (~Weak(belief) /\ ~Diffuse(belief))
    BY <2>1 DEF Triggered
  <2> QED
    BY <2>1, <2>2 DEF IInv, TraceOfAsked, NoveltyHonest
<1> QED
  BY <1>1, InvariantHolds, PTL

\* A belief is never reset to the priors: once the tables have passed the validation
\* BeliefState::update never recovers, and every step of it is a Bayes update.
THEOREM NeverRecovers == Spec => [][recoveries' = recoveries]_vars
<1>1. IInv /\ [Next]_vars => [recoveries' = recoveries]_vars
  <2> SUFFICES ASSUME IInv, Next PROVE recoveries' = recoveries
    OBVIOUS
  <2>1. CASE ReadAnswer
    <3>1. pc = "answer"
      BY <2>1 DEF ReadAnswer
    <3>2. PICK i \in Input : Take(IF i \in Answer THEN i ELSE Idk)
      BY <2>1 DEF ReadAnswer
    <3>3. (IF i \in Answer THEN i ELSE Idk) \in Answer
      BY InterviewAssumption
    <3> QED
      BY <3>1, <3>2, <3>3, TakeUpdates
  <2>2. CASE UnreadableInput
    <3>1. pc = "answer" /\ Take(Idk)
      BY <2>2 DEF UnreadableInput
    <3> QED
      BY <3>1, InterviewAssumption, TakeUpdates
  <2> QED
    BY <2>1, <2>2 DEF Next, Seed, Validate, Ask, Conclude, counters
<1> QED
  BY <1>1, InvariantHolds, PTL DEF Spec

\* The tables that seed_identity_v1_domain makes always pass the validation, and from then
\* on the belief is the product of the likelihoods of all the answers: Bayes' rule, with no
\* answer forgotten or used twice, for any authored weights, questions and answers.
THEOREM BeliefIsEvidence == Spec => []EvidenceKept
<1>1. Kept => EvidenceKept
  BY DEF Kept
<1> QED
  BY <1>1, InvariantHolds, InitKept, NextKept, PTL DEF Spec
=============================================================================
