---------------------- MODULE HungarianAssignment_proofs ----------------------
(***************************************************************************)
(* Proofs about HungarianAssignment, for matrices of any size and any      *)
(* costs, whichever branch of hungarian_assignment runs.                   *)
(***************************************************************************)
EXTENDS HungarianAssignment, DataTheorems

-------------------------------------------------------------------------------
(* The inductive invariant.                                                *)

\* The matrix is finite and does not change; what is collected comes from it.
MatrixOK ==
  /\ IsFiniteSet(rows) /\ IsFiniteSet(cols)
  /\ cost \in [Entries -> Nat]
  /\ scipy \in BOOLEAN
  /\ examined \subseteq Entries

\* What is collected is a matching within the threshold, whenever the call stops.
GatedSoFar ==
  /\ IsMatching(matches, rows, cols)
  /\ \A p \in matches : cost[p] <= Threshold

\* The entries two matches could be exchanged for.
Shares(p, m) == m[1] = p[1] \/ m[2] = p[2]

\* Entry p is settled: a match that costs no more has its row or its column.
IsSettled(p) == \E m \in matches : Shares(p, m) /\ cost[m] <= cost[p]

\* The greedy loop goes up: an entry it has examined is settled if it is affordable,
\* and one it has not examined costs at least what any match costs.
GreedyGoesUp ==
  /\ \A p \in examined : cost[p] <= Threshold => IsSettled(p)
  /\ \A m \in matches, q \in Entries \ examined : cost[m] <= cost[q]

\* What each point of the program may rely on.
PhaseOK ==
  /\ pc = "call" => matches = {} /\ examined = {}
  /\ pc = "greedy" => ~scipy /\ GreedyGoesUp

Inductive ==
  /\ MatrixOK /\ GatedSoFar /\ PhaseOK
  /\ GreedyIsStable /\ NoCheaperSwap

-------------------------------------------------------------------------------
(* An optimal assignment cannot be improved by an exchange.                *)

\* P with the columns of two of its pairs exchanged.
Swapped(P, p, q) == (P \ {p, q}) \cup {<<p[1], q[2]>>, <<q[1], p[2]>>}

\* It is an assignment of the same size, of P's other pairs and two new ones.
LEMMA SwapStaysFull ==
  ASSUME NEW R, NEW C, IsFiniteSet(R \X C), NEW P \in FullMatchings(R, C),
         NEW p \in P, NEW q \in P, p # q
  PROVE  /\ Swapped(P, p, q) \in FullMatchings(R, C)
         /\ <<p[1], q[2]>> \notin P /\ <<q[1], p[2]>> \notin P
         /\ <<p[1], q[2]>> # <<q[1], p[2]>>
<1> DEFINE a == <<p[1], q[2]>>
           b == <<q[1], p[2]>>
<1>1. /\ P \subseteq R \X C
      /\ \A x, y \in P : x[1] = y[1] \/ x[2] = y[2] => x = y
      /\ Cardinality(P) = Min({Cardinality(R), Cardinality(C)})
  BY DEF FullMatchings, IsMatching
<1>2. p[1] # q[1] /\ p[2] # q[2]
  BY <1>1
<1>3. /\ p = <<p[1], p[2]>> /\ q = <<q[1], q[2]>>
      /\ p[1] \in R /\ q[1] \in R /\ p[2] \in C /\ q[2] \in C
  BY <1>1
<1>4. a \in R \X C /\ b \in R \X C
  BY <1>3
<1>5. a # b /\ a \notin P /\ b \notin P
  <2>1. a[1] = p[1] /\ a[2] = q[2] /\ b[1] = q[1] /\ b[2] = p[2]
    OBVIOUS
  <2> HIDE DEF a, b
  <2> QED
    BY <1>1, <1>2, <2>1
<1>6. IsMatching(Swapped(P, p, q), R, C)
  <2>1. Swapped(P, p, q) \subseteq R \X C
    BY <1>1, <1>4 DEF Swapped
  <2>2. ASSUME NEW x \in Swapped(P, p, q), NEW y \in Swapped(P, p, q), x[1] = y[1] \/ x[2] = y[2]
        PROVE  x = y
    <3>1. /\ x \in P \ {p, q} \/ x = a \/ x = b
          /\ y \in P \ {p, q} \/ y = a \/ y = b
      BY DEF Swapped
    <3>2. a[1] = p[1] /\ a[2] = q[2] /\ b[1] = q[1] /\ b[2] = p[2]
      OBVIOUS
    <3> HIDE DEF a, b
    <3>3. CASE x \in P \ {p, q} /\ y \in P \ {p, q}
      BY <1>1, <2>2, <3>3
    <3>4. CASE x \in P \ {p, q} /\ (y = a \/ y = b)
      BY <1>1, <2>2, <3>2, <3>4
    <3>5. CASE y \in P \ {p, q} /\ (x = a \/ x = b)
      BY <1>1, <2>2, <3>2, <3>5
    <3>6. CASE (x = a \/ x = b) /\ (y = a \/ y = b)
      BY <1>2, <2>2, <3>2, <3>6
    <3> QED
      BY <3>1, <3>3, <3>4, <3>5, <3>6
  <2> QED
    BY <2>1, <2>2 DEF IsMatching
<1>7. Cardinality(Swapped(P, p, q)) = Cardinality(P)
  <2> HIDE DEF a, b
  <2>1. IsFiniteSet(P) /\ Cardinality(P) \in Nat
    BY <1>1, FS_Subset, FS_CardinalityType
  <2>2. IsFiniteSet(P \ {p}) /\ Cardinality(P \ {p}) = Cardinality(P) - 1
    BY <2>1, FS_RemoveElement
  <2>3. IsFiniteSet((P \ {p}) \ {q}) /\ Cardinality((P \ {p}) \ {q}) = Cardinality(P) - 2
    <3>1. PICK S : S = P \ {p}
      OBVIOUS
    <3>2. IsFiniteSet(S) /\ q \in S /\ Cardinality(S) = Cardinality(P) - 1
      BY <2>2, <3>1
    <3>3. IsFiniteSet(S \ {q}) /\ Cardinality(S \ {q}) = Cardinality(S) - 1
      BY <3>2, FS_RemoveElement
    <3> QED
      BY <2>1, <3>1, <3>2, <3>3
  <2> DEFINE rest == (P \ {p}) \ {q}
  <2>4. a \notin rest /\ b \notin rest \cup {a}
    BY <1>5
  <2>5. Swapped(P, p, q) = (rest \cup {a}) \cup {b}
    BY DEF Swapped, a, b
  <2> HIDE DEF rest
  <2>6. IsFiniteSet(rest \cup {a}) /\ Cardinality(rest \cup {a}) = Cardinality(rest) + 1
    BY <2>3, <2>4, FS_AddElement DEF rest
  <2>7. Cardinality((rest \cup {a}) \cup {b}) = Cardinality(rest \cup {a}) + 1
    BY <2>4, <2>6, FS_AddElement
  <2> QED
    BY <2>1, <2>3, <2>5, <2>6, <2>7 DEF rest
<1> QED
  BY <1>1, <1>5, <1>6, <1>7 DEF FullMatchings, IsMatching

\* So no exchange makes the assignment that scipy returns cheaper.
LEMMA OptimalAgainstSwaps ==
  ASSUME NEW R, NEW C, IsFiniteSet(R \X C), NEW w, Weighs(w, R \X C),
         NEW P \in LinearSumAssignment(w, R, C), NEW p \in P, NEW q \in P
  PROVE  w[p] + w[q] <= w[<<p[1], q[2]>>] + w[<<q[1], p[2]>>]
<1>1. P \in FullMatchings(R, C) /\ P \subseteq R \X C
  BY DEF LinearSumAssignment, FullMatchings
<1>2. /\ p = <<p[1], p[2]>> /\ q = <<q[1], q[2]>>
      /\ p[1] \in R /\ q[1] \in R /\ p[2] \in C /\ q[2] \in C
  BY <1>1
<1>3. PICK a, b : a = <<p[1], q[2]>> /\ b = <<q[1], p[2]>>
  OBVIOUS
<1>4. PICK wp, wq, wa, wb \in Int : wp = w[p] /\ wq = w[q] /\ wa = w[a] /\ wb = w[b]
  BY <1>1, <1>2, <1>3 DEF Weighs
<1>5. CASE p = q
  BY <1>2, <1>3, <1>4, <1>5
<1>6. CASE p # q
  <2> DEFINE Q == Swapped(P, p, q)
             rest == (P \ {p}) \ {q}
  <2>1. Q \in FullMatchings(R, C) /\ a \notin P /\ b \notin P /\ a # b
    BY <1>1, <1>3, <1>6, SwapStaysFull
  <2>2. TotalCost(w, P) <= TotalCost(w, Q)
    BY <2>1 DEF LinearSumAssignment
  <2>3. Q \subseteq R \X C
    BY <2>1 DEF FullMatchings
  <2>4. a \in Q /\ b \in Q \ {a} /\ (Q \ {a}) \ {b} = rest
    BY <1>3, <2>1 DEF Swapped
  <2> HIDE DEF Q, rest
  <2>5. \A S \in SUBSET (R \X C) : /\ TotalCost(w, S) \in Int
                                 /\ \A x \in S : TotalCost(w, S) = w[x] + TotalCost(w, S \ {x})
    <3> SUFFICES ASSUME NEW S \in SUBSET (R \X C)
                 PROVE  /\ TotalCost(w, S) \in Int
                        /\ \A x \in S : TotalCost(w, S) = w[x] + TotalCost(w, S \ {x})
      OBVIOUS
    <3>1. IsFiniteSet(S) /\ Weighs(w, S)
      BY FS_Subset DEF Weighs
    <3> QED
      BY <3>1, TotalCostSplits
  <2>6. TotalCost(w, P) = wp + (wq + TotalCost(w, rest))
    <3>1. q \in P \ {p} /\ P \ {p} \in SUBSET (R \X C)
      BY <1>1, <1>6
    <3>2. TotalCost(w, P) = w[p] + TotalCost(w, P \ {p})
      BY <1>1, <2>5
    <3>3. TotalCost(w, P \ {p}) = w[q] + TotalCost(w, rest)
      BY <2>5, <3>1 DEF rest
    <3> QED
      BY <1>4, <3>2, <3>3
  <2>7. TotalCost(w, Q) = wa + (wb + TotalCost(w, rest))
    <3>1. Q \ {a} \in SUBSET (R \X C)
      BY <2>3
    <3>2. TotalCost(w, Q) = w[a] + TotalCost(w, Q \ {a})
      BY <2>3, <2>4, <2>5
    <3>3. TotalCost(w, Q \ {a}) = w[b] + TotalCost(w, rest)
      BY <2>4, <2>5, <3>1
    <3> QED
      BY <1>4, <3>2, <3>3
  <2>8. TotalCost(w, rest) \in Int
    BY <1>1, <2>5 DEF rest
  <2>9. wp + (wq + TotalCost(w, rest)) <= wa + (wb + TotalCost(w, rest))
    BY <2>2, <2>6, <2>7
  <2>10. wp + wq <= wa + wb
    BY <2>8, <2>9
  <2> QED
    BY <1>3, <1>4, <2>10
<1> QED
  BY <1>5, <1>6

-------------------------------------------------------------------------------
(* The call.                                                               *)

LEMMA InitInductive == Init => Inductive
<1> SUFFICES ASSUME Init PROVE Inductive
  OBVIOUS
<1>1. PICK m \in 0..MaxRows, n \in 0..MaxCols : rows = 1..m /\ cols = 1..n
  BY DEF Init
<1>2. IsFiniteSet(rows) /\ IsFiniteSet(cols)
  BY <1>1, SizesAssumption, FS_Interval
<1>3. cost \in [Entries -> Nat]
  BY CostsAssumption DEF Init, Entries
<1>4. /\ scipy \in BOOLEAN /\ pc = "call" /\ examined = {} /\ matches = {}
  BY DEF Init
<1> QED
  BY <1>2, <1>3, <1>4 DEF Inductive, MatrixOK, GatedSoFar, IsMatching, PhaseOK, GreedyIsStable,
                          NoCheaperSwap

\* No step disturbs the matrix.
LEMMA MatrixStays ==
  ASSUME Inductive, [Next]_vars
  PROVE  MatrixOK' /\ Entries' = Entries
<1>1. UNCHANGED args
  BY DEF Next, ReturnEmpty, FilterOptimal, StartGreedy, SkipTaken, StopAtThreshold, TakeCheapest,
         ExhaustEntries, Returned, vars, args
<1>2. examined' = examined \/ \E p \in Entries : examined' = examined \cup {p}
  BY DEF Next, ReturnEmpty, FilterOptimal, StartGreedy, SkipTaken, StopAtThreshold, TakeCheapest,
         ExhaustEntries, Returned, vars
<1> QED
  BY <1>1, <1>2 DEF Inductive, MatrixOK, Entries, args

LEMMA FilterOptimalStep ==
  ASSUME Inductive, FilterOptimal
  PROVE  GatedSoFar' /\ PhaseOK' /\ GreedyIsStable' /\ NoCheaperSwap'
<1>1. UNCHANGED args /\ pc' = "done" /\ scipy
  BY DEF FilterOptimal
<1>2. PICK P \in LinearSumAssignment(cost, rows, cols) :
        matches' = {p \in P : cost[p] <= Threshold}
  BY DEF FilterOptimal, Optimal
<1>3. IsMatching(P, rows, cols)
  BY DEF LinearSumAssignment, FullMatchings
<1>4. GatedSoFar'
  BY <1>1, <1>2, <1>3 DEF GatedSoFar, IsMatching, args
<1>5. NoCheaperSwap'
  <2> SUFFICES ASSUME NEW p \in matches', NEW q \in matches'
               PROVE  cost[p] + cost[q] <= cost[<<p[1], q[2]>>] + cost[<<q[1], p[2]>>]
    BY <1>1 DEF NoCheaperSwap, args
  <2>1. IsFiniteSet(rows \X cols) /\ Weighs(cost, rows \X cols)
    BY FS_Product DEF Inductive, MatrixOK, Entries, Weighs
  <2>2. p \in P /\ q \in P
    BY <1>2
  <2> QED
    BY <2>1, <2>2, OptimalAgainstSwaps
<1> QED
  BY <1>1, <1>4, <1>5 DEF PhaseOK, GreedyIsStable, args

\* Taking the cheapest entry that is left and free keeps the matching, and settles it.
LEMMA TakeCheapestStep ==
  ASSUME Inductive, TakeCheapest
  PROVE  GatedSoFar' /\ PhaseOK' /\ GreedyIsStable' /\ NoCheaperSwap'
<1>1. UNCHANGED args /\ pc = "greedy" /\ pc' = "greedy" /\ ~scipy /\ GreedyGoesUp
  BY DEF TakeCheapest, Inductive, PhaseOK
<1>2. PICK p \in Entries : /\ IsCheapestLeft(p) /\ ~IsTaken(p) /\ cost[p] <= Threshold
                           /\ matches' = matches \cup {AsPair(p)}
                           /\ examined' = examined \cup {p}
  BY DEF TakeCheapest
<1>3. AsPair(p) = p
  BY DEF AsPair, Entries
<1>4. matches \subseteq Entries /\ \A x, y \in matches : x[1] = y[1] \/ x[2] = y[2] => x = y
  BY DEF Inductive, GatedSoFar, IsMatching, Entries
<1>5. GatedSoFar'
  <2>1. IsMatching(matches', rows, cols)
    <3>1. \A m \in matches : m[1] # p[1] /\ m[2] # p[2]
      BY <1>2 DEF IsTaken
    <3> QED
      BY <1>2, <1>3, <1>4, <3>1 DEF IsMatching, Entries
  <2>2. \A m \in matches' : cost[m] <= Threshold
    BY <1>2, <1>3 DEF Inductive, GatedSoFar
  <2> QED
    BY <1>1, <2>1, <2>2 DEF GatedSoFar, args
<1>6. \A q \in Entries \ examined : cost[p] <= cost[q]
  BY <1>2 DEF IsCheapestLeft
<1>7. \A q \in examined' : cost[q] <= Threshold =>
        \E m \in matches' : Shares(q, m) /\ cost[m] <= cost[q]
  <2> SUFFICES ASSUME NEW q \in examined', cost[q] <= Threshold
               PROVE  \E m \in matches' : Shares(q, m) /\ cost[m] <= cost[q]
    OBVIOUS
  <2>1. CASE q \in examined
    BY <1>1, <1>2, <2>1 DEF GreedyGoesUp, IsSettled
  <2>2. CASE q = p
    BY <1>2, <1>3, <2>2 DEF Shares, Inductive, MatrixOK
  <2> QED
    BY <1>2, <2>1, <2>2
<1>8. \A m \in matches', q \in Entries \ examined' : cost[m] <= cost[q]
  BY <1>1, <1>2, <1>3, <1>6 DEF GreedyGoesUp
<1>9. GreedyGoesUp'
  BY <1>1, <1>7, <1>8 DEF GreedyGoesUp, IsSettled, Entries, args, Shares
<1> QED
  BY <1>1, <1>5, <1>9 DEF PhaseOK, GreedyIsStable, NoCheaperSwap, args

\* Skipping an entry settles it: the match it collides with was examined before.
LEMMA SkipTakenStep ==
  ASSUME Inductive, SkipTaken
  PROVE  GatedSoFar' /\ PhaseOK' /\ GreedyIsStable' /\ NoCheaperSwap'
<1>1. UNCHANGED <<args, pc, matches>> /\ pc = "greedy" /\ ~scipy /\ GreedyGoesUp
  BY DEF SkipTaken, Inductive, PhaseOK
<1>2. PICK p \in Entries : IsCheapestLeft(p) /\ IsTaken(p) /\ examined' = examined \cup {p}
  BY DEF SkipTaken
<1>3. PICK m \in matches : m[1] = p[1] \/ m[2] = p[2]
  BY <1>2 DEF IsTaken
<1>4. cost[m] <= cost[p]
  BY <1>1, <1>2 DEF GreedyGoesUp, IsCheapestLeft
<1>5. IsSettled(p)
  BY <1>3, <1>4 DEF IsSettled, Shares
<1>6. GatedSoFar'
  BY <1>1 DEF Inductive, GatedSoFar, IsMatching, args
<1>7. /\ \A q \in examined' : cost[q] <= Threshold => IsSettled(q)
      /\ \A n \in matches, q \in Entries \ examined' : cost[n] <= cost[q]
  BY <1>1, <1>2, <1>5 DEF GreedyGoesUp
<1>8. GreedyGoesUp'
  BY <1>1, <1>7 DEF GreedyGoesUp, IsSettled, Entries, args, Shares
<1> QED
  BY <1>1, <1>6, <1>8 DEF PhaseOK, GreedyIsStable, NoCheaperSwap, args

\* Where the loop ends every affordable entry has been examined.
LEMMA GreedyEnds ==
  ASSUME Inductive, StopAtThreshold \/ ExhaustEntries
  PROVE  GatedSoFar' /\ PhaseOK' /\ GreedyIsStable' /\ NoCheaperSwap'
<1>1. UNCHANGED <<args, examined, matches>> /\ pc' = "done" /\ ~scipy /\ GreedyGoesUp
  BY DEF StopAtThreshold, ExhaustEntries, Inductive, PhaseOK
<1>2. \A q \in Entries : cost[q] <= Threshold => q \in examined
  <2>1. CASE ExhaustEntries
    BY <2>1 DEF ExhaustEntries
  <2>2. CASE StopAtThreshold
    <3>1. PICK p \in Entries : cost[p] > Threshold /\ \A q \in Entries \ examined : cost[p] <= cost[q]
      BY <2>2 DEF StopAtThreshold, IsCheapestLeft
    <3>2. \A q \in Entries : cost[q] \in Nat
      BY DEF Inductive, MatrixOK
    <3> QED
      BY <3>1, <3>2, CostsAssumption
  <2> QED
    BY <2>1, <2>2
<1>3. GatedSoFar'
  BY <1>1 DEF Inductive, GatedSoFar, IsMatching, args
<1>4. GreedyIsStable'
  BY <1>1, <1>2 DEF GreedyIsStable, GreedyGoesUp, IsSettled, Shares, Entries, args
<1> QED
  BY <1>1, <1>3, <1>4 DEF PhaseOK, NoCheaperSwap, args

LEMMA NextInductive == Inductive /\ [Next]_vars => Inductive'
<1> SUFFICES ASSUME Inductive, [Next]_vars PROVE Inductive'
  OBVIOUS
<1>1. MatrixOK' /\ Entries' = Entries
  BY MatrixStays
<1>2. CASE ReturnEmpty
  <2>1. UNCHANGED <<args, matches, examined>> /\ pc' = "done" /\ matches = {} /\ Entries = {}
    BY <1>2 DEF ReturnEmpty, Inductive, PhaseOK
  <2> QED
    BY <1>1, <2>1 DEF Inductive, GatedSoFar, IsMatching, PhaseOK, GreedyIsStable, NoCheaperSwap
<1>3. CASE StartGreedy
  <2>1. UNCHANGED <<args, matches, examined>> /\ pc' = "greedy" /\ ~scipy
        /\ matches = {} /\ examined = {}
    BY <1>3 DEF StartGreedy, Inductive, PhaseOK
  <2>2. GreedyGoesUp'
    BY <2>1 DEF GreedyGoesUp
  <2> QED
    BY <1>1, <2>1, <2>2 DEF Inductive, GatedSoFar, IsMatching, PhaseOK, GreedyIsStable,
                            NoCheaperSwap, args
<1>4. CASE UNCHANGED vars
  BY <1>4 DEF Inductive, MatrixOK, GatedSoFar, IsMatching, PhaseOK, GreedyIsStable, NoCheaperSwap,
              GreedyGoesUp, IsSettled, Shares, Entries, vars
<1>5. CASE FilterOptimal
  BY <1>1, <1>5, FilterOptimalStep DEF Inductive
<1>6. CASE TakeCheapest
  BY <1>1, <1>6, TakeCheapestStep DEF Inductive
<1>7. CASE SkipTaken
  BY <1>1, <1>7, SkipTakenStep DEF Inductive
<1>8. CASE StopAtThreshold \/ ExhaustEntries
  BY <1>1, <1>8, GreedyEnds DEF Inductive
<1> QED
  BY <1>2, <1>3, <1>4, <1>5, <1>6, <1>7, <1>8 DEF Next, Returned

\* The inductive invariant holds throughout the call.
LEMMA CallInvariant == Spec => []Inductive
BY InitInductive, NextInductive, PTL DEF Spec

\* Whichever branch of hungarian_assignment runs, what it has collected is one-to-one and
\* within the threshold, and what it returns is an outcome that BotSort and
\* ConflictResolver reckon with: their choice of any matching loses no behaviour.
THEOREM ReturnsGatedMatching == Spec => []ResultIsGatedMatching
<1>1. Inductive => ResultIsGatedMatching
  BY PairsMakeMatching DEF Inductive, GatedSoFar, ResultIsGatedMatching
<1> QED
  BY <1>1, CallInvariant, PTL

\* _greedy_assignment, for costs with any ties: whoever could have been paired within the
\* threshold and was not has lost to a pair that costs no more.
THEOREM GreedyFallbackIsStable == Spec => []GreedyIsStable
<1>1. Inductive => GreedyIsStable
  BY DEF Inductive
<1> QED
  BY <1>1, CallInvariant, PTL

\* With scipy, no exchange of the detections of two returned pairs is cheaper, for any
\* matrix: the threshold only removes pairs, so that the optimum of the whole assignment
\* carries over to any two pairs that stay.
THEOREM FilteredOptimumAdmitsNoSwap == Spec => []NoCheaperSwap
<1>1. Inductive => NoCheaperSwap
  BY DEF Inductive
<1> QED
  BY <1>1, CallInvariant, PTL
===============================================================================
