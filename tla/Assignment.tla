------------------------------ MODULE Assignment ------------------------------
(***************************************************************************)
(* What tracking/matching.py promises its callers: a one-to-one pairing of *)
(* some rows of a cost matrix with some of its columns.  BotSort and       *)
(* ConflictResolver use Matchings, the set of all the results that some    *)
(* geometry can produce; HungarianAssignment models the code that picks    *)
(* one of them from the costs.                                             *)
(***************************************************************************)
EXTENDS Integers, FiniteSets, FiniteSetsExt

\* The injections of a subset of R into C: m[r] is the column given to row r,
\* and R \ DOMAIN m are the unmatched rows the code returns.
Matchings(R, C) == UNION {Injection(S, C) : S \in SUBSET R}

\* The same thing as the list of (row, column) pairs that the code returns.
IsMatching(pairs, R, C) ==
  /\ pairs \subseteq R \X C
  /\ \A p, q \in pairs : p[1] = q[1] \/ p[2] = q[2] => p = q

\* The function that such a list of pairs stands for.
AsFunction(pairs) ==
  [r \in {p[1] : p \in pairs} |-> CHOOSE c \in {p[2] : p \in pairs} : <<r, c>> \in pairs]

\* scipy.optimize.linear_sum_assignment: a pairing of the whole shorter side of
\* the matrix whose total cost is least.
FullMatchings(R, C) ==
  {P \in SUBSET (R \X C) :
     IsMatching(P, R, C) /\ Cardinality(P) = Min({Cardinality(R), Cardinality(C)})}

TotalCost(cost, P) == MapThenSumSet(LAMBDA p : cost[p], P)

LinearSumAssignment(cost, R, C) ==
  {P \in FullMatchings(R, C) :
     \A Q \in FullMatchings(R, C) : TotalCost(cost, P) <= TotalCost(cost, Q)}
===============================================================================
