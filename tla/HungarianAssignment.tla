------------------------- MODULE HungarianAssignment -------------------------
(***************************************************************************)
(* One call of hungarian_assignment(cost_matrix, threshold) of             *)
(* tracking/matching.py, which pairs tracks with detections and the tracks *)
(* of one drone with those of another.  It filters the optimal assignment  *)
(* of scipy by the threshold or, where scipy cannot be imported, walks the *)
(* entries of the matrix from the cheapest up (_greedy_assignment).        *)
(***************************************************************************)
EXTENDS Assignment

CONSTANTS MaxRows, MaxCols,  \* the largest matrix
          MaxCost,           \* costs are the ranks 0 .. MaxCost
          Threshold          \* the largest cost a returned pair may have

ASSUME SizesAssumption == MaxRows \in Nat /\ MaxCols \in Nat
ASSUME CostsAssumption == MaxCost \in Nat /\ Threshold \in Nat

VARIABLES rows, cols,   \* the index ranges of the matrix
          cost,         \* the matrix
          scipy,        \* whether the import of scipy succeeds
          pc,           \* "call", "greedy" (in the loop) or "done"
          examined,     \* the entries flat_idx has already yielded
          matches       \* the pairs collected so far

vars == <<rows, cols, cost, scipy, pc, examined, matches>>
args == <<rows, cols, cost, scipy>>

Entries == rows \X cols

Init ==
  /\ \E m \in 0..MaxRows, n \in 0..MaxCols : rows = 1..m /\ cols = 1..n
  /\ cost \in [rows \X cols -> 0..MaxCost]
  /\ scipy \in BOOLEAN
  /\ pc = "call"
  /\ examined = {}
  /\ matches = {}

\* An empty matrix: nothing is matched.
ReturnEmpty ==
  /\ pc = "call" /\ Entries = {}
  /\ pc' = "done"
  /\ UNCHANGED <<args, examined, matches>>

\* Slip: any pairing of the shorter side.
AnyPairing == FullMatchings(rows, cols)

\* What scipy may return.
Optimal == LinearSumAssignment(cost, rows, cols)

\* scipy is there: keep the pairs of its assignment that are cheap enough.
FilterOptimal ==
  /\ pc = "call" /\ Entries # {} /\ scipy
  /\ \E P \in Optimal :
       matches' = {p \in P : cost[p] <= Threshold}
  /\ pc' = "done"
  /\ UNCHANGED <<args, examined>>

\* It is not: fall back to the greedy loop.
StartGreedy ==
  /\ pc = "call" /\ Entries # {} /\ ~scipy
  /\ pc' = "greedy"
  /\ UNCHANGED <<args, examined, matches>>

\* Slip: the entries are not sorted.
IsLeft(p) == p \in Entries \ examined

\* The next entry of argsort: no entry left is cheaper; ties go either way.
IsCheapestLeft(p) ==
  /\ p \in Entries \ examined
  /\ \A q \in Entries \ examined : cost[p] <= cost[q]

\* Slip: used columns are not checked.
IsRowTaken(p) == \E m \in matches : m[1] = p[1]

\* r in used_rows or c in used_cols.
IsTaken(p) == \E m \in matches : m[1] = p[1] \/ m[2] = p[2]

\* divmod of a flat index: the row, then the column.
AsPair(p) == <<p[1], p[2]>>

\* continue: the row or the column of the entry is used.
SkipTaken ==
  /\ pc = "greedy"
  /\ \E p \in Entries : IsCheapestLeft(p) /\ IsTaken(p) /\ examined' = examined \cup {p}
  /\ UNCHANGED <<args, pc, matches>>

\* break: this entry, and so every later one, is too expensive.
StopAtThreshold ==
  /\ pc = "greedy"
  /\ \E p \in Entries : IsCheapestLeft(p) /\ ~IsTaken(p) /\ cost[p] > Threshold
  /\ pc' = "done"
  /\ UNCHANGED <<args, examined, matches>>

TakeCheapest ==
  /\ pc = "greedy"
  /\ \E p \in Entries :
       /\ IsCheapestLeft(p) /\ ~IsTaken(p) /\ cost[p] <= Threshold
       /\ matches' = matches \cup {AsPair(p)}
       /\ examined' = examined \cup {p}
  /\ UNCHANGED <<args, pc>>

\* The loop ran out of entries.
ExhaustEntries ==
  /\ pc = "greedy" /\ examined = Entries
  /\ pc' = "done"
  /\ UNCHANGED <<args, examined, matches>>

\* The call has returned; any other state with no step would be a stuck loop.
Returned == pc = "done" /\ UNCHANGED vars

Next ==
  \/ ReturnEmpty \/ FilterOptimal \/ StartGreedy
  \/ SkipTaken \/ StopAtThreshold \/ TakeCheapest \/ ExhaustEntries
  \/ Returned

Spec == Init /\ [][Next]_vars

-------------------------------------------------------------------------------
\* What both callers rely on, whichever branch ran: the pairs returned use no
\* track and no detection twice, and each is within the gate 1 - iou_threshold
\* (BoT-SORT) or 2.0 (fusion).  So the result is one of the outcomes that BotSort
\* and ConflictResolver choose from: abstracting the costs there loses no behaviour.
ResultIsGatedMatching ==
  /\ IsMatching(matches, rows, cols)
  /\ \A p \in matches : cost[p] <= Threshold
  /\ pc = "done" => AsFunction(matches) \in Matchings(rows, cols)

\* The greedy fallback leaves no affordable pair that both sides would prefer:
\* each affordable entry that was not returned shares its row or its column with
\* a returned entry that costs no more.
GreedyIsStable ==
  pc = "done" /\ ~scipy =>
    \A p \in Entries : cost[p] <= Threshold =>
      \E m \in matches : (m[1] = p[1] \/ m[2] = p[2]) /\ cost[m] <= cost[p]

\* With scipy no two returned pairs would be cheaper with their columns swapped:
\* filtering after the optimisation does not spoil it.  (A swap is what a viewer
\* sees as two vehicles exchanging their ids.)
NoCheaperSwap ==
  pc = "done" /\ scipy =>
    \A p, q \in matches :
      cost[p] + cost[q] <= cost[<<p[1], q[2]>>] + cost[<<q[1], p[2]>>]
===============================================================================
