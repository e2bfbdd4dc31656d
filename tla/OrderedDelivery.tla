---------------------------- MODULE OrderedDelivery ----------------------------
(***************************************************************************)
(* What the writer of observations promises, with no word of batches,      *)
(* queues or timers: the observations that reach it wait in the order of   *)
(* their publication and are settled from the oldest on, some at a time.   *)
(* Those settled together are stored together or not at all, never again,  *)
(* and unless they are stored their loss is reported.  Only when it is     *)
(* closed does it drop what waits without a word.                          *)
(***************************************************************************)
EXTENDS Integers

CONSTANT Items  \* the observations, numbered in the order of publication

VARIABLES next,     \* the number of the next to be published
          waiting,  \* those not yet settled
          table,    \* how often each is stored
          reported, \* those whose loss was reported
          open      \* it takes and settles observations

deliveryVars == <<next, waiting, table, reported, open>>

DeliveryInit ==
  /\ next = 1 /\ waiting = {}
  /\ table = [o \in Items |-> 0]
  /\ reported = {} /\ open = TRUE

\* Some are published, and wait or do not arrive.
Offer ==
  /\ next' >= next
  /\ waiting' = waiting \/ (open /\ waiting' = waiting \cup next..(next' - 1))
  /\ UNCHANGED <<table, reported, open>>

AreOldest(some) == \A o \in some, p \in waiting \ some : o < p

With(some) == [o \in Items |-> IF o \in some THEN table[o] + 1 ELSE table[o]]

\* The oldest are settled.  A loss may be reported though there was none.
Settle(some) ==
  /\ open /\ AreOldest(some)
  /\ waiting' = waiting \ some
  /\ \/ table' = With(some) /\ reported' \in {reported, reported \cup some}
     \/ table' = table /\ reported' = reported \cup some
  /\ UNCHANGED <<next, open>>

\* The last to be stored were on their way.
Close ==
  /\ open /\ open' = FALSE
  /\ waiting' = {}
  /\ \E some \in SUBSET waiting : AreOldest(some) /\ table' = With(some)
  /\ UNCHANGED <<next, reported>>

DeliveryNext == Offer \/ Close \/ \E some \in SUBSET waiting : Settle(some)

DeliverySpec == DeliveryInit /\ [][DeliveryNext]_deliveryVars
===============================================================================
