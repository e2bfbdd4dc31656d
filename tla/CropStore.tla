------------------------------- MODULE CropStore -------------------------------
(***************************************************************************)
(* What the preparation of the ReID crops promises: whoever does the work, *)
(* in whatever order and however often it breaks off, the store gains only *)
(* crops that belong in it, never loses one, and is said to be complete    *)
(* only when it is.                                                        *)
(***************************************************************************)
EXTENDS Integers

VARIABLES expected, \* the crops that the data set gives
          store,    \* those that are there
          complete  \* whether the work was reported to be done

storeVars == <<expected, store, complete>>

StoreInit == expected = {} /\ store = {} /\ complete = FALSE

Add ==
  /\ ~complete
  /\ \E crop \in expected : store' = store \cup {crop}
  /\ UNCHANGED <<expected, complete>>

Complete ==
  /\ store = expected
  /\ complete' = TRUE
  /\ UNCHANGED <<expected, store>>

\* The work is begun or taken up again, the store being kept.  What is expected is found
\* out the first time, and is the same ever after.
Open ==
  /\ expected # {} => expected' = expected
  /\ complete' = FALSE
  /\ UNCHANGED store

StoreNext == Add \/ Complete \/ Open

StoreSpec == StoreInit /\ [][StoreNext]_storeVars
===============================================================================
