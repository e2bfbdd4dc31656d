-------------------------- MODULE MC_ConflictResolver --------------------------
(* Instances of ConflictResolver for TLC. *)
EXTENDS ConflictResolver

CONSTANTS d1, d2  \* streams

\* One drone always listed first.
FixedOrder == {<<d1, d2>>}

\* The drones are listed as their messages arrive; a call may also name none or one.
AnyOrder == {<<>>, <<d1>>, <<d1, d2>>, <<d2, d1>>}
===============================================================================
