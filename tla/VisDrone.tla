------------------------------- MODULE VisDrone -------------------------------
(***************************************************************************)
(* The VisDrone MOT directory that the scripts under src/scripts read: a   *)
(* folder of numbered images and an annotation file for each sequence.     *)
(* Sequences are numbered in the order of their names.                     *)
(***************************************************************************)
EXTENDS Integers, FiniteSets, Sequences, TLC, SequencesExt, FiniteSetsExt

CONSTANT NumSequences  \* the folders in sequences/

ASSUME SequencesAssumption == NumSequences \in Nat \ {0}

(* A data set, as a record: for each sequence its annotation lines ("lines"), its images
   ("images"), by their numbers, those of them that cannot be decoded ("unreadable"), those
   of another size ("odd") and those whose name is not a number after all ("misnamed");
   and the sequences without an annotation file ("noFile").  A line gives frame, target
   and category, and whether the box is too small ("tiny"), hidden by half or more
   ("hidden") or off the image ("outside").                                              *)
VARIABLE input

SequenceNames == 1..NumSequences

Lines == [frame : Nat \ {0}, target : Nat, category : Nat, tiny : BOOLEAN, hidden : BOOLEAN, outside : BOOLEAN]

IsDataSet(d) ==
  /\ d.lines \in [SequenceNames -> SUBSET Lines] /\ d.images \in [SequenceNames -> SUBSET Nat]
  /\ d.unreadable \in [SequenceNames -> SUBSET Nat] /\ d.odd \in [SequenceNames -> SUBSET Nat]
  /\ d.misnamed \in [SequenceNames -> SUBSET Nat] /\ d.noFile \subseteq SequenceNames
  /\ \A s \in SequenceNames : IsFiniteSet(d.lines[s]) /\ IsFiniteSet(d.images[s])

\* VISEDRONE_TO_YOLO; the categories of VISDRONE_IGNORE are not in it.
YoloClass == 4 :> 0 @@ 5 :> 1 @@ 6 :> 2 @@ 7 :> 3 @@ 8 :> 3 @@ 9 :> 4 @@ 10 :> 5

HasAnnotations(s) == s \notin input.noFile

\* The lines of a vehicle whose box is not too small.  (No two lines of a file are for
\* the same target in the same frame.)
Labels(s) == {l \in input.lines[s] : l.category \in DOMAIN YoloClass /\ ~l.tiny}

\* A number's place in a set of numbers, counted from 0, and the number at a place.
PlaceIn(S, x) == Cardinality({y \in S : y < x})

AtPlace(S, k) == CHOOSE x \in S : PlaceIn(S, x) = k

\* Images in the order in which a sorted listing gives them.
SortedImages(s) ==
  [k \in 1..Cardinality(input.images[s]) |-> AtPlace(input.images[s], k - 1)]
===============================================================================
