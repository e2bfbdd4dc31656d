------------------------------ MODULE MC_Pipeline ------------------------------
(* Instances of Pipeline for TLC. *)
EXTENDS Pipeline, TLC

CONSTANTS s1, s2  \* streams

OneOrTwoStreams == {<<s1>>, <<s1, s2>>}

OneStream == {<<s1>>}

Video(frames, fps, rawOpens) == [frames |-> frames, fps |-> fps, rawOpens |-> rawOpens]

\* At a target of 15 frames a second a video with no rate is read at a skip of 2.
TwoVideoSets == {(s1 :> Video(4, 0, TRUE)) @@ (s2 :> Video(1, 15, FALSE)),
                 (s1 :> Video(1, 10, TRUE)) @@ (s2 :> Video(2, 15, TRUE))}
===============================================================================
