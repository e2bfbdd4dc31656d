-------------------------------- MODULE BotSort --------------------------------
(***************************************************************************)
(* BoTSORTTracker of tracking/bot_sort.py: the life cycle of the tracks of *)
(* one stream.  Geometry (Kalman filter, camera motion, IoU) is abstracted *)
(* to the matchings it leads to, which may be any; the appearance features *)
(* to whether a track or detection has one; what a track merely carries    *)
(* (class, confidence, timestamp) is left out.  A stream worker runs one   *)
(* tracker in a process of its own, which alone counts _Track._next_id.    *)
(***************************************************************************)
EXTENDS Assignment, Sequences

CONSTANTS MaxAge,         \* max_age
          MinHits,        \* min_hits
          HighThresh,     \* track_high_thresh
          NewThresholds,  \* the settings of new_track_thresh, below or above HighThresh
          Confidences,    \* the ranks a detection's confidence can have
          ReidReady,      \* ReID weights were given and loaded
          MaxDets,        \* bound: detections in a frame
          MaxFrames       \* bound: frames between two resets

ASSUME ThresholdsAssumption ==
  /\ MaxAge \in Nat /\ MinHits \in Nat
  /\ Confidences \subseteq Nat
  /\ HighThresh \in Nat /\ NewThresholds \subseteq Nat
  /\ ReidReady \in BOOLEAN

ASSUME BoundsAssumption == MaxDets \in Nat /\ MaxFrames \in Nat

VARIABLES tracks,      \* _tracks
          newThresh,   \* new_track_thresh, as configured
          nextId,      \* _Track._next_id
          frameCount,  \* _frame_count
          running,     \* no call of update has raised
          strong,      \* the last frame's detections of at least new_track_thresh
          returned     \* the ids of the tracks that update returned last

vars == <<tracks, newThresh, nextId, frameCount, running, strong, returned>>

\* A detection after _extract_reid_features: a feature if ReID runs and the crop
\* is not degenerate.
Detections == [conf : Confidences, feat : IF ReidReady THEN BOOLEAN ELSE {FALSE}]

Frames == UNION {[1..n -> Detections] : n \in 0..MaxDets}

Init ==
  /\ tracks = {}
  /\ newThresh \in NewThresholds
  /\ nextId = 1
  /\ frameCount = 0
  /\ running = TRUE
  /\ strong = 0
  /\ returned = {}

Ids == {t.id : t \in tracks}

Predicted(t) == [t EXCEPT !.age = @ + 1, !.tsu = @ + 1]

\* Slip: the detection that starts a track is not counted.
NewTrackUnhit(id, d) ==
  [id |-> id, age |-> 0, hits |-> 0, tsu |-> 0, feat |-> d.feat]

NewTrack(id, d) ==
  [id |-> id, age |-> 0, hits |-> 1, tsu |-> 0, feat |-> d.feat]

Updated(t, d) ==
  [t EXCEPT !.hits = @ + 1, !.tsu = 0, !.feat = @ \/ d.feat]

High(dets) == {i \in DOMAIN dets : dets[i].conf >= HighThresh}
Low(dets) == {i \in DOMAIN dets : dets[i].conf < HighThresh}
Strong(dets) == {i \in DOMAIN dets : dets[i].conf >= newThresh}

\* The first stage builds one array of the features of all tracks and one of those
\* of the high detections, with a vector of length 1 where there is none: NumPy
\* refuses an array of rows of different lengths.
FeaturesClash(dets) ==
  LET TrackFeats == {t.feat : t \in tracks}
      DetFeats == {dets[i].feat : i \in High(dets)}
  IN  TRUE \in TrackFeats /\ TRUE \in DetFeats
        /\ FALSE \in TrackFeats \cup DetFeats

\* Slip: the second stage is given all the tracks.
AllTracks(first) == Ids

\* The tracks that the first stage left over.
LeftOver(first) == Ids \ DOMAIN first

\* Slip: only high detections start tracks.
UnclaimedHigh(dets, first, second) == (Strong(dets) \cap High(dets)) \ Range(first)

\* Neither stage matched the detection, and it is sure enough to start a track.
Unclaimed(dets, first, second) == Strong(dets) \ (Range(first) \cup Range(second))

\* The ids of new tracks, in the order they are created: high detections before
\* low ones when there were tracks to match, in the order given otherwise.
NewIds(dets, born) ==
  LET Before(i, j) == IF tracks = {} THEN i < j
                      ELSE \/ i \in High(dets) /\ j \in Low(dets)
                           \/ (i \in High(dets) <=> j \in High(dets)) /\ i < j
  IN  {f \in Injection(born, nextId .. (nextId + Cardinality(born) - 1)) :
         \A i, j \in born : Before(i, j) => f[i] < f[j]}

\* Slip: the counter moves once for a frame.
AdvanceOnce(born) == IF born = {} THEN nextId ELSE nextId + 1

\* The counter moves once for every track created.
Advance(born) == nextId + Cardinality(born)

\* A stage updates the tracks that its matching gives a detection.
AfterStage(t, dets, m) == IF t.id \in DOMAIN m THEN Updated(t, dets[m[t.id]]) ELSE t

AfterFrame(t, dets, first, second) ==
  AfterStage(AfterStage(Predicted(t), dets, first), dets, second)

\* Tracks missed for more than max_age frames are dropped.
IsKept(t) == t.tsu <= MaxAge

\* Slip: a track is reported only while it is being detected.
IsConfirmedNow(t, frame) == t.tsu = 0 /\ (t.hits >= MinHits \/ frame <= MinHits)

\* What update returns, in the first min_hits frames every track.
IsConfirmed(t, frame) == t.hits >= MinHits \/ frame <= MinHits

\* update: high detections are matched with all tracks, low ones with the tracks
\* that are left; what is sure enough and unmatched starts a track.
Update(dets) ==
  /\ running /\ frameCount < MaxFrames
  /\ ~FeaturesClash(dets)
  /\ \E first \in Matchings(Ids, High(dets)) :
     \E second \in Matchings(LeftOver(first), Low(dets)) :
       LET born == Unclaimed(dets, first, second)
       IN  /\ \E f \in NewIds(dets, born) :
                tracks' = {t \in {AfterFrame(u, dets, first, second) : u \in tracks}
                                   \cup {NewTrack(f[i], dets[i]) : i \in born} : IsKept(t)}
           /\ nextId' = Advance(born)
  /\ frameCount' = frameCount + 1
  /\ strong' = Cardinality(Strong(dets))
  /\ returned' = {t.id : t \in {u \in tracks' : IsConfirmed(u, frameCount')}}
  /\ UNCHANGED <<newThresh, running>>

\* update raises in the first stage, after the predictions; no caller catches it.
UpdateRaises(dets) ==
  /\ running /\ frameCount < MaxFrames
  /\ FeaturesClash(dets)
  /\ tracks' = {Predicted(t) : t \in tracks}
  /\ frameCount' = frameCount + 1
  /\ running' = FALSE
  /\ strong' = 0
  /\ returned' = {}
  /\ UNCHANGED <<newThresh, nextId>>

\* reset: also restarts the ids of every tracker of the process.
Reset ==
  /\ running
  /\ tracks' = {}
  /\ nextId' = 1
  /\ frameCount' = 0
  /\ strong' = 0
  /\ returned' = {}
  /\ UNCHANGED <<newThresh, running>>

Next ==
  \/ \E dets \in Frames : Update(dets) \/ UpdateRaises(dets)
  \/ Reset

Spec == Init /\ [][Next]_vars

-------------------------------------------------------------------------------
Tracks == [id : Nat \ {0}, age : Nat, hits : Nat \ {0}, tsu : Nat,
           feat : BOOLEAN]

\* Every variable has a value of its type; no track outlives max_age missed frames
\* (when update raises, the predictions are made and the removal is not).
TypeOK ==
  /\ tracks \subseteq Tracks
  /\ running => \A t \in tracks : t.tsu <= MaxAge
  /\ newThresh \in NewThresholds
  /\ nextId \in Nat \ {0}
  /\ frameCount \in 0..MaxFrames
  /\ running \in BOOLEAN
  /\ strong \in Nat
  /\ returned \subseteq Nat \ {0}

\* No two tracks share an id, and no id has been given out beyond the counter:
\* telemetry and fusion key everything by it.
UniqueIds ==
  /\ \A t, u \in tracks : t.id = u.id => t = u
  /\ \A t \in tracks : t.id < nextId

\* The counters of a track tell one story: it was born with one hit, each frame
\* since was a hit or a miss, and the misses since the last hit are time_since_update
\* -- so no track, however it was matched, counts two hits in a frame.
CountersAgree ==
  \A t \in tracks :
    /\ t.hits + t.tsu <= t.age + 1
    /\ t.hits = 1 => t.tsu = t.age
    /\ t.age <= frameCount

\* No detection sure enough to start a track falls between the branches of update:
\* at least as many tracks have been updated or created in this frame as there were
\* such detections.
NoStrongDetectionLost ==
  running => strong <= Cardinality({t \in tracks : t.tsu = 0})

\* A confirmed track stays in the output until it has been missed for more than
\* max_age frames (or the tracker is reset or dies).
ConfirmedUntilMissed ==
  [][running' /\ frameCount' > frameCount =>
       \A t \in tracks : t.hits >= MinHits /\ t.id \notin returned' => t.tsu = MaxAge]_vars

\* The id of a dropped track never comes back, nor is one skipped: the tracks that appear in
\* a frame carry exactly the ids the counter passed over.
FreshIdsOnly ==
  [][frameCount' > frameCount =>
       {t.id : t \in tracks'} \ Ids = nextId .. (nextId' - 1)]_vars
===============================================================================
