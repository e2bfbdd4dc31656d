------------------------------ MODULE PrepareReid ------------------------------
(***************************************************************************)
(* scripts/prepare_reid_data_mot.py: cuts the vehicles of every track out  *)
(* of the images, an identity for each track, and shares a track's crops   *)
(* between train, gallery and query.  Identities are numbered beforehand,  *)
(* so that a pool of processes can work on several sequences at once.      *)
(***************************************************************************)
EXTENDS VisDrone

CONSTANTS MinTrackLen,     \* --min-track-len
          MaxCrops,        \* --max-crops-per-track
          MinSplit,        \* MIN_FRAMES_FOR_QUERY_SPLIT
          QueryPercent,    \* --query-ratio
          GalleryPercents, \* what --gallery-ratio may be
          PoolSizes,       \* what --workers may be
          MaxPrepares      \* bound: times the script is run

ASSUME PrepareAssumption ==
  /\ {MinTrackLen, MaxCrops} \subseteq Nat \ {0} /\ MinSplit \in Nat \ {0, 1} /\ MaxPrepares \in Nat
  /\ QueryPercent \in 0..99 /\ GalleryPercents \subseteq 0..99 /\ PoolSizes \subseteq Nat \ {0}

VARIABLES galleryPercent, \* args.gallery_ratio
          poolSize,       \* args.workers
          main,           \* "idle", "running", "done", "failed" or "stopped"
          plan,           \* what is in the frame_crops of each sequence
          work,           \* for each sequence "waiting", "running", "ended" or "failed"
          todo,           \* what the process at a sequence has left of its frame_crops
          folders,        \* the identity folders there are, as <<split, identity>>
          crops,          \* the crops that are on disk
          prRuns          \* history: times the script was started

prVars == <<galleryPercent, poolSize, plan, main, work, todo, folders, crops, prRuns>>

-------------------------------------------------------------------------------
(* What is to be cut out of a sequence.                                    *)

\* _parse_mot_annotations: vehicles hidden by half or more are left out, too.
Boxes(s) == {l \in Labels(s) : ~l.hidden}

Track(s, t) == {l \in Boxes(s) : l.target = t}

FramesOf(s, t) == {l.frame : l \in Track(s, t)}

IsLong(s, t) == Cardinality(FramesOf(s, t)) >= MinTrackLen

LongTargets(s) == {t \in {l.target : l \in Boxes(s)} : IsLong(s, t)}

\* The lines of a file stand target by target, so frames and then targets come into the
\* dictionaries in this order; a target's place among the long ones gives its identity.
Weight == 1 + Max({0} \cup UNION {{l.frame, l.target} : l \in UNION Range(input.lines)})

FrameRank(s, f) == Weight * Min({l.target : l \in {b \in Boxes(s) : b.frame = f}}) + f

TargetRank(s, t) == Weight * Min({FrameRank(s, f) : f \in FramesOf(s, t)}) + t

Place(s, t) == Cardinality({u \in LongTargets(s) : TargetRank(s, u) < TargetRank(s, t)})

\* Slip: only tracks above the least length are counted.
OffsetOfLonger(s) ==
  LET Longer(r) == {t \in LongTargets(r) : Cardinality(FramesOf(r, t)) > MinTrackLen}
  IN  Cardinality(UNION {{r} \X Longer(r) : r \in {q \in 1..(s - 1) : HasAnnotations(q)}})

\* tid_offsets: the tracks counted in the sequences before.
TidOffset(s) ==
  Cardinality(UNION {{r} \X LongTargets(r) : r \in {q \in 1..(s - 1) : HasAnnotations(q)}})

\* Of a track's frames at most max_crops_per_track are taken, at equal distances.
NumSampled(s, t) == Min({Cardinality(FramesOf(s, t)), MaxCrops})

Sampled(s, t, i) ==
  AtPlace(FramesOf(s, t), ((i - 1) * Cardinality(FramesOf(s, t))) \div NumSampled(s, t))

\* max(1, int(length * ratio)).
Share(length, percent) == Max({1, (length * percent) \div 100})

\* The last frames of a long track are for queries, those before for the gallery.
SplitOf(length, i) ==
  LET queries == IF length < MinSplit THEN 0 ELSE Share(length, QueryPercent)
      gallery == IF length < MinSplit \/ galleryPercent = 0 THEN 0
                 ELSE Share(length - queries, galleryPercent)
  IN  IF i > length - queries THEN "query"
      ELSE IF i > length - queries - gallery THEN "gallery" ELSE "train"

\* Slip: the gallery, which came later, is forgotten; imwrite does not report it.
SplitsAtFirst == {"train", "query"}

Splits == {"train", "gallery", "query"}

\* The crops of a sequence, each with the target whose box is cut out.  An identity's
\* folder and the name of the sequence and the frame make the name of the file.
CropOf(s, t, i) ==
  [split |-> SplitOf(NumSampled(s, t), i), identity |-> TidOffset(s) + Place(s, t),
   sequence |-> s, frame |-> Sampled(s, t, i), target |-> t]

Planned(s) == UNION {{CropOf(s, t, i) : i \in 1..NumSampled(s, t)} : t \in LongTargets(s)}

\* frame_crops has the frames in the order in which they were planned, and the crops of a
\* frame by their identities.
IsBefore(c, d) ==
  LET First(f) == Min({e.identity : e \in {b \in plan[c.sequence] : b.frame = f}})
  IN  \/ First(c.frame) < First(d.frame)
      \/ First(c.frame) = First(d.frame) /\ c.frame < d.frame
      \/ c.frame = d.frame /\ c.identity < d.identity

\* The image is there and can be read, and the box lies on it.
CanBeCut(c) ==
  /\ c.frame \in input.images[c.sequence] \ input.unreadable[c.sequence]
  /\ \A l \in Track(c.sequence, c.target) : l.frame = c.frame => ~l.outside

-------------------------------------------------------------------------------
Dispatched == {s \in SequenceNames : HasAnnotations(s)}

PrInit ==
  /\ galleryPercent \in GalleryPercents /\ poolSize \in PoolSizes
  /\ plan = [s \in SequenceNames |-> {}]
  /\ main = "idle" /\ work = [s \in SequenceNames |-> "waiting"]
  /\ todo = [s \in SequenceNames |-> {}]
  /\ folders = {} /\ crops = {} /\ prRuns = 0

\* main, up to the loop over the sequences: what is in the output directory stays.  The
\* processes plan their crops themselves, but from the files and options alone.
PrStart ==
  /\ main \in {"idle", "failed", "stopped", "done"} /\ prRuns < MaxPrepares
  /\ main' = "running" /\ prRuns' = prRuns + 1
  /\ plan' = [s \in SequenceNames |-> Planned(s)]
  /\ work' = [s \in SequenceNames |-> "waiting"] /\ todo' = [s \in SequenceNames |-> {}]
  /\ UNCHANGED <<galleryPercent, poolSize, folders, crops>>

\* With one worker main does the work itself, and stops at the first failure.
MayBegin(s) ==
  /\ main = "running" /\ s \in Dispatched /\ work[s] = "waiting"
  /\ \A r \in Dispatched : r < s => work[r] # "waiting"
  /\ Cardinality({r \in Dispatched : work[r] = "running"}) < poolSize
  /\ poolSize = 1 => \A r \in Dispatched : work[r] # "failed"

\* _process_sequence, up to the loop over the frames.  A sequence without images has
\* nothing to do; the name of an image that is no number raises ValueError.
PrBegin(s) ==
  /\ MayBegin(s)
  /\ \/ /\ input.images[s] = {} /\ work' = [work EXCEPT ![s] = "ended"]
        /\ UNCHANGED <<todo, folders>>
     \/ /\ input.images[s] # {} /\ input.misnamed[s] # {}
        /\ work' = [work EXCEPT ![s] = "failed"]
        /\ UNCHANGED <<todo, folders>>
     \/ /\ input.images[s] # {} /\ input.misnamed[s] = {}
        /\ work' = [work EXCEPT ![s] = "running"]
        /\ todo' = [todo EXCEPT ![s] = plan[s]]
        /\ folders' = folders \cup (Splits \X {c.identity : c \in plan[s]})
  /\ UNCHANGED <<galleryPercent, poolSize, plan, main, crops, prRuns>>

\* One crop is cut out and written, over one that is there; or left out.
PrCrop(s) ==
  /\ main = "running" /\ work[s] = "running"
  /\ \E c \in todo[s] :
       /\ \A d \in todo[s] \ {c} : IsBefore(c, d)
       /\ crops' = IF CanBeCut(c) THEN crops \cup {c} ELSE crops
       /\ todo' = [todo EXCEPT ![s] = @ \ {c}]
  /\ UNCHANGED <<galleryPercent, poolSize, plan, main, work, folders, prRuns>>

PrEnd(s) ==
  /\ main = "running" /\ work[s] = "running" /\ todo[s] = {}
  /\ work' = [work EXCEPT ![s] = "ended"]
  /\ UNCHANGED <<galleryPercent, poolSize, plan, main, todo, folders, crops, prRuns>>

\* A process of the pool is killed: BrokenProcessPool for every sequence not yet done.
PrBreak ==
  /\ main = "running" /\ poolSize > 1
  /\ \E s \in Dispatched : work[s] = "running"
  /\ work' = [s \in SequenceNames |-> IF s \in Dispatched /\ work[s] # "ended" THEN "failed" ELSE work[s]]
  /\ UNCHANGED <<galleryPercent, poolSize, plan, main, todo, folders, crops, prRuns>>

\* Slip: the futures' results are not asked for, so no failure is raised.
NoneRaises == FALSE

\* future.result(), or the call itself, raises.
SomeRaises == \E s \in Dispatched : work[s] = "failed"

\* The end of main.  Leaving the pool waits for the sequences still being worked on.
PrFinish ==
  /\ main = "running"
  /\ \A s \in Dispatched : work[s] # "running"
  /\ \/ \A s \in Dispatched : work[s] # "waiting"
     \/ poolSize = 1 /\ \E s \in Dispatched : work[s] = "failed"
  /\ main' = IF SomeRaises THEN "failed" ELSE "done"
  /\ UNCHANGED <<galleryPercent, poolSize, plan, work, todo, folders, crops, prRuns>>

\* The user interrupts it, or the machine goes down: all its processes stop.
PrCrash ==
  /\ main = "running"
  /\ main' = "stopped"
  /\ UNCHANGED <<galleryPercent, poolSize, plan, work, todo, folders, crops, prRuns>>

PrNext ==
  \/ PrStart \/ PrBreak \/ PrFinish \/ PrCrash
  \/ \E s \in SequenceNames : PrBegin(s) \/ PrCrop(s) \/ PrEnd(s)

-------------------------------------------------------------------------------
PrTypeOK ==
  /\ galleryPercent \in GalleryPercents /\ poolSize \in PoolSizes
  /\ main \in {"idle", "running", "done", "failed", "stopped"}
  /\ work \in [SequenceNames -> {"waiting", "running", "ended", "failed"}]
  /\ folders \subseteq Splits \X Nat
  /\ \A c \in crops \cup UNION {todo[s] : s \in SequenceNames} :
       <<c.split, c.identity>> \in folders /\ c.sequence \in Dispatched

\* The crops in an identity's folders, whichever process wrote them and in whichever
\* run, are all of one vehicle: no two tracks share a number, though the numbers are
\* counted by main and given out by the processes, sequence by sequence.
IdentityIsOneVehicle ==
  \A c, d \in crops :
    c.identity = d.identity => c.sequence = d.sequence /\ c.target = d.target

\* The crops there should be in the end.
ExpectedCrops ==
  {c \in UNION {plan[s] : s \in {r \in Dispatched : input.images[r] # {}}} : CanBeCut(c)}

Store == INSTANCE CropStore WITH expected <- ExpectedCrops, store <- crops, complete <- (main = "done")

\* The script, with its pool, failures and interruptions, is a crop store: when it
\* says it is done nothing is missing and nothing else is there.
ImplementsCropStore == Store!StoreSpec
===============================================================================
