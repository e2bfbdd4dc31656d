# Verification of the drone traffic pipeline

TLA+ models of the multi-drone traffic monitoring pipeline under `src/src/drone_traffic/`
and of the scripts that prepare its data sets, TLC runs that check them on small
instances, and proofs that TLAPS checks for every value of the constants. Paths below are
relative to `src/src/drone_traffic/` unless they start with `docs/`, `tests/` or `scripts/`,
which are in `src/`.

1. [The system](#1-the-system)
2. [Modules](#2-modules-and-the-code-they-model)
3. [Runs](#3-runs-what-each-checks-and-shows)
4. [Fairness](#4-fairness)
5. [Disagreements](#5-where-the-code-disagrees-with-its-documentation)
6. [Proofs](#6-what-is-proved)
7. [Not modelled](#7-what-is-not-modelled)
8. [Plan](#8-plan)

## 1. The system

`python -m drone_traffic run` starts one process for each video stream, one that fuses
the streams and one that writes to PostgreSQL. They share nothing but ZeroMQ sockets:

    stream worker (one per drone) --PUB/SUB 5555--> fusion worker
        video -> detector -> tracker                    temporal sync -> conflict resolver
                                                             |
                         API (queries only)             PUB/SUB 5556
                              |                              v
                         PostgreSQL <-------------- persistence worker

Apart from it, scripts work offline on a directory of VisDrone sequences:

    VisDrone --convert_visdrone_mot_to_yolo--> YOLO data set ---> training of the detector
        |----prepare_reid_data_mot-----------> crops by identity --train_reid--> ReID network
        '----inference-----------------------> annotated videos and images

PUB/SUB loses messages: before a subscription has reached the publisher, and when a
queue is at its high-water mark. It neither duplicates nor reorders those of one
publisher; those of two publishers interleave in any way.

| Component | State | Operations | Hard | Correct when |
|---|---|---|---|---|
| Assignment (`tracking/matching.py`) | none; a loop with used rows and columns | `hungarian_assignment`, greedy fallback | break, skip and ties; filtering after optimising | the pairs are one-to-one and within the gate; no pair that both sides would prefer is left out (greedy); no two would be cheaper swapped (scipy) |
| BoT-SORT (`tracking/bot_sort.py`) | tracks with hits, age and misses; a class-wide id counter; the frame count | `update` (predict, first stage, second stage, births, deaths, output), `reset` | four branches handle detections; lists change between the stages; features of only some | ids are unique and fresh; each track gets at most one detection a frame; none is kept past `max_age`; no sure detection is ignored |
| Conflict resolver (`fusion/conflict_resolver.py`) | the map from (drone, local id) to global id; the counter | `resolve`, `reset` | long histories of changing partners and listing orders | each track is in one entry of the answer; the answer and the map agree; an id changes only by a merge |
| Temporal sync and engine (`fusion/temporal_sync.py`, `homography_fusion.py`) | last message of each source; lists that only grow | `add`, `try_flush`, `process`, `reset` | a message kept over from a failed flush meets a later batch | what is fused lies within the window, one message of each drone; no frame is fused twice or out of order |
| Fusion worker (`workers/fusion_worker.py`) | `pending`, one message for each drone | receive, process when all drones have one | interleaving of the drones, loss, a message replaced before use | aligned messages get fused; every fused track is reported |
| Persistence worker (`workers/persistence_worker.py`) | `batch`, time of the last flush | receive, time out, flush, stop | a failed or unacknowledged commit, cancellation and termination in any state, the timer against a stream of messages | an observation is stored at most once and accounted for; order is kept; a batch does not wait for ever |
| Database (`persistence/database.py`, `models.py`) | engine and session factory of the process; tables | `init_db`, `get_session_factory`, `create_tables`, `close_db` | order of calls; foreign keys | a session is opened only after `init_db`; rows satisfy the keys |
| Stream worker and reader (`workers/stream_worker.py`, `ingestion/reader.py`) | two captures of one video, the frame number | `open`, `read_frames`, the loop | the captures advance at different rates; the second may not open | what the detector sees is the frame of the packet |
| Pipeline (`pipeline.py`) | the list of processes | start, monitor, terminate and join | Ctrl+C in any of these, to the parent alone or to all; workers that end or fail meanwhile | no worker is left running; what the monitor reports did happen |
| API (`api/`) | none of its own | read-only queries | | |
| Dataset conversion (`scripts/convert_visdrone_mot_to_yolo.py`) | counts of labels by class; the files written | one loop over shuffled images | the cap is compared before and counted after an image; interruption, and a second run over the files of the first | the cap holds but for one image; reruns end in the same directory |
| ReID data (`scripts/prepare_reid_data_mot.py`) | identity offsets; the crops on disk | planning, a pool of processes over the sequences | identities are counted in one process and given out in others; one that fails or is killed; reruns | an identity is one vehicle; "done" means complete |
| ReID training (`scripts/train_reid.py`) | the data set in memory | reading the folders, relabelling, `--gallery-ratio 0` | folders without crops; queries that stand in for a gallery | each query can be answered, each label is within the classifier |
| Inference (`scripts/inference.py`) | the open writer | video, folder or all sequences of a data set | unreadable or odd-sized first images, `q` | a video holds the frames of its sequence, in order |
| Registry, configuration, types (`core/`) | a dictionary filled on import | look-up, validation | | |
| Detector, backbone, ReID network, Kalman filter, camera motion, renderer | numerical | | | |

Every hazard found in the code is listed with its line, and with the properties that
would catch it, under `hazards` in `PROJECT.json`.

## 2. Modules and the code they model

    Assignment <---- HungarianAssignment          PersistenceWorker --INSTANCE (refinement)--> OrderedDelivery
        ^  ^------- BotSort
        |                                                StreamWorker <---- Pipeline
    ConflictResolver <--INSTANCE-- FusionWorker                                ^
        ^                               ^                                 MC_Pipeline
    MC_ConflictResolver            MC_FusionWorker

    VisDrone <---- ConvertDataset <------------------.
        ^  ^------ Inference <-----------------------+--- DatasetScripts <--- MC_DatasetScripts
        '--------- PrepareReid <---- ReidDataset <---'
                       '--INSTANCE (refinement)--> CropStore

    DataTheorems : lemmas on numbers, finite sets, folds, recursion and Assignment
    HungarianAssignment_proofs, BotSort_proofs, ConflictResolver_proofs, FusionWorker_proofs,
    PersistenceWorker_proofs, Pipeline_proofs, DatasetScripts_proofs : the proofs, a module each

Definitions keep the names of the code; `PROJECT.json` (`map`) gives the lines of each.
A definition whose comment begins with *Slip* is not part of a model: it is the
definition after it with a plausible mistake, put there to see that TLC notices when
the code would make it (each property has one that breaks it).

**Assignment** is what `hungarian_assignment` promises its callers: `Matchings(R, C)`,
every one-to-one pairing of some rows with some columns. `BotSort` and
`ConflictResolver` choose from it, so they hold for any geometry. It also defines the
least-cost assignment of scipy (external).

**HungarianAssignment** is one call of `hungarian_assignment` on any matrix, entry by
entry in the fallback. `Optimal` is scipy's result, which the code filters by the
threshold (`FilterOptimal`); the greedy loop examines entries from the cheapest up
(`SkipTaken`, `TakeCheapest`, `StopAtThreshold`, `ExhaustEntries`), with ties resolved
either way because `argsort` is not stable. Costs are ranks: only comparisons and sums
matter. The last conjunct of
`ResultIsGatedMatching` is what justifies `Assignment` in the other modules.

**BotSort** is the tracker of one stream; `_tracks` is a set of records with the id,
`age`, `hits`, `time_since_update` (`tsu`) and whether there is a feature. `Update` is
the whole of `update`: predictions, the first stage with the high detections, the second
with the low ones and the tracks left over, births of unmatched detections of at least
`new_track_thresh`, removal of tracks missed for more than `max_age` frames, and the
ids returned. `Strong` is relative to that threshold, which may lie on either side of
`track_high_thresh`. Ids of a frame are numbered in creation order (`NewIds`), which
differs between the branches of the code. `UpdateRaises` is the frame on which NumPy
refuses the feature arrays. Matching is any, so gating by distance, by appearance and
the Kalman state are abstracted. `track_low_thresh` does not appear because the code
stores it and never reads it.

**ConflictResolver** has `_global_track_map` as a total function with `NoId` for missing
keys. `ResolveOne` and `ResolvePair` are the two branches of `resolve`; an order of the
sources is an input because the code looks at the first two keys of a dictionary. A
call creates ids for the keys it looks up (`LooksUp`, `NewIds`), in the order pairs,
rest of the first source, rest of the second (`Rank`); then the second track of every pair takes over
the id of the first (`TakeOverId`). Because rows of a matching are different keys, doing
all look-ups first and all take-overs next gives the same map as the loop of the code.
`followers` and `presented` are history: who has been second since the last
reset, and what the last call looked at.

**FusionWorker** composes the receive loop, the engine, the buffer and the resolver,
which it INSTANCEs with its own variables: `Flush` conjoins `Resolver!ResolvePair`. Dictionaries
whose order matters (`pending`, `_latest`) are sequences; `Put` keeps the place of a key that
is there. `Publish` is a stream worker: next frame, any timestamp not before its last,
any tracks, possibly lost. Streams' clocks are independent because each reader
counts from its own start. The branch of `try_flush` for too few sources cannot be
taken from the worker and is left out (the comment at `NoFlush` says why).

**PersistenceWorker** numbers observations in the order of publication; a message is an
interval of numbers (empty when nothing was fused). `pc` separates the loop from an
`await`ed flush, so messages, time and signals interleave with it. The commit
succeeds, fails, or takes effect and is reported failed; the code treats the last two
alike. `Interrupt` is Ctrl+C: since Python 3.11 `asyncio.run` turns SIGINT into a
cancellation of the task, so the coroutine sees `CancelledError`, for which there is no handler
that would flush. `Terminate` is the SIGTERM of the pipeline. In both a commit on its
way may take effect or not. Time is the number of ticks since `last_flush`, counted
no further than the comparison can tell.

**OrderedDelivery** is what PersistenceWorker promises, with no word of batches, queues or timers: observations wait in the
order of publication and are settled from the oldest on, some at a time, together and once; what is not stored is reported, save what is
dropped at the end. `ImplementsOrderedDelivery` is the refinement: `waiting` is the batch and the queue while the worker lives, `table` is `rows`,
`reported` what was logged as failed. Receiving, time and the timeout are stutters of it, a flush is one `Settle`, the end of the worker `Close`.

**StreamWorker** is one pass over a video. `video[s]` says how many frames the source has,
which rate it reports and whether `raw_cap` opens; `at` and `raw` are how far the reader
(`_cap`) and the second capture have come. `FrameSkip` is `_frame_skip`; `ProcessFrame` is the body
of the loop: `frame_skip - 1` grabs and a read there, one read here, one message. `EndOfVideo` is
the return of the generator, with what the grabs had consumed. Pixels are left out, so
`shown` records which raw frame detector and tracker were given.

**Pipeline** composes the stream workers with the manager and with what counts of the other two
workers. `processes` is `_processes`, built as `run` builds it (`Processes`); `status[w]` is what `is_alive` and
`exitcode` tell. The manager's actions are its statements: `Start` one process, `Poll` (the snapshot
`alive`), `CheckExitCodes`, `TerminateNext` one process, `Join`; then the interpreter's exit, external: `Leave`
(multiprocessing terminates what daemons are left) and `Reap`. `Interrupt` is SIGINT, to the manager
alone or to the whole group, in each of these; only the monitor's loop catches it, elsewhere the manager
goes straight to the exit. `KillManager` is SIGTERM or SIGKILL to it: no handler, the workers stay. A worker fails
(`Fail`) at any moment, dies of SIGTERM (`Die`) or acts on SIGINT (`Cancel`). `inbox`, `pending` and
`written` are the messages between the workers as numbers; their contents are the matter of FusionWorker and
PersistenceWorker. A join counts as over at any time, as its timeout allows. A further SIGINT once the
interpreter is exiting is left out.

**VisDrone** is the input directory: lines, images, and what may be wrong with them (missing annotation
files, images that cannot be read, differ in size or have no number for a name). `IsDataSet` says what a directory
may be. `PlaceIn` and `AtPlace` stand for `sorted`: a number's place in a set, and the number at a place.

**ConvertDataset** is the converter as a loop over `order`, the images as the seed shuffles them (any order, the same in
each run). `CvSkip`, `CvPlaceImage` and `CvWriteLabels` are the parts of its body; `CvStart` begins a run over whatever
an earlier one has left in `imageFiles` and `labelFiles`; `CvCrash` stops it anywhere, also within a label file. A link
where there is one already ends the run (`copy2` raises `SameFileError` after `symlink_to` failed), as does an image
whose size cannot be found or whose name is no number (`CvFail`). `Replay` computes what a single undisturbed run counts
and takes, image by image; the property about reruns compares with it.

**PrepareReid** computes `Planned(s)`, which crops a sequence gives, the way `_process_sequence`
does: sampling, the split in time, identities counted on from `TidOffset(s)`, which `main` has
worked out from counts of its own. The order of its dictionaries, which numbers the tracks, follows from the file's lines:
`FrameRank` and `TargetRank` give it and `Place` counts along it; `IsBefore` is the order in which crops are written. The processes then take the sequences in order (`PrBegin`), write crop by crop
(`PrCrop`), end or fail; `PrBreak` is a killed process of the pool, `PrCrash` the end of the whole script, and
`PrStart` starts it again over the crops that are there. `poolSize = 1` is the branch without a pool.

**CropStore** is what PrepareReid promises, with no word of processes: crops are only added, only such
as the data set gives, and `Complete` is said only when all are there. `ImplementsCropStore` is the refinement: `store` is
`crops`, `expected` is `ExpectedCrops` of the plan, `complete` is that `main` has ended well.

**ReidDataset** reads `folders` and `crops` as `VisDroneReID` does: `Train` (relabelled), `Query`, `Gallery`, and
`NumClasses`.

**Inference** goes through the folders one by one. `writer` is the size that the open `VideoWriter` takes;
frames of another size are dropped by it without notice. `Handle` is what happens to a frame; `showing` allows `q`.

**DatasetScripts** runs one of the three. They share only the input, which none writes, so interleaving them would
add nothing.

## 3. Runs: what each checks and shows

| Run | Instance | Distinct states | Shows |
|---|---|---|---|
| `assignment` | all matrices up to 2x3, costs 0..2, threshold 1, with and without scipy | 20 538 | `ResultIsGatedMatching`; `GreedyIsStable`; `NoCheaperSwap`. Deadlock is checked: the loop never sticks |
| `resolver` | 2 drones, 2 ids each, listed in either order, or one or none; any matching | 18 968 | `EveryTrackInOneEntry`, `ResultAgreesWithMap`, `LeaderIdsDistinct`, `IdentityChangesOnlyByMerge`, `NewIdsAreReported` |
| `tracker` | 4 frames of up to 2 detections, 3 ranks of confidence, `max_age` 1, `min_hits` 2, both threshold orders | 19 454 | `UniqueIds`, `CountersAgree`, `NoStrongDetectionLost`, `ConfirmedUntilMissed`, `FreshIdsOnly`; in `TypeOK`, that no track outlives `max_age` |
| `fusion` | 2 drones, 3 frames each, timestamps 0..2, window 1, loss | 1 716 988 | `FusedTogetherBelongTogether`, `KeptOverIsOlder`, `FusedTracksAreReported`, `FramesFuseForward` |
| `persistence` | batch of 2, 5 observations, up to 2 in a message, queue of 2, failing database, signals | 88 530 | `AtMostOneRow`, `NothingVanishes`, `FlushedInOrder`, `ImplementsOrderedDelivery`, and `BatchIsFlushed` under fairness; in `TypeOK`, that the batch stays below its size |
| `pipeline` | 1 or 2 streams, fusion on or off, videos of 1 to 4 frames with a skip of 1 or 2, a second capture that does not open, any failure, 2 SIGINTs, the manager killed | 101 363 | `CleanupReachesEveryWorker`, `WriterNeedsEveryStream`, `VideosDoNotEndThePipeline`, `DetectorFallsBehind`, `OnlyThisRoundsFailuresAreReported`, and `InterruptEndsEverything` under fairness |
| `scripts` | 3 sequences; every label set of an image, caps 0 to 2, every order; tracks of 1 to 6 frames, 1 or 2 processes; every saving mode; two runs | 590 426 | `CapIsOvershotByOneImage`, `RerunConverges`; `IdentityIsOneVehicle`, `EveryQueryHasAMatch`, `ImplementsCropStore`; `VideoHoldsItsSequence` |
| `resolver_unmatched`, `fusion_aligned`, `persistence_foreignkeys`, `pipeline_singlestream`, `scripts_rerun` | | | each refutes one statement of the documentation: section 5 |

Each run but `assignment`, whose module is one call, also checks its `TypeOK`.

**Why these bounds.** *assignment*: a swap needs two rows and two columns and a column
to spare; three ranks give below, at and above the threshold and ties. Larger matrices repeat
the same local conflicts. *resolver*: the map is the whole memory of the resolver and
TLC explores it to exhaustion with no bound on the number of calls: with two tracks a
drone, ids run out of new keys after four creations, while partners keep changing. One drone's two
tracks and the other's two are what it takes for two tracks to pass one id on. *tracker*:
two detections and the tracks of the frames before let births, both stages and a miss
happen in one frame; four frames reach a confirmed track that is missed past `max_age`, and
`Reset` continues from there. *fusion*: three frames are the least with which a message kept over from a failed
flush meets the batch after the next; three timestamps with a window of one have pairs inside, on the
border and outside. *persistence*: a message can fill, overfill or leave a batch
short; five observations are two flushes and a remainder, so order between batches, and
a failure followed by a success, occur. *pipeline*: one stream is the mode without fusion (`pipeline_singlestream` has no other), two the least with
it; the first video is read at a skip of 2 (no rate reported, a target of 15) for two packets, so the lag grows; two
SIGINTs are one in the monitor and one in the cleanup. *scripts*: a van on the first image and any labels on the second
make a cap of 1 or 2 bite before, at and after each image; tracks of one frame are dropped, those of two and of
four lie at the two thresholds, six frames exceed `max_crops`; three sequences let one fail while a second is worked on and a third
waits; two runs are an interrupted one and its repetition.

`CHECK_DEADLOCK FALSE` stands where the system really ends: the frames of the bound are
used up or `update` has raised (`tracker`), the videos have ended (`fusion`), the worker was
stopped (`persistence`), the manager has exited or was killed (`pipeline`), the last run is over (`scripts`). Bounds on counters are constants of the modules (`MaxFrames`,
`MaxStamp`, `MaxObs`, `MaxPerMessage`, `MaxDets`, `MaxInterrupts`, `MaxRuns`, `MaxPrepares`); no run uses a state constraint.
Symmetry is not used: orders of drones and numbers of tracks matter.

Some runs say something by what they do **not** claim. `NoCheaperSwap` is all that is
left of optimality after the filter: an affordable pair can stay unmatched on both
sides with scipy, never with the fallback (`GreedyIsStable`). `LeaderIdsDistinct` excepts drones that
were listed second: two tracks of such a drone do come to share an id. `NothingVanishes`
counts observations that reach the worker; ZeroMQ may drop others before. `VideosDoNotEndThePipeline`,
`WriterNeedsEveryStream`, `DetectorFallsBehind` and `OnlyThisRoundsFailuresAreReported` state what the code does where a reader would
expect more: the end of the videos ends nothing, a fused stream that stops silences the writer, the detector looks at
ever older frames, and a failure the monitor missed stays unreported.

## 4. Fairness

`PersistenceWorker` assumes weak fairness of three actions for `BatchIsFlushed`:

* `Tick`: the clock advances;
* `Work` (`Receive` or `ReceiveTimesOut`): the loop's only wait is `recv` with a timeout of
  0.1 s, so it always comes back;
* `Flush`: `_flush_batch` returns, since the driver answers or raises.

No fairness is assumed of publishers, of the outcome of a commit, or of signals. A
database that neither answers nor breaks the connection would hold the worker for ever;
that is outside the assumption.

`Pipeline` assumes for `InterruptEndsEverything` weak fairness of `Manage`, the statements of the manager, none of which waits
without a timeout except `Reap`, which waits for the workers; and of `Die(w)` and `Cancel(w)`: a process acts on a
signal it has been sent, which Python does between two instructions and the default action of SIGTERM at once. A worker inside a
native call that does not return could hold SIGINT back, but not SIGTERM, which follows. Nothing is assumed of `Publish`,
`Receive`, `Finish` or of failures. The scripts have safety properties only; `ImplementsCropStore` has no fairness on either side,
nor has `ImplementsOrderedDelivery`: what the writer promises is safety.

`SingleStreamIsWritten` is refuted under `FairSpec`, which adds weak fairness of `Publish`, `Finish` and `Receive`, the loops
of the stream and fusion workers: the counterexample is no worker that merely stands still. It has no signal and no failure in it, and what
the stream publishes would have no receiver even if ZeroMQ lost nothing.

## 5. Where the code disagrees with its documentation

1. `EntriesHaveOwnIds` (run `resolver_unmatched`): conflict resolution "creates new global IDs for
   unmatched ones" (`docs/ADVANCED_GUIDE.md:350`). A track keeps the id it took
   over, so after the two part both are reported under it, in one answer.
2. `AlignedMessagesAreFused` (`fusion_aligned`): telemetry is to be aligned by timestamp
   (`docs/ADVANCED_GUIDE.md:347`). Two messages with equal timestamps, both received, are never fused when
   one is replaced in `pending` before the other arrives.
3. `BatchIsStored` (`persistence_foreignkeys`): batches are to be written
   (`docs/ADVANCED_GUIDE.md:59`). Every row names a `global_tracks` row that no code inserts, so
   with the declared keys enforced each batch fails and is dropped.
4. `RerunIsCapped` (`scripts_rerun`): "re-run dataset conversion with undersampling" into `data/vehicle_dataset` to have 60 000 vans
   (`docs/train_next_steps.md:19-40`). The converter removes nothing from the output directory, so labels of images that the cap
   leaves out stay from the earlier run (`scripts/convert_visdrone_mot_to_yolo.py:193-195`).
5. `SingleStreamIsWritten` (`pipeline_singlestream`): "Run single-stream pipeline on a real video, verify detections + tracks in
   DB" (`docs/ADVANCED_GUIDE.md:890`). With one stream `run` starts no fusion worker (`pipeline.py:32-41`), and only that worker
   publishes on the port the persistence worker subscribes to, so nothing is ever stored, though no worker fails. The same
   holds for any number of streams with `fusion.enabled: false`.

Seen while modelling and not given a run of their own: the policy `keep_separate`
(`docs/ADVANCED_GUIDE.md:370`) and the association threshold (`:368`) are configured and never
used; when only some tracks or detections have a ReID feature (`extract_features` gives `None` for a degenerate crop,
`tests/unit/test_reid.py:77`), `update` raises at `tracking/bot_sort.py:238-243` instead of returning the tracks
(`docs/ADVANCED_GUIDE.md:310`) and the stream worker ends, which `BotSort` has as the action `UpdateRaises`; `track_low_thresh` discards nothing (`docs/YOLOV26_NEXT_STEPS.md:443`); tracks of a third
stream are dropped from every fused answer; Ctrl+C loses the batch although workers "terminate
gracefully" (`docs/GETTING_STARTED.md:318`); PUB/SUB drops where "natural backpressure" is promised
(`docs/ADVANCED_GUIDE.md:56`).

Of the processes: a worker that failed between two rounds of the monitor is never reported (`pipeline.py:76` asks only the living for an exit code);
the pipeline does not end with its videos; SIGTERM to the manager leaves all workers behind; the API never calls `init_db`.

Of the scripts: the table of `docs/train_next_steps.md` has the other classes keep their counts, though images are left out whole, with
the labels of all classes on them; its check counts `labels/train` while the cap counts train and val; a data set
of one sequence has an empty train split; images without annotations are counted as skipped and written all the same; the size
of the first image is used for the labels of all; a second run with links instead of copies raises `SameFileError`; a second
preparation with another `--min-track-len` numbers identities anew over the old folders; `inference.py` keeps one tracker for
all sequences (`persist=True`).

## 6. What is proved

`ConflictResolver_proofs` proves about `Spec` of `ConflictResolver`, for any finite set of drones,
any finite set of track ids and any set of listing orders without repetition
(`OrdersAssumption`, `KeysAssumption`):

| Theorem | Property | In words |
|---|---|---|
| `TypeCorrect` | `TypeOK` | in particular, no track is ever reported without an id, and a created id is nobody's |
| `LeadersStayDistinct` | `LeaderIdsDistinct` | a drone that was never listed second has distinct ids for its tracks |
| `AnswerIsRemembered` | `ResultAgreesWithMap` | later calls know every track by the id it was reported under |
| `TracksArePartitioned` | `EveryTrackInOneEntry` | no track of the two sources is lost or reported twice |
| `IdentitiesLast` | `IdentityChangesOnlyByMerge` | an id is lost only to a partner's, in the call that reports both, or by a reset |

The argument. The inductive invariant `IInv` is `TypeOK`, `LeaderIdsDistinct`
and `ResultAgreesWithMap` together; all three are checked by the run `resolver` too. `LeaderIdsDistinct` is not
inductive alone: it survives the creation of ids only
because no id in use has reached the counter, so a new id differs from all others
(`WithIdsFacts`). `NumberingFacts` shows that the ids of a call are one-to-one and lie between the
old and the new counter, which takes the finiteness of the keys. `ResolveOneStep` and
`ResolvePairStep` restate the branches of `resolve` as what the later proofs need; `TakeOverFacts`
says what a merge does to the map, `AnswerFacts` what an entry can be. `AnswerPartitions` is where it
matters that a matching is one-to-one (`MatchingIsInjective`, in `DataTheorems`): a track matched
twice would be in two entries. `TracksArePartitioned` and `IdentitiesLast` then follow from `IInv` for each step.

`NoIdIsSkipped` (`NewIdsAreReported`: a call creates no id that it does not report) needs no
invariant but the types: a one-to-one numbering of n keys by n numbers uses them all
(`NumberingUsesAll`, from the pigeonhole theorem of the library), and every key that is looked up gives its id to an entry.

`BotSort_proofs` proves about `BotSort`, for any thresholds, `max_age` and `min_hits`, any number
of detections and any matchings (`ThresholdsAssumption`, `BoundsAssumption`):

| Theorem | Property | In words |
|---|---|---|
| `TypeCorrect` | `TypeOK` | no track of a running tracker has been missed for more than `max_age` frames |
| `IdsAreUnique` | `UniqueIds` | no two tracks share an id |
| `CountersTellOneStory` | `CountersAgree` | a frame is one hit or one miss for a track, never both or two hits |
| `StrongDetectionsCount` | `NoStrongDetectionLost` | a frame updates or starts no fewer tracks than it has detections of at least `new_track_thresh` |
| `ConfirmedTracksStay` | `ConfirmedUntilMissed` | a confirmed track is returned until it is dropped |
| `IdsAreFresh` | `FreshIdsOnly` | new tracks carry exactly the ids that the counter passed over |

The argument. `IInv` joins the four state properties with the finiteness of `tracks`. `AfterFrameFacts`
says what two stages do to a track -- the second is given only what the first left, so it is
hit at most once -- and `NewIdsFacts` that the ids of new tracks are one-to-one and use up what
the counter passes. `UpdateStep` puts the two together: each track after a call follows one before
it or is new. For `NoStrongDetectionLost` it maps the fresh tracks that own a strong detection onto
the strong detections; there are at least as many of the former. `UniqueIds` is needed for both
action properties: without ids below the counter a new track could be taken for an old one.

`PersistenceWorker_proofs` proves about `PersistenceWorker`, for any batch size, queue and run
length, and a database that may fail before or after it commits (`SizesAssumption`, `DatabaseAssumption`):

| Theorem | Property | In words |
|---|---|---|
| `TypeCorrect` | `TypeOK` | |
| `NothingIsStoredTwice` | `AtMostOneRow` | no observation has two rows |
| `ObservationsAreAccountedFor` | `NothingVanishes` | what was received is in the batch, stored, or logged as lost |
| `OrderIsKept` | `FlushedInOrder` | rows and batch follow the order of publication |
| `WorkerDeliversInOrder` | `ImplementsOrderedDelivery` | refinement: a batch is settled as one, oldest first and once, never silently lost but at the end |

The argument. None of the last three is inductive: a flush stores a second row if the batch holds
something that is stored, which `NothingVanishes` excludes only as long as nothing is received twice. That is what
`InOrderOfPublication` adds: the messages that wait hold observations younger than all that was
received, each message younger than the one before it. `MessagesAreSmall` bounds the batch for `TypeOK`.
For the refinement, `BatchIsOldest` says that the batch is the oldest part of what is unsettled, so a flush settles a beginning of it
(`FlushSettles`), and `QueueFacts` that taking a message from the queue into the batch moves nothing that `OrderedDelivery` sees.

`Pipeline_proofs` proves about `Pipeline` with its `StreamWorker`s, for any finite set of streams, any videos
and frame rates and any number of interrupts (`VideosAssumption`, `RateAssumption`, `WorkersAssumption`,
`ListsAssumption`, `InterruptsAssumption`):

| Theorem | Property | Inductive invariant |
|---|---|---|
| `TypeCorrect` | `TypeOK` | itself |
| `CleanupMissesNoWorker` | `CleanupReachesEveryWorker` | `CleanupInv`: what runs is in the list, and what the loop over it has passed is told |
| `OldFailuresGoUnreported` | `OnlyThisRoundsFailuresAreReported` | `MonitorInv`: the monitor asks only those it has found alive |
| `PipelineOutlivesItsVideos` | `VideosDoNotEndThePipeline` | `EndInv`: without an interrupt nothing has told the fusion or persistence worker to end |
| `DetectorLags` | `DetectorFallsBehind` | `CaptureInv`: where the two captures stand after k packets; needs `StartInv`, a process is started once |
| `WriterWaitsForTheSlowest` | `WriterNeedsEveryStream` | `WriterInv`: every message of a configured stream is used once, waits, or is gone |

`HungarianAssignment_proofs` proves about `HungarianAssignment`, for matrices of any finite size, any costs and
any threshold (`SizesAssumption`, `CostsAssumption`):

| Theorem | Property | In words |
|---|---|---|
| `ReturnsGatedMatching` | `ResultIsGatedMatching` | the pairs are a matching within the threshold, and one that `Assignment` allows |
| `GreedyFallbackIsStable` | `GreedyIsStable` | an affordable pair that the fallback leaves out has a partner no dearer |
| `FilteredOptimumAdmitsNoSwap` | `NoCheaperSwap` | after scipy and the filter no two pairs can exchange columns at a lower cost |

The argument. `GreedyGoesUp` makes the greedy loop inductive: what it has examined is settled by a match no dearer, and what it has not
examined costs no less than any match. `NoCheaperSwap` is about a minimum of sums: `SwapStaysFull` shows that an exchange gives
another full assignment, and `TotalCostSplits` that the sums differ by the four entries concerned.

`FusionWorker_proofs` proves about `FusionWorker`, for any two or more drones, any finite set of track ids,
any window, with loss or without (`FusionAssumption`, `TracksAssumption`, `SyncAssumption`, `BoundsAssumption`):

| Theorem | Property | In words |
|---|---|---|
| `TypeCorrect` | `TypeOK` | |
| `FusesWhatBelongsTogether` | `FusedTogetherBelongTogether` | one message of each drone, all within the window |
| `LeftoversAreReplaced` | `KeptOverIsOlder` | a message kept over from a failed flush is older than what is pending for its drone |
| `FusionGoesForward` | `FramesFuseForward` | no frame is fused twice, or after a newer one of its drone |
| `TwoStreamsLoseNoTrack` | `FusedTracksAreReported` | with exactly two drones the answer has every track of what is fused |
| `IdentitiesLastWhileFusing` | | `IdentityChangesOnlyByMerge` of the resolver holds of every behaviour of the worker |

The argument. `Inductive` is `StoresOK`, `FusedTogetherBelongTogether` and the resolver's `IInv`. `StoresOK` says that along the
way of a message -- fused, kept over, pending, in the inbox, not yet published -- its drone's frames only increase
(`StoresGoForward`, `ArrivesInOrder`). `BatchReplacesAll` shows that a batch, having a message of every drone, leaves none of the
messages kept over in the buffer; it rests on what the fold of `Latest` computes (`LatestFacts`). `Proved == INSTANCE
ConflictResolver_proofs` brings in the resolver's lemmas under the worker's substitution (`ResolverAssumptions` discharges their
assumptions), so each call of the resolver keeps `IInv` and the other steps leave it alone.
`TwoStreamsLoseNoTrack` has `Cardinality(Drones) = 2` for a hypothesis and needs it: the tracks of a third stream are dropped.

`DatasetScripts_proofs` proves about the three scripts, for data sets of any number of sequences, with any finite images and
lines, any options and any number of runs (`SequencesAssumption`, `CapsAssumption`, `PrepareAssumption`, `ModesAssumption`,
`InputsAssumption`). Of `PrepareAssumption`, `MinSplit >= 2` matters: with a split at a single frame, a track would be all query. The code has 10.

| Theorem | Property | In words |
|---|---|---|
| `TypeCorrect` | `TypeOK` | |
| `CapIsNearlyKept` | `CapIsOvershotByOneImage` | a class goes past the cap by less than one image |
| `RerunsConverge` | `RerunConverges` | interrupted and repeated runs with one cap end in the directory of a single run |
| `IdentitiesNeverMeet` | `IdentityIsOneVehicle` | the crops of an identity are of one track of one sequence |
| `PreparationIsCropStore` | `ImplementsCropStore` | refinement: only planned crops, and "done" only when they are complete |
| `QueriesHaveMatches` | `EveryQueryHasAMatch` | each query can be answered and each label is a class |
| `VideosAreWhole` | `VideoHoldsItsSequence` | a video holds its sequence's frames in order, up to where it was stopped |

The argument. The scripts share nothing but the input, so each has an invariant of its own, which steps of the others leave alone.
`ConvertInv`: the counts of the running conversion are those of `Replay` at its place (`ReplayUnfolds`, `ReplayGoesOn`), and with one
cap only images that `Replay` takes were ever written. `PrepareInv`: the plan is made of the input alone, what is left to do belongs to it, and
crops are expected ones. That identities differ is arithmetic: the offset of a later sequence is at least an earlier one's
offset and number of tracks (`OffsetsGrow`), and within a sequence places number the tracks because ranks differ
(`WeightIsAbove`, `DigitsAreDistinct`, `PlacesNumber`). `QueriesHaveMatches` is not about steps but about the plan: a track with
a query has a frame before it in train or gallery (`SharesAreProper`). `InferInv`: the writer is open for the folder at hand,
and what it holds are the frames so far that have its size (`Beginnings`).

The refinement maps `store` to `crops`, `expected` to the crops of the plan that can be cut, and `complete` to `main = "done"`. Each step
is one of `CropStore` or a stutter; a run that ends well has by `PrepareInv` nothing left of any sequence.

**Data.** The induction theorems of the library take an operator as a parameter, which the provers cannot instantiate. `DataTheorems`
states what was needed without one: `LeastNatural`, `NaturalInduction` (over a set of numbers), `SmallestSubset` (of a family of finite sets),
`RecursionExists` and `FoldExists` (a recursive function, and a fold over a set, are defined and unfold), `RanksNumber` (places along distinct
keys are the numbers from 0), `SumSplits`, and facts about maxima and `Matchings`.

**What stays with TLC.** Every invariant and every action property of a run that passes is also a theorem. The two liveness
properties, `BatchIsFlushed` and `InterruptEndsEverything`, are only model-checked, because liveness under fairness is beyond
the prover; and the five statements of the documentation that section 5 refutes are refuted by TLC's counterexamples.

## 7. What is not modelled

* Numerical code: the detector, the backbone, the ReID network, the Kalman filter,
  camera motion, homographies and cost functions. They decide *which* matching, detections and
  features occur; the models allow any.
* What would tell apart two ways of making one file or folder: `CvPlaceImage` takes the copy that replaces a link, where links are not
  supported, for a copy from the start, and `PrBegin` makes the folders of a sequence in one step.
* Distances and appearance gates likewise; hence nothing here says that two tracks that are merged are one vehicle.
* The order in which the database module is set up (`init_db`, `close_db`, `create_tables`): every caller makes one call of each, or none.
* A SIGINT after the manager has begun to exit, and one between the fork of a process and its registration within `Process.start()`.
* The buffer's `_buffer` is modelled by the lengths of its lists, since its contents are never read.
* The persistence worker receives a message as a whole; its two frames, and the race of `wait_for` with
  their arrival, are not taken apart.
* API routes, registry, configuration, renderer: read-only or declarative.
* Of the converter the split into train and val and the numbers in a label line; of the crop preparation the pixels, a crop
  cut short by a crash, and reruns with other options; of `train_reid.py` what torchreid does; of
  `inference.py` the model, the drawing and what `persist=True` keeps inside it.
* The other scripts (training, export, validation, evaluation, two visualisers, the older crop script): straight-line calls of libraries with
  no state that a later step depends on.

## 8. Plan

Done, in the order of importance, each checked and proved: Assignment and HungarianAssignment, ConflictResolver, BotSort,
FusionWorker composed with the resolver, PersistenceWorker with the refinement of OrderedDelivery, StreamWorker and Pipeline, the data set scripts
with the refinement of CropStore.

Next, where it would add something:

1. `IdentityService` (ids are created and merged) as an abstract specification that ConflictResolver implements.
2. The two frames of a message and the race of the timeout in `PersistenceWorker`.
3. Boxes: `iou_distance` on integer coordinates in the two layouts the code uses.
