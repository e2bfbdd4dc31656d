----------------------------- MODULE FusionWorker -----------------------------
(***************************************************************************)
(* run_fusion_worker of workers/fusion_worker.py with the engine it drives *)
(* (HomographyFusionEngine, TemporalSyncBuffer): takes the telemetry of    *)
(* the stream workers from ZeroMQ, waits until every drone has a message   *)
(* pending, aligns the messages by timestamp and lets ConflictResolver     *)
(* merge their tracks.                                                     *)
(***************************************************************************)
EXTENDS Integers, FiniteSets, Sequences, SequencesExt

CONSTANTS Drones,     \* config.streams
          LocalIds,   \* the track ids of a drone's tracker
          MaxDiff,    \* fusion.max_time_sync_diff
          Lossy,      \* ZeroMQ may drop telemetry (late connection, full queue)
          MaxFrames,  \* bound: frames a drone publishes
          MaxStamp    \* bound: timestamps are 0 .. MaxStamp

ASSUME FusionAssumption == IsFiniteSet(Drones) /\ Cardinality(Drones) >= 2
ASSUME TracksAssumption == IsFiniteSet(LocalIds)
ASSUME SyncAssumption == MaxDiff \in Nat /\ Lossy \in BOOLEAN
ASSUME BoundsAssumption == MaxFrames \in Nat /\ MaxStamp \in Nat

VARIABLES inbox,     \* telemetry ZeroMQ holds for the worker, in order for each drone
          frameId,   \* the frames each drone has published
          clock,     \* the timestamp of its last one, by its own clock
          pending,   \* pending, its entries in the order of insertion
          latest,    \* _latest of the buffer, likewise
          buffered,  \* the lengths of the lists in _buffer
          fused,     \* the messages that the last call of process fused
          taken,     \* history: the messages received
          spent,     \* history: the messages that were ever fused
          globalTrackMap, nextGlobalId, followers, presented, result  \* the resolver's

transport == <<inbox, frameId, clock>>
resolver == <<globalTrackMap, nextGlobalId, followers, presented, result>>
vars == <<transport, pending, latest, buffered, fused, taken, spent, resolver>>

Resolver == INSTANCE ConflictResolver
              WITH Sources <- Drones,
                   Orders <- {o \in [1..Cardinality(Drones) -> Drones] :
                                \A i, j \in DOMAIN o : o[i] = o[j] => i = j}

\* sources_expected, which __init__ of the engine fixes.
SourcesExpected == 2

\* Slip: the frame number is incremented before it is sent.
MessageAhead(d, frame, stamp, tracks) ==
  [drone |-> d, frame |-> frame + 1, stamp |-> stamp, tracks |-> tracks]

\* The telemetry of a frame.
Message(d, frame, stamp, tracks) ==
  [drone |-> d, frame |-> frame, stamp |-> stamp, tracks |-> tracks]

Init ==
  /\ inbox = [d \in Drones |-> <<>>]
  /\ frameId = [d \in Drones |-> 0]
  /\ clock = [d \in Drones |-> 0]
  /\ pending = <<>> /\ latest = <<>>
  /\ buffered = [d \in Drones |-> 0]
  /\ fused = {} /\ taken = {} /\ spent = {}
  /\ Resolver!Init

\* A stream worker publishes the tracks of its next frame.
Publish(d) ==
  /\ frameId[d] < MaxFrames
  /\ \E stamp \in clock[d]..MaxStamp, tracks \in SUBSET LocalIds :
       LET m == Message(d, frameId[d] + 1, stamp, tracks)
       IN  /\ frameId' = [frameId EXCEPT ![d] = m.frame]
           /\ clock' = [clock EXCEPT ![d] = stamp]
           /\ \/ inbox' = [inbox EXCEPT ![d] = Append(@, m)]
              \/ Lossy /\ UNCHANGED inbox
  /\ UNCHANGED <<pending, latest, buffered, fused, taken, spent, resolver>>

\* dict[m.drone] = m: a key that is there keeps its place.
Put(dict, m) ==
  IF \E i \in DOMAIN dict : dict[i].drone = m.drone
  THEN [i \in DOMAIN dict |-> IF dict[i].drone = m.drone THEN m ELSE dict[i]]
  ELSE Append(dict, m)

\* add() of every pending message.
Latest(messages) == FoldLeft(Put, latest, messages)

\* Slip: only whether later entries run ahead of earlier ones.
IsAlignedOneWay(dict) ==
  \A i, j \in DOMAIN dict : i < j => dict[j].stamp - dict[i].stamp <= MaxDiff

\* max(timestamps) - min(timestamps) <= max_time_diff.
IsAligned(dict) ==
  \A i, j \in DOMAIN dict : dict[i].stamp - dict[j].stamp <= MaxDiff

\* min(dict, key=timestamp): the first of the oldest.
Oldest(dict) ==
  CHOOSE i \in DOMAIN dict :
    /\ \A j \in DOMAIN dict : dict[i].stamp <= dict[j].stamp
    /\ \A j \in 1..(i - 1) : dict[i].stamp < dict[j].stamp

\* try_flush finds the messages too far apart and drops the oldest; the engine answers
\* with no tracks.  (It cannot find fewer than SourcesExpected: a batch brings one
\* message of every stream, and fusion runs for two streams or more.)
NoFlush(dict) ==
  /\ Len(dict) >= SourcesExpected /\ ~IsAligned(dict)
  /\ latest' = RemoveAt(dict, Oldest(dict))
  /\ fused' = {} /\ result' = {} /\ presented' = {}
  /\ UNCHANGED <<spent, globalTrackMap, nextGlobalId, followers>>

\* try_flush hands over what it holds, and the resolver merges the tracks.
Flush(dict) ==
  /\ Len(dict) >= SourcesExpected /\ IsAligned(dict)
  /\ latest' = <<>>
  /\ fused' = Range(dict)
  /\ spent' = spent \cup fused'
  /\ Resolver!ResolvePair([i \in DOMAIN dict |-> dict[i].drone],
                          [d \in Drones |-> UNION {m.tracks : m \in {n \in fused' : n.drone = d}}])

\* process(pending) of the engine.
Process(messages) ==
  /\ buffered' = [d \in Drones |-> buffered[d]
                    + Cardinality({i \in DOMAIN messages : messages[i].drone = d})]
  /\ NoFlush(Latest(messages)) \/ Flush(Latest(messages))

\* Slip: the batch is not forgotten.
StillPending(messages) == messages

\* pending.clear().
AfterProcess(messages) == <<>>

\* The loop receives a message of d: it replaces the one pending for d, if any, and
\* once every stream has one pending they are processed and forgotten.
Receive(d) ==
  /\ inbox[d] # <<>>
  /\ inbox' = [inbox EXCEPT ![d] = Tail(@)]
  /\ taken' = taken \cup {Head(inbox[d])}
  /\ LET messages == Put(pending, Head(inbox[d]))
     IN  \/ /\ Len(messages) < Cardinality(Drones)
            /\ pending' = messages
            /\ UNCHANGED <<latest, buffered, fused, spent, resolver>>
         \/ /\ Len(messages) >= Cardinality(Drones)
            /\ Process(messages)
            /\ pending' = AfterProcess(messages)
  /\ UNCHANGED <<frameId, clock>>

Next == \E d \in Drones : Publish(d) \/ Receive(d)

Spec == Init /\ [][Next]_vars

-------------------------------------------------------------------------------
Messages == [drone : Drones, frame : 1..MaxFrames, stamp : 0..MaxStamp,
             tracks : SUBSET LocalIds]

\* Every variable has a value of its type.
TypeOK ==
  /\ inbox \in [Drones -> Seq(Messages)]
  /\ frameId \in [Drones -> 0..MaxFrames]
  /\ clock \in [Drones -> 0..MaxStamp]
  /\ pending \in Seq(Messages) /\ latest \in Seq(Messages)
  /\ buffered \in [Drones -> Nat]
  /\ fused \subseteq Messages /\ spent \subseteq taken /\ taken \subseteq Messages
  /\ Resolver!TypeOK

\* What is fused lies within max_time_sync_diff and has one message of every drone.
FusedTogetherBelongTogether ==
  fused # {} =>
    /\ {m.drone : m \in fused} = Drones
    /\ \A m, n \in fused : m.drone = n.drone => m = n
    /\ \A m, n \in fused : m.stamp - n.stamp <= MaxDiff

\* No frame is fused twice, and no drone's older frame after a newer one, although
\* the buffer keeps a message over from a failed flush.
FramesFuseForward ==
  [][buffered' # buffered =>
       \A m \in spent, n \in fused' : m.drone = n.drone => m.frame < n.frame]_vars

\* A message kept over in the buffer is older than anything pending for its drone, so
\* the next batch replaces it: what is fused was received since the last process.
KeptOverIsOlder ==
  \A i \in DOMAIN latest, j \in DOMAIN pending :
    latest[i].drone = pending[j].drone => latest[i].frame < pending[j].frame

\* Every track of the messages that are fused appears in the fused answer.
FusedTracksAreReported ==
  UNION {e.members : e \in result}
    = UNION {{m.drone} \X m.tracks : m \in fused}

-------------------------------------------------------------------------------
(* What the documentation says and the code does not do.                   *)

\* ADVANCED_GUIDE.md:347: telemetry is collected from all streams and aligned by
\* timestamp within max_time_sync_diff.  So of two messages that were received and
\* lie that close, once the worker holds neither, one at least has been fused.
AlignedMessagesAreFused ==
  LET left == taken \ (Range(pending) \cup Range(latest))
  IN  \A m, n \in left :
        /\ m.drone # n.drone
        /\ m.stamp - n.stamp \in -MaxDiff..MaxDiff
        => m \in spent \/ n \in spent
===============================================================================
