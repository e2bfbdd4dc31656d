------------------------------- MODULE Pipeline -------------------------------
(***************************************************************************)
(* `python -m drone_traffic run`: PipelineManager of pipeline.py starts,   *)
(* watches and stops the workers, which run on their own: a stream worker  *)
(* for each video (StreamWorker), the fusion worker if there is something  *)
(* to fuse, and the persistence worker.  What the last two do with a       *)
(* message is in FusionWorker and PersistenceWorker; here they only count  *)
(* what reaches them.                                                      *)
(***************************************************************************)
EXTENDS StreamWorker, FiniteSets, Sequences

CONSTANTS Fusion, Persistence,  \* the workers that are not streams
          StreamLists,          \* what config.streams may be
          MaxInterrupts         \* bound: times Ctrl+C is pressed

ASSUME WorkersAssumption ==
  /\ IsFiniteSet(Streams)
  /\ Fusion # Persistence /\ {Fusion, Persistence} \cap Streams = {}
ASSUME ListsAssumption ==
  StreamLists \subseteq {l \in Seq(Streams) : \A i, j \in DOMAIN l : l[i] = l[j] => i = j}
ASSUME InterruptsAssumption == MaxInterrupts \in Nat

Workers == Streams \cup {Fusion, Persistence}

VARIABLES processes,   \* _processes, in the order of starting
          manager,     \* where the manager's process is
          next,        \* the place in _processes of its loop
          status,      \* what has become of each worker's process
          signals,     \* signals sent to it and not yet acted upon
          alive,       \* the snapshot `alive` of the monitor
          reported,    \* workers whose exit code this round logged
          failedBefore,  \* history: workers that had failed when this round began
          interrupts,  \* history: how often Ctrl+C was pressed
          cleaned,     \* history: the finally block of run() went through
          inbox,       \* telemetry of each stream that ZeroMQ holds for the fusion worker
          pending,     \* the streams in pending of the fusion worker
          written      \* history: its answers that reached the persistence worker

monitor == <<alive, reported, failedBefore>>
managing == <<processes, manager, next, monitor, interrupts, cleaned>>
telemetry == <<inbox, pending, written>>
vars == <<streamVars, managing, status, signals, telemetry>>

\* The streams of the configuration.
Configured == {s \in Streams : \E i \in DOMAIN processes : processes[i] = s}

\* The processes that run() creates.
Processes(enabled, streams) ==
  (IF enabled /\ Len(streams) >= 2 THEN <<Fusion>> ELSE <<>>) \o streams \o <<Persistence>>

Init ==
  /\ StreamInit
  /\ \E enabled \in BOOLEAN, streams \in StreamLists : processes = Processes(enabled, streams)
  /\ manager = "starting" /\ next = 1
  /\ status = [w \in Workers |-> "none"]
  /\ signals = [w \in Workers |-> {}]
  /\ alive = {} /\ reported = {} /\ failedBefore = {}
  /\ interrupts = 0 /\ cleaned = FALSE
  /\ inbox = [s \in Streams |-> 0]
  /\ pending = {} /\ written = 0

Running(w) == status[w] = "running"

IsLast == next = Len(processes)

-------------------------------------------------------------------------------
(* The manager.                                                            *)

\* proc.start(), for one process after the other.
Start ==
  /\ manager = "starting"
  /\ status' = [status EXCEPT ![processes[next]] = "running"]
  /\ manager' = IF IsLast THEN "monitoring" ELSE "starting"
  /\ next' = IF IsLast THEN 1 ELSE next + 1
  /\ UNCHANGED <<streamVars, processes, signals, monitor, interrupts, cleaned, telemetry>>

\* Slip: every process of the list.
AllProcesses == {w \in Workers : status[w] # "none"}

\* Slip: only the streams, on whose end the pipeline is to end.
StreamsAlive == {w \in Streams : Running(w)}

\* p.is_alive() for every p in _processes.
AliveNow == {w \in Workers : Running(w)}

\* A round of the monitor begins: it ends the loop when no process is alive.
Poll ==
  /\ manager = "monitoring"
  /\ alive' = AliveNow
  /\ manager' = IF alive' = {} THEN "terminating" ELSE "checking"
  /\ reported' = {}
  /\ failedBefore' = {w \in Workers : status[w] = "failed"}
  /\ UNCHANGED <<streamVars, processes, next, status, signals, interrupts, cleaned, telemetry>>

\* The exit codes of the processes that were found alive are asked for.
CheckExitCodes ==
  /\ manager = "checking"
  /\ reported' = {w \in alive : status[w] = "failed"}
  /\ alive' = {}
  /\ manager' = "monitoring"
  /\ UNCHANGED <<streamVars, processes, next, status, signals, failedBefore, interrupts, cleaned, telemetry>>

\* Slip: whom the last snapshot holds.
WasAlive(w) == w \in alive

\* is_alive(), asked when the process is to be terminated.
IsAlive(w) == Running(w)

\* finally: proc.terminate(), for one process after the other.
TerminateNext ==
  /\ manager = "terminating"
  /\ LET w == processes[next]
     IN  signals' = IF IsAlive(w) THEN [signals EXCEPT ![w] = @ \cup {"TERM"}] ELSE signals
  /\ manager' = IF IsLast THEN "joining" ELSE "terminating"
  /\ next' = IF IsLast THEN 1 ELSE next + 1
  /\ UNCHANGED <<streamVars, processes, status, monitor, interrupts, cleaned, telemetry>>

\* proc.join(timeout=5.0) of all of them: each has ended or its time is up.
Join ==
  /\ manager = "joining"
  /\ manager' = "leaving"
  /\ cleaned' = TRUE
  /\ UNCHANGED <<streamVars, processes, next, status, signals, monitor, interrupts, telemetry>>

\* Slip: the writer is not started as a daemon, so that it may finish its batch.
IsDaemonUnlessWriter(w) == w # Persistence

\* daemon=True, for every process.
IsDaemon(w) == TRUE

\* The interpreter exits: multiprocessing terminates the daemons that are left ...
Leave ==
  /\ manager = "leaving"
  /\ signals' = [w \in Workers |-> IF Running(w) /\ IsDaemon(w)
                                   THEN signals[w] \cup {"TERM"} ELSE signals[w]]
  /\ manager' = "reaping"
  /\ UNCHANGED <<streamVars, processes, next, status, monitor, interrupts, cleaned, telemetry>>

\* ... and waits for every child.
Reap ==
  /\ manager = "reaping"
  /\ \A w \in Workers : ~Running(w)
  /\ manager' = "exited"
  /\ UNCHANGED <<streamVars, processes, next, status, signals, monitor, interrupts, cleaned, telemetry>>

\* SIGINT, to the whole group (Ctrl+C) or to the manager alone.  In the monitor it leads
\* to the finally block; before it and within it nothing catches it.
Interrupt ==
  /\ interrupts < MaxInterrupts
  /\ manager \in {"starting", "monitoring", "checking", "terminating", "joining"}
  /\ interrupts' = interrupts + 1
  /\ manager' = IF manager \in {"monitoring", "checking"} THEN "terminating" ELSE "leaving"
  /\ next' = 1
  /\ \/ UNCHANGED signals
     \/ signals' = [w \in Workers |-> IF Running(w) THEN signals[w] \cup {"INT"} ELSE signals[w]]
  /\ alive' = {} /\ reported' = {} /\ failedBefore' = {}
  /\ UNCHANGED <<streamVars, processes, status, cleaned, telemetry>>

\* SIGTERM or SIGKILL to the manager alone, which has no handler: its children stay.
KillManager ==
  /\ manager \notin {"exited", "killed"}
  /\ manager' = "killed"
  /\ UNCHANGED <<streamVars, processes, next, status, signals, monitor, interrupts, cleaned, telemetry>>

Manage == Start \/ Poll \/ CheckExitCodes \/ TerminateNext \/ Join \/ Leave \/ Reap

-------------------------------------------------------------------------------
(* The workers.                                                            *)

\* The process of w ends, with exit code 0 ("exited") or another ("failed"); what ZeroMQ
\* and the fusion worker held in its memory is gone with it.
Ends(w, outcome) ==
  /\ Running(w)
  /\ status' = [status EXCEPT ![w] = outcome]
  /\ signals' = [signals EXCEPT ![w] = {}]
  /\ inbox' = IF w = Fusion THEN [s \in Streams |-> 0] ELSE inbox
  /\ pending' = IF w = Fusion THEN {} ELSE pending
  /\ UNCHANGED <<managing, written>>

\* An exception that nothing catches: a video or a port that cannot be opened, a frame
\* that detector or tracker refuse, a payload that cannot be read.
Fail(w) == Ends(w, "failed") /\ UNCHANGED streamVars

\* SIGTERM has its default effect in every worker.
Die(w) == "TERM" \in signals[w] /\ Ends(w, "failed") /\ UNCHANGED streamVars

\* KeyboardInterrupt: the fusion worker catches it and closes its sockets, in the
\* others it ends the process with a traceback.
Cancel(w) ==
  /\ "INT" \in signals[w]
  /\ Ends(w, IF w = Fusion THEN "exited" ELSE "failed")
  /\ UNCHANGED streamVars

\* A stream worker handles a frame; its message is held for the fusion worker or lost.
Publish(s) ==
  /\ Running(s)
  /\ ProcessFrame(s)
  /\ \/ Running(Fusion) /\ inbox' = [inbox EXCEPT ![s] = @ + 1]
     \/ UNCHANGED inbox
  /\ UNCHANGED <<managing, status, signals, pending, written>>

\* The video ends, and with it the worker.
Finish(s) ==
  /\ EndOfVideo(s)
  /\ Ends(s, "exited")

\* Slip: the last messages stay in pending.
KeepPending(p) == p

\* pending.clear().
ClearPending(p) == {}

\* The fusion worker takes a message; once every configured stream has one pending it
\* answers, and the persistence worker gets the answer if it is there and nothing is lost.
Receive(s) ==
  /\ Running(Fusion)
  /\ inbox[s] > 0
  /\ inbox' = [inbox EXCEPT ![s] = @ - 1]
  /\ IF Cardinality(pending \cup {s}) < Cardinality(Configured)
     THEN pending' = pending \cup {s} /\ UNCHANGED written
     ELSE /\ pending' = ClearPending(pending \cup {s})
          /\ written' \in IF Running(Persistence) THEN {written, written + 1} ELSE {written}
  /\ UNCHANGED <<streamVars, managing, status, signals>>

Work ==
  \/ \E w \in Workers : Fail(w) \/ Die(w) \/ Cancel(w)
  \/ \E s \in Streams : Publish(s) \/ Finish(s) \/ Receive(s)

Next == Manage \/ Interrupt \/ KillManager \/ Work

\* The manager's loops go on, and a process that was signalled acts on it.
Fairness == WF_vars(Manage) /\ \A w \in Workers : WF_vars(Die(w)) /\ WF_vars(Cancel(w))

Spec == Init /\ [][Next]_vars /\ Fairness

-------------------------------------------------------------------------------
Ended == {"exited", "failed"}

\* Every variable has a value of its type.
TypeOK ==
  /\ StreamTypeOK
  /\ processes \in Seq(Workers) /\ next \in 1..Len(processes)
  /\ manager \in {"starting", "monitoring", "checking", "terminating", "joining",
                  "leaving", "reaping", "exited", "killed"}
  /\ status \in [Workers -> {"none", "running"} \cup Ended]
  /\ signals \in [Workers -> SUBSET {"INT", "TERM"}]
  /\ alive \subseteq Workers /\ reported \subseteq Workers /\ failedBefore \subseteq Workers
  /\ interrupts \in 0..MaxInterrupts /\ cleaned \in BOOLEAN
  /\ inbox \in [Streams -> Nat] /\ pending \subseteq Streams
  /\ written \in Nat

\* When the finally block of run() has gone through, no worker is left that was not told
\* to stop, whenever the interrupt came and whichever worker was just ending.
CleanupReachesEveryWorker ==
  cleaned => \A w \in Workers : Running(w) => "TERM" \in signals[w]

\* Ctrl+C, at any moment and even twice, ends the manager and all workers
\* ("All worker processes terminate gracefully"), unless someone kills the manager.
InterruptEndsEverything ==
  interrupts > 0 ~> \/ manager = "killed"
                    \/ manager = "exited" /\ \A w \in Workers : ~Running(w)

\* The monitor asks only living processes for their exit code, so it reports a worker
\* that fails between its two looks at it, and none that had failed before the round:
\* a failure that one round misses is never reported.
OnlyThisRoundsFailuresAreReported == reported \cap failedBefore = {}

\* Where streams are fused, the persistence worker gets no more answers than the slowest
\* of them has sent messages: when one video ends or one stream worker dies, nothing more
\* is written for the others.
WriterNeedsEveryStream ==
  status[Fusion] # "none" => \A s \in Configured : written <= sent[s]

\* The monitor's loop ends by itself only after the persistence worker, and the fusion
\* worker if there is one, failed or were stopped: the end of the videos does not end it.
VideosDoNotEndThePipeline ==
  manager \in {"terminating", "joining", "leaving", "reaping", "exited"} /\ interrupts = 0
    => \A w \in {Fusion, Persistence} : status[w] \in {"none", "failed"}

\* Where the reader skips frames the detector is shown older and older ones: after k
\* packets the raw frame lies k * (skip - 1) frames behind the packet it is taken for.
DetectorFallsBehind ==
  \A s \in Streams : shown[s] # NoFrame /\ status[s] # "exited" =>
    at[s] - shown[s] = sent[s] * (FrameSkip(video[s]) - 1)

-------------------------------------------------------------------------------
(* What the documentation says and the code does not do.                   *)

\* The loops of the workers go on too: a stream worker handles its frames to the end of
\* the video, the fusion worker takes the messages that are there.
FairSpec ==
  Spec /\ \A s \in Streams : WF_vars(Publish(s)) /\ WF_vars(Finish(s)) /\ WF_vars(Receive(s))

\* Nobody stops the pipeline, and no worker of it fails.
Undisturbed ==
  /\ manager \in {"starting", "monitoring", "checking"}
  /\ \A w \in Workers : status[w] # "failed"

\* ADVANCED_GUIDE.md:890: "Run single-stream pipeline on a real video, verify detections
\* + tracks in DB".  So what the only stream publishes reaches the writer in the end,
\* unless the pipeline is stopped or a worker fails.
SingleStreamIsWritten ==
  \A s \in Streams : Configured = {s} /\ sent[s] > 0 ~> written > 0 \/ ~Undisturbed
===============================================================================
