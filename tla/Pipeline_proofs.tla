---------------------------- MODULE Pipeline_proofs ----------------------------
(***************************************************************************)
(* Proofs about Pipeline, for any streams, videos and frame rates and any  *)
(* number of interrupts.                                                   *)
(***************************************************************************)
EXTENDS Pipeline, FiniteSetTheorems, TLAPS

-------------------------------------------------------------------------------
(* Types.                                                                  *)

LEMMA QuotientIsPositive ==
  ASSUME NEW a \in Nat, NEW b \in Nat \ {0}, b <= a
  PROVE  a \div b \in Nat \ {0}
<1> DEFINE q == a \div b
           r == a % b
<1>1. q \in Int /\ r \in 0..(b - 1) /\ a = b * q + r
  OBVIOUS
<1> HIDE DEF q, r
<1>2. ASSUME q <= 0  PROVE FALSE
  <2>1. b * q <= 0
    BY <1>1, <1>2
  <2> QED
    BY <1>1, <2>1
<1> QED
  BY <1>1, <1>2 DEF q

LEMMA VideoFacts ==
  ASSUME video \in VideoSets, NEW s \in Streams
  PROVE  /\ video[s].frames \in Nat /\ video[s].rawOpens \in BOOLEAN
         /\ FrameSkip(video[s]) \in Nat \ {0}
<1>1. video \in [Streams -> [frames : Nat, fps : Nat, rawOpens : BOOLEAN]]
  BY VideosAssumption
<1> DEFINE fps == IF video[s].fps = 0 THEN 30 ELSE video[s].fps
<1>2. video[s].frames \in Nat /\ video[s].rawOpens \in BOOLEAN /\ fps \in Nat
  BY <1>1
<1>3. FrameSkip(video[s]) = IF fps < TargetFps THEN 1 ELSE fps \div TargetFps
  BY DEF FrameSkip
<1> HIDE DEF fps
<1>4. CASE fps < TargetFps
  BY <1>2, <1>3, <1>4
<1>5. CASE TargetFps <= fps
  BY <1>2, <1>3, <1>5, QuotientIsPositive, RateAssumption
<1> QED
  BY <1>2, <1>4, <1>5, RateAssumption

\* The list of processes: sequences of workers, the persistence worker last.
LEMMA ListFacts ==
  ASSUME NEW enabled \in BOOLEAN, NEW streams \in StreamLists
  PROVE  /\ Processes(enabled, streams) \in Seq(Workers)
         /\ Len(Processes(enabled, streams)) \in Nat \ {0}
<1>1. streams \in Seq(Streams)
  BY ListsAssumption
<1> DEFINE front == IF enabled /\ Len(streams) >= 2 THEN <<Fusion>> ELSE <<>>
<1>2. front \in Seq(Workers) /\ streams \in Seq(Workers) /\ <<Persistence>> \in Seq(Workers)
  BY <1>1 DEF Workers
<1>3. Processes(enabled, streams) = (front \o streams) \o <<Persistence>>
  BY DEF Processes
<1> HIDE DEF front
<1>4. front \o streams \in Seq(Workers) /\ Len(front \o streams) \in Nat
  BY <1>2
<1> QED
  BY <1>2, <1>3, <1>4

\* The ways in which the process of a worker ends.
LEMMA EndingFacts ==
  ASSUME TypeOK, NEW w \in Workers, Fail(w) \/ Die(w) \/ Cancel(w) \/ (w \in Streams /\ Finish(w))
  PROVE  /\ Running(w) /\ UNCHANGED <<managing, written>>
         /\ status' \in [Workers -> {"none", "running"} \cup Ended]
         /\ status'[w] \in Ended
         /\ \A v \in Workers : v # w => status'[v] = status[v]
         /\ signals' \in [Workers -> SUBSET {"INT", "TERM"}]
         /\ \A v \in Workers : v # w => signals'[v] = signals[v]
         /\ \/ inbox' = inbox /\ pending' = pending
            \/ inbox' = [s \in Streams |-> 0] /\ pending' = {}
         /\ status'[w] = "exited" => w \in Streams \/ "INT" \in signals[w]
<1>1. PICK outcome \in Ended :
        /\ Ends(w, outcome)
        /\ outcome = "exited" => w \in Streams \/ "INT" \in signals[w]
  BY DEF Fail, Die, Cancel, Finish, Ended
<1>2. /\ status \in [Workers -> {"none", "running"} \cup Ended]
      /\ signals \in [Workers -> SUBSET {"INT", "TERM"}]
  BY DEF TypeOK
<1>3. /\ status' = [status EXCEPT ![w] = outcome]
      /\ signals' = [signals EXCEPT ![w] = {}]
      /\ Running(w) /\ UNCHANGED <<managing, written>>
  BY <1>1 DEF Ends
<1>4. /\ status' \in [Workers -> {"none", "running"} \cup Ended]
      /\ status'[w] = outcome
      /\ \A v \in Workers : v # w => status'[v] = status[v]
  BY <1>1, <1>2, <1>3
<1>5. /\ signals' \in [Workers -> SUBSET {"INT", "TERM"}]
      /\ \A v \in Workers : v # w => signals'[v] = signals[v]
  BY <1>2, <1>3
<1>6. \/ inbox' = inbox /\ pending' = pending
      \/ inbox' = [s \in Streams |-> 0] /\ pending' = {}
  BY <1>1 DEF Ends
<1> QED
  BY <1>1, <1>3, <1>4, <1>5, <1>6

LEMMA EndingKeepsTypes ==
  ASSUME TypeOK, NEW w \in Workers, Fail(w) \/ Die(w) \/ Cancel(w) \/ (w \in Streams /\ Finish(w))
  PROVE  TypeOK'
<1>1. StreamTypeOK'
  <2>1. CASE UNCHANGED streamVars
    BY <2>1 DEF TypeOK, StreamTypeOK, streamVars
  <2>2. CASE w \in Streams /\ EndOfVideo(w)
    <3>1. video \in VideoSets /\ w \in Streams
      BY <2>2 DEF TypeOK, StreamTypeOK
    <3>2. video[w].frames \in Nat
      BY <3>1, VideoFacts
    <3>3. /\ at \in [Streams -> Nat] /\ raw \in [Streams -> Nat]
          /\ sent \in [Streams -> Nat] /\ shown \in [Streams -> Nat]
          /\ \A r \in Streams : sent[r] <= at[r] /\ raw[r] <= at[r] /\ at[r] <= video[r].frames
      BY DEF TypeOK, StreamTypeOK
    <3>4. /\ at' = [at EXCEPT ![w] = video[w].frames]
          /\ video' = video /\ raw' = raw /\ sent' = sent /\ shown' = shown
      BY <2>2 DEF EndOfVideo
    <3>5. at' \in [Streams -> Nat]
      BY <3>2, <3>3, <3>4
    <3>6. \A r \in Streams : sent[r] <= at'[r] /\ raw[r] <= at'[r] /\ at'[r] <= video[r].frames
      <4> SUFFICES ASSUME NEW r \in Streams
                   PROVE  sent[r] <= at'[r] /\ raw[r] <= at'[r] /\ at'[r] <= video[r].frames
        OBVIOUS
      <4>1. CASE r = w
        <5>1. at'[r] = video[r].frames /\ at[r] \in Nat /\ sent[r] \in Nat /\ raw[r] \in Nat
          BY <3>3, <3>4, <4>1
        <5> QED
          BY <3>2, <3>3, <4>1, <5>1
      <4>2. CASE r # w
        BY <3>3, <3>4, <4>2
      <4> QED
        BY <4>1, <4>2
    <3> QED
      BY <3>1, <3>3, <3>4, <3>5, <3>6 DEF StreamTypeOK
  <2> QED
    BY <2>1, <2>2 DEF Fail, Die, Cancel, Finish
<1> QED
  BY <1>1, EndingFacts DEF TypeOK, managing, monitor

LEMMA PublishKeepsTypes ==
  ASSUME TypeOK, NEW s \in Streams, Publish(s)
  PROVE  TypeOK'
<1>1. /\ video[s].frames \in Nat /\ FrameSkip(video[s]) \in Nat \ {0}
  BY VideoFacts DEF TypeOK, StreamTypeOK
<1>2. RawFrames(s) \in Nat /\ raw[s] <= RawFrames(s) /\ RawFrames(s) <= raw[s] + 1
  BY <1>1 DEF RawFrames, TypeOK, StreamTypeOK
<1>3. /\ at[s] \in Nat /\ sent[s] \in Nat /\ raw[s] \in Nat
      /\ sent[s] <= at[s] /\ raw[s] <= at[s] /\ at[s] + FrameSkip(video[s]) <= video[s].frames
  BY DEF Publish, ProcessFrame, TypeOK, StreamTypeOK
<1>4. /\ at' = [at EXCEPT ![s] = at[s] + FrameSkip(video[s])]
      /\ raw' = [raw EXCEPT ![s] = RawFrames(s)]
      /\ sent' = [sent EXCEPT ![s] = sent[s] + 1]
      /\ video' = video
      /\ \E n \in Nat : shown' = [shown EXCEPT ![s] = n]
  BY <1>2, <1>3 DEF Publish, ProcessFrame, TypeOK, StreamTypeOK, NoFrame
<1>5. at'[s] \in Nat /\ raw'[s] \in Nat /\ sent'[s] \in Nat
        /\ sent'[s] <= at'[s] /\ raw'[s] <= at'[s] /\ at'[s] <= video'[s].frames
  <2>1. at'[s] = at[s] + FrameSkip(video[s]) /\ raw'[s] = RawFrames(s) /\ sent'[s] = sent[s] + 1
    BY <1>4 DEF TypeOK, StreamTypeOK
  <2>2. video'[s].frames = video[s].frames
    BY <1>4
  <2> QED
    BY <1>1, <1>2, <1>3, <2>1, <2>2
<1>6. StreamTypeOK'
  <2>1. /\ at' \in [Streams -> Nat] /\ raw' \in [Streams -> Nat]
        /\ sent' \in [Streams -> Nat] /\ shown' \in [Streams -> Nat]
    <3>1. /\ at \in [Streams -> Nat] /\ raw \in [Streams -> Nat]
          /\ sent \in [Streams -> Nat] /\ shown \in [Streams -> Nat]
      BY DEF TypeOK, StreamTypeOK
    <3>2. at[s] + FrameSkip(video[s]) \in Nat /\ sent[s] + 1 \in Nat
      BY <1>1, <1>3
    <3>3. at' \in [Streams -> Nat] /\ raw' \in [Streams -> Nat] /\ sent' \in [Streams -> Nat]
      BY <1>2, <1>4, <3>1, <3>2
    <3>4. shown' \in [Streams -> Nat]
      BY <1>4, <3>1
    <3> QED
      BY <3>3, <3>4
  <2>2. \A r \in Streams : r # s => at'[r] = at[r] /\ raw'[r] = raw[r] /\ sent'[r] = sent[r]
    BY <1>4 DEF TypeOK, StreamTypeOK
  <2>3. \A r \in Streams :
          sent'[r] <= at'[r] /\ raw'[r] <= at'[r] /\ at'[r] <= video'[r].frames
    BY <1>4, <1>5, <2>2 DEF TypeOK, StreamTypeOK
  <2> QED
    BY <1>4, <2>1, <2>3 DEF TypeOK, StreamTypeOK
<1> QED
  BY <1>6 DEF Publish, TypeOK, managing, monitor

LEMMA ReceiveKeepsTypes ==
  ASSUME TypeOK, NEW s \in Streams, Receive(s)
  PROVE  TypeOK'
<1>1. inbox' \in [Streams -> Nat] /\ pending' \subseteq Streams /\ written' \in Nat
  BY DEF Receive, ClearPending, TypeOK
<1> QED
  BY <1>1 DEF Receive, TypeOK, StreamTypeOK, streamVars, managing, monitor

LEMMA ManageKeepsTypes ==
  ASSUME TypeOK, Manage \/ Interrupt \/ KillManager
  PROVE  TypeOK'
<1>1. StreamTypeOK' /\ inbox' = inbox /\ pending' = pending /\ written' = written
        /\ processes' = processes
  BY DEF Manage, Start, Poll, CheckExitCodes, TerminateNext, Join, Leave, Reap, Interrupt,
         KillManager, TypeOK, StreamTypeOK, streamVars, telemetry
<1>2. processes \in Seq(Workers) /\ Len(processes) \in Nat /\ next \in 1..Len(processes)
        /\ processes[next] \in Workers
  BY DEF TypeOK
<1>3. next' \in 1..Len(processes')
  BY <1>1, <1>2
     DEF Manage, Start, Poll, CheckExitCodes, TerminateNext, Join, Leave, Reap, Interrupt,
         KillManager, IsLast
<1>4. status' \in [Workers -> {"none", "running"} \cup Ended]
  BY <1>2
     DEF TypeOK, Manage, Start, Poll, CheckExitCodes, TerminateNext, Join, Leave, Reap,
         Interrupt, KillManager
<1>5. signals' \in [Workers -> SUBSET {"INT", "TERM"}]
  BY <1>2
     DEF TypeOK, Manage, Start, Poll, CheckExitCodes, TerminateNext, Join, Leave, Reap,
         Interrupt, KillManager
<1>6. alive' \subseteq Workers /\ reported' \subseteq Workers /\ failedBefore' \subseteq Workers
  BY DEF TypeOK, Manage, Start, Poll, CheckExitCodes, TerminateNext, Join, Leave, Reap,
         Interrupt, KillManager, AliveNow, monitor
<1>7. interrupts' \in 0..MaxInterrupts
  BY InterruptsAssumption
     DEF TypeOK, Manage, Start, Poll, CheckExitCodes, TerminateNext, Join, Leave, Reap,
         Interrupt, KillManager
<1>9. cleaned' \in BOOLEAN
  <2>1. cleaned' = cleaned \/ cleaned' = TRUE
    BY DEF Manage, Start, Poll, CheckExitCodes, TerminateNext, Join, Leave, Reap,
           Interrupt, KillManager
  <2> QED
    BY <2>1, Zenon DEF TypeOK
<1>8. manager' \in {"starting", "monitoring", "checking", "terminating", "joining",
                    "leaving", "reaping", "exited", "killed"}
  BY DEF TypeOK, Manage, Start, Poll, CheckExitCodes, TerminateNext, Join, Leave, Reap,
         Interrupt, KillManager
<1> QED
  BY <1>1, <1>2, <1>3, <1>4, <1>5, <1>6, <1>7, <1>8, <1>9 DEF TypeOK

\* Every variable keeps its type; no capture is ahead of what its video holds.
THEOREM TypeCorrect == Spec => []TypeOK
<1>1. Init => TypeOK
  <2> SUFFICES ASSUME Init PROVE TypeOK
    OBVIOUS
  <2>1. PICK enabled \in BOOLEAN, streams \in StreamLists : processes = Processes(enabled, streams)
    BY DEF Init
  <2>2. processes \in Seq(Workers) /\ Len(processes) \in Nat \ {0}
    BY <2>1, ListFacts
  <2>3. \A s \in Streams : video[s].frames \in Nat
    BY VideoFacts DEF Init, StreamInit
  <2>4. StreamTypeOK
    BY <2>3 DEF Init, StreamInit, StreamTypeOK, NoFrame
  <2>5. interrupts \in 0..MaxInterrupts /\ next \in 1..Len(processes)
    BY <2>2, InterruptsAssumption DEF Init
  <2>6. cleaned \in BOOLEAN
    BY Zenon DEF Init
  <2> QED
    BY <2>2, <2>4, <2>5, <2>6 DEF Init, TypeOK
<1>2. TypeOK /\ [Next]_vars => TypeOK'
  <2> SUFFICES ASSUME TypeOK, [Next]_vars PROVE TypeOK'
    OBVIOUS
  <2>1. CASE Manage \/ Interrupt \/ KillManager
    BY <2>1, ManageKeepsTypes
  <2>2. ASSUME NEW w \in Workers, Fail(w) \/ Die(w) \/ Cancel(w)  PROVE TypeOK'
    BY <2>2, EndingKeepsTypes
  <2>3. ASSUME NEW s \in Streams, Finish(s)  PROVE TypeOK'
    BY <2>3, EndingKeepsTypes DEF Workers
  <2>4. ASSUME NEW s \in Streams, Publish(s)  PROVE TypeOK'
    BY <2>4, PublishKeepsTypes
  <2>5. ASSUME NEW s \in Streams, Receive(s)  PROVE TypeOK'
    BY <2>5, ReceiveKeepsTypes
  <2>6. CASE UNCHANGED vars
    BY <2>6
       DEF vars, streamVars, managing, monitor, telemetry, TypeOK, StreamTypeOK
  <2> QED
    BY <2>1, <2>2, <2>3, <2>4, <2>5, <2>6 DEF Next, Work
<1> QED
  BY <1>1, <1>2, PTL DEF Spec

-------------------------------------------------------------------------------
(* The cleanup.                                                            *)

Told(w) == Running(w) => "TERM" \in signals[w]

\* The loop over the list misses no worker, because what runs is in the list; what it
\* has passed stays told, because no process is started any more.
CleanupInv ==
  /\ \A w \in Workers : Running(w) => \E i \in 1..Len(processes) : processes[i] = w
  /\ manager = "terminating" => \A i \in 1..(next - 1) : Told(processes[i])
  /\ manager = "joining" => \A w \in Workers : Told(w)
  /\ cleaned => /\ manager \in {"leaving", "reaping", "exited", "killed"}
                /\ \A w \in Workers : Told(w)

\* A step that starts no process, withdraws no signal, leaves the manager where it is.
LEMMA CleanupUntouched ==
  ASSUME TypeOK, CleanupInv,
         UNCHANGED <<processes, manager, next, cleaned>>,
         \A w \in Workers : Running(w)' => Running(w) /\ signals[w] \subseteq signals'[w]
  PROVE  CleanupInv'
<1>1. \A w \in Workers : Told(w) => Told(w)'
  BY DEF Told, Running
<1>2. \A i \in 1..(next - 1) : processes[i] \in Workers
  BY DEF TypeOK
<1> QED
  BY <1>1, <1>2 DEF CleanupInv

LEMMA ManageKeepsCleanup ==
  ASSUME TypeOK, CleanupInv, Manage \/ Interrupt \/ KillManager
  PROVE  CleanupInv'
<1>1. /\ processes' = processes /\ Len(processes) \in Nat /\ next \in 1..Len(processes)
      /\ \A i \in 1..Len(processes) : processes[i] \in Workers
  BY DEF TypeOK, Manage, Start, Poll, CheckExitCodes, TerminateNext, Join, Leave, Reap,
         Interrupt, KillManager
<1>2. /\ status \in [Workers -> {"none", "running"} \cup Ended]
      /\ signals \in [Workers -> SUBSET {"INT", "TERM"}]
  BY DEF TypeOK
<1>3. CASE Start
  <2>1. \A w \in Workers : Running(w)' => Running(w) \/ w = processes[next]
    BY <1>2, <1>3 DEF Start, Running
  <2>2. manager' \in {"starting", "monitoring"} /\ ~cleaned'
    BY <1>3, Zenon DEF Start, CleanupInv
  <2> QED
    BY <1>1, <2>1, <2>2 DEF CleanupInv
<1>4. CASE Poll
  <2>1. UNCHANGED <<status, signals, next, cleaned>> /\ manager' \in {"terminating", "checking"}
        /\ ~cleaned
    BY <1>4, Zenon DEF Poll, CleanupInv
  <2>2. manager' = "terminating" => \A w \in Workers : ~Running(w)'
    BY <1>4 DEF Poll, AliveNow, Running
  <2> QED
    BY <1>1, <2>1, <2>2 DEF CleanupInv, Told, Running
<1>5. CASE CheckExitCodes \/ Reap \/ KillManager
  <2>1. UNCHANGED <<status, signals, next, cleaned>>
    BY <1>5 DEF CheckExitCodes, Reap, KillManager
  <2>2. \/ manager = "checking" /\ manager' = "monitoring"
        \/ manager' \in {"exited", "killed"}
    BY <1>5 DEF CheckExitCodes, Reap, KillManager
  <2> QED
    BY <1>1, <2>1, <2>2 DEF CleanupInv, Told, Running
<1>6. CASE TerminateNext
  <2> PICK w \in Workers : w = processes[next]
    BY <1>1
  <2>1. manager = "terminating"
    BY <1>6 DEF TerminateNext
  <2>2. /\ UNCHANGED <<status, cleaned>>
        /\ signals' = IF Running(w) THEN [signals EXCEPT ![w] = @ \cup {"TERM"}] ELSE signals
    BY <1>6 DEF TerminateNext, IsAlive
  <2>3. /\ \A v \in Workers : Told(v) => Told(v)'
        /\ Told(w)'
    BY <1>2, <2>1, <2>2 DEF Told, Running
  <2>4. \A i \in 1..next : Told(processes[i])'
    BY <1>1, <2>1, <2>3 DEF CleanupInv
  <2>5. \A v \in Workers : Running(v)' => \E i \in 1..Len(processes) : processes[i] = v
    BY <2>2 DEF CleanupInv, Running
  <2>6. ~cleaned'
    BY <2>1, <2>2, Zenon DEF CleanupInv
  <2>7. CASE next = Len(processes)
    <3>1. \A v \in Workers : Told(v)'
      BY <1>1, <2>4, <2>5, <2>7 DEF Told
    <3>2. manager' = "joining"
      BY <1>6, <2>7 DEF TerminateNext, IsLast
    <3> QED
      BY <1>1, <2>5, <2>6, <3>1, <3>2 DEF CleanupInv
  <2>8. CASE next # Len(processes)
    <3>1. manager' = "terminating" /\ next' = next + 1
      BY <1>6, <2>8 DEF TerminateNext, IsLast
    <3>2. \A i \in 1..(next' - 1) : Told(processes[i])'
      BY <1>1, <2>4, <3>1
    <3> QED
      BY <1>1, <2>5, <2>6, <3>1, <3>2 DEF CleanupInv
  <2> QED
    BY <2>7, <2>8
<1>7. CASE Join
  <2>1. manager = "joining" /\ manager' = "leaving" /\ UNCHANGED <<status, signals, next>>
    BY <1>7 DEF Join
  <2> QED
    BY <1>1, <2>1 DEF CleanupInv, Told, Running
<1>8. CASE Leave
  <2>1. manager = "leaving" /\ manager' = "reaping" /\ UNCHANGED <<status, cleaned>>
    BY <1>8 DEF Leave
  <2>2. \A w \in Workers : signals[w] \subseteq signals'[w]
    BY <1>2, <1>8 DEF Leave
  <2> QED
    BY <1>1, <2>1, <2>2 DEF CleanupInv, Told, Running
<1>9. CASE Interrupt
  <2>1. /\ manager' \in {"leaving", "terminating"} /\ next' = 1 /\ UNCHANGED <<status, cleaned>>
        /\ ~cleaned
    BY <1>9, Zenon DEF Interrupt, CleanupInv
  <2> QED
    BY <1>1, <2>1 DEF CleanupInv, Running
<1> QED
  BY <1>3, <1>4, <1>5, <1>6, <1>7, <1>8, <1>9 DEF Manage

LEMMA CleanupInvariant == Spec => []CleanupInv
<1>1. Init => CleanupInv
  BY DEF Init, CleanupInv, Running
<1>2. TypeOK /\ CleanupInv /\ [Next]_vars => CleanupInv'
  <2> SUFFICES ASSUME TypeOK, CleanupInv, [Next]_vars PROVE CleanupInv'
    OBVIOUS
  <2>1. CASE Manage \/ Interrupt \/ KillManager
    BY <2>1, ManageKeepsCleanup
  <2>2. ASSUME NEW w \in Workers, Fail(w) \/ Die(w) \/ Cancel(w) \/ (w \in Streams /\ Finish(w))
        PROVE  CleanupInv'
    <3>1. /\ UNCHANGED <<processes, manager, next, cleaned>> /\ status'[w] \in Ended
          /\ \A v \in Workers : v # w => status'[v] = status[v] /\ signals'[v] = signals[v]
      BY <2>2, EndingFacts DEF managing
    <3>2. \A v \in Workers : Running(v)' => Running(v) /\ signals[v] \subseteq signals'[v]
      BY <3>1 DEF Running, Ended
    <3> QED
      BY <3>1, <3>2, CleanupUntouched
  <2>3. ASSUME NEW s \in Streams, Publish(s) \/ Receive(s)  PROVE CleanupInv'
    <3>1. UNCHANGED <<processes, manager, next, cleaned, status, signals>>
      BY <2>3 DEF Publish, Receive, managing
    <3> QED
      BY <3>1, CleanupUntouched DEF Running
  <2>4. CASE UNCHANGED vars
    BY <2>4, CleanupUntouched DEF vars, managing, Running
  <2> QED
    BY <2>1, <2>2, <2>3, <2>4 DEF Next, Work, Workers
<1> QED
  BY <1>1, <1>2, TypeCorrect, PTL DEF Spec

\* When the finally block of run() has gone through, no worker is left that was not told
\* to stop, whenever the interrupts came and whichever workers were just ending.
THEOREM CleanupMissesNoWorker == Spec => []CleanupReachesEveryWorker
<1>1. CleanupInv => CleanupReachesEveryWorker
  BY DEF CleanupInv, CleanupReachesEveryWorker, Told
<1> QED
  BY <1>1, CleanupInvariant, PTL

-------------------------------------------------------------------------------
(* The monitor.                                                            *)

MonitorInv == alive \cap failedBefore = {} /\ reported \cap failedBefore = {}

\* The monitor reports no failure from before its round: it asks only those that it has
\* found alive.
THEOREM OldFailuresGoUnreported == Spec => []OnlyThisRoundsFailuresAreReported
<1>1. Init => MonitorInv
  BY DEF Init, MonitorInv
<1>2. TypeOK /\ MonitorInv /\ [Next]_vars => MonitorInv'
  <2> SUFFICES ASSUME TypeOK, MonitorInv, [Next]_vars PROVE MonitorInv'
    OBVIOUS
  <2>1. CASE Poll
    BY <2>1 DEF Poll, MonitorInv, AliveNow, Running
  <2>2. CASE CheckExitCodes
    BY <2>2 DEF CheckExitCodes, MonitorInv
  <2>3. CASE Interrupt
    BY <2>3 DEF Interrupt, MonitorInv
  <2>4. CASE Start \/ TerminateNext \/ Join \/ Leave \/ Reap \/ KillManager
    BY <2>4 DEF Start, TerminateNext, Join, Leave, Reap, KillManager, monitor, MonitorInv
  <2>5. ASSUME NEW w \in Workers, Fail(w) \/ Die(w) \/ Cancel(w) \/ (w \in Streams /\ Finish(w))
        PROVE  MonitorInv'
    BY <2>5, EndingFacts DEF managing, monitor, MonitorInv
  <2>6. ASSUME NEW s \in Streams, Publish(s) \/ Receive(s)  PROVE MonitorInv'
    BY <2>6 DEF Publish, Receive, managing, monitor, MonitorInv
  <2>7. CASE UNCHANGED vars
    BY <2>7 DEF vars, managing, monitor, MonitorInv
  <2> QED
    BY <2>1, <2>2, <2>3, <2>4, <2>5, <2>6, <2>7 DEF Next, Manage, Work, Workers
<1>3. MonitorInv => OnlyThisRoundsFailuresAreReported
  BY DEF MonitorInv, OnlyThisRoundsFailuresAreReported
<1> QED
  BY <1>1, <1>2, <1>3, TypeCorrect, PTL DEF Spec

\* While nobody has pressed Ctrl+C, only an end that is a failure comes to the fusion and
\* the persistence worker, and the monitor's loop has ended only if all had ended.
EndInv ==
  interrupts = 0 =>
    /\ \A w \in Workers : "INT" \notin signals[w]
    /\ status[Fusion] # "exited" /\ status[Persistence] # "exited"
    /\ manager \in {"terminating", "joining", "leaving", "reaping", "exited"} =>
         \A w \in Workers : ~Running(w)

LEMMA ManageKeepsEndInv ==
  ASSUME TypeOK, EndInv, Manage \/ Interrupt \/ KillManager
  PROVE  EndInv'
<1>1. /\ status \in [Workers -> {"none", "running"} \cup Ended]
      /\ signals \in [Workers -> SUBSET {"INT", "TERM"}]
      /\ processes[next] \in Workers /\ interrupts \in Nat
  BY DEF TypeOK
<1>2. Fusion \in Workers /\ Persistence \in Workers
  BY DEF Workers
<1>3. CASE Start
  <2>1. /\ manager' \in {"starting", "monitoring"}
        /\ UNCHANGED <<signals, interrupts>>
        /\ status' = [status EXCEPT ![processes[next]] = "running"]
    BY <1>3 DEF Start
  <2> QED
    BY <1>1, <1>2, <2>1 DEF EndInv
<1>4. CASE Poll
  BY <1>4 DEF Poll, AliveNow, Running, EndInv
<1>5. CASE CheckExitCodes \/ KillManager
  BY <1>5 DEF CheckExitCodes, KillManager, EndInv, Running
<1>6. CASE TerminateNext
  <2>1. /\ manager = "terminating" /\ UNCHANGED <<status, interrupts>>
        /\ \A w \in Workers : "INT" \in signals'[w] => "INT" \in signals[w]
    BY <1>1, <1>6 DEF TerminateNext
  <2> QED
    BY <2>1 DEF EndInv, Running
<1>7. CASE Join \/ Reap
  BY <1>7 DEF Join, Reap, EndInv, Running
<1>8. CASE Leave
  <2>1. /\ manager = "leaving" /\ UNCHANGED <<status, interrupts>>
        /\ \A w \in Workers : "INT" \in signals'[w] => "INT" \in signals[w]
    BY <1>1, <1>8 DEF Leave
  <2> QED
    BY <2>1 DEF EndInv, Running
<1>9. CASE Interrupt
  BY <1>1, <1>9 DEF Interrupt, EndInv
<1> QED
  BY <1>3, <1>4, <1>5, <1>6, <1>7, <1>8, <1>9 DEF Manage

\* The end of the videos does not end the pipeline: without Ctrl+C the monitor's loop ends
\* only after the persistence worker, and the fusion worker if any, have failed.
THEOREM PipelineOutlivesItsVideos == Spec => []VideosDoNotEndThePipeline
<1>1. Init => EndInv
  BY DEF Init, EndInv, Workers
<1>2. TypeOK /\ EndInv /\ [Next]_vars => EndInv'
  <2> SUFFICES ASSUME TypeOK, EndInv, [Next]_vars PROVE EndInv'
    OBVIOUS
  <2>1. CASE Manage \/ Interrupt \/ KillManager
    BY <2>1, ManageKeepsEndInv
  <2>2. ASSUME NEW w \in Workers, Fail(w) \/ Die(w) \/ Cancel(w) \/ (w \in Streams /\ Finish(w))
        PROVE  EndInv'
    <3>1. /\ UNCHANGED <<manager, interrupts>>
          /\ status'[w] \in Ended
          /\ status'[w] = "exited" => w \in Streams \/ "INT" \in signals[w]
          /\ \A v \in Workers : v # w => status'[v] = status[v] /\ signals'[v] = signals[v]
      BY <2>2, EndingFacts DEF managing
    <3>2. signals'[w] = {}
      <4>1. signals' = [signals EXCEPT ![w] = {}]
        BY <2>2 DEF Fail, Die, Cancel, Finish, Ends
      <4> QED
        BY <4>1 DEF TypeOK
    <3>3. Fusion \in Workers \ Streams /\ Persistence \in Workers \ Streams
      BY WorkersAssumption DEF Workers
    <3> QED
      BY <3>1, <3>2, <3>3 DEF EndInv, Running, Ended
  <2>3. ASSUME NEW s \in Streams, Publish(s) \/ Receive(s)  PROVE EndInv'
    <3>1. UNCHANGED <<manager, interrupts, status, signals>>
      BY <2>3 DEF Publish, Receive, managing
    <3> QED
      BY <3>1 DEF EndInv, Running
  <2>4. CASE UNCHANGED vars
    BY <2>4 DEF vars, managing, EndInv, Running
  <2> QED
    BY <2>1, <2>2, <2>3, <2>4 DEF Next, Work, Workers
<1>3. TypeOK /\ EndInv => VideosDoNotEndThePipeline
  <2>1. TypeOK => status \in [Workers -> {"none", "running", "exited", "failed"}]
    BY DEF TypeOK, Ended
  <2>2. Fusion \in Workers /\ Persistence \in Workers
    BY DEF Workers
  <2> QED
    BY <2>1, <2>2 DEF EndInv, VideosDoNotEndThePipeline, Running
<1> QED
  BY <1>1, <1>2, <1>3, TypeCorrect, PTL DEF Spec

-------------------------------------------------------------------------------
(* Starting.                                                               *)

LEMMA ListIsInjective ==
  ASSUME NEW enabled \in BOOLEAN, NEW streams \in StreamLists,
         NEW list, list = Processes(enabled, streams),
         NEW i \in 1..Len(list), NEW j \in 1..Len(list), list[i] = list[j]
  PROVE  i = j
<1>1. streams \in Seq(Streams) /\ \A k, l \in DOMAIN streams : streams[k] = streams[l] => k = l
  BY ListsAssumption
<1>2. Fusion # Persistence /\ Fusion \notin Streams /\ Persistence \notin Streams
  BY WorkersAssumption
<1> DEFINE n == Len(streams)
<1>3. n \in Nat /\ DOMAIN streams = 1..n /\ \A k \in 1..n : streams[k] \in Streams
  BY <1>1
<1>4. CASE enabled /\ n >= 2
  <2>1. list = <<Fusion>> \o streams \o <<Persistence>>
    BY <1>4 DEF Processes
  <2>2. /\ Len(list) = n + 2 /\ list[1] = Fusion /\ list[n + 2] = Persistence
        /\ \A k \in 2..(n + 1) : list[k] = streams[k - 1] /\ k - 1 \in 1..n
    BY <1>1, <1>3, <2>1
  <2> HIDE DEF n
  <2>3. \A k \in 1..Len(list) : k = 1 \/ k = n + 2 \/ k \in 2..(n + 1)
    BY <1>3, <2>2
  <2>4. \A k \in 2..(n + 1) : list[k] \in Streams
    BY <1>3, <2>2
  <2>5. CASE i \in 2..(n + 1) /\ j \in 2..(n + 1)
    <3>1. /\ i - 1 \in DOMAIN streams /\ j - 1 \in DOMAIN streams
          /\ streams[i - 1] = streams[j - 1]
      BY <1>3, <2>2, <2>5
    <3>2. i - 1 = j - 1
      BY <1>1, <3>1
    <3> QED
      BY <1>3, <2>5, <3>2
  <2>6. CASE ~(i \in 2..(n + 1) /\ j \in 2..(n + 1))
    BY <1>2, <2>2, <2>3, <2>4, <2>6
  <2> QED
    BY <2>5, <2>6
<1>5. CASE ~(enabled /\ n >= 2)
  <2>1. list = <<>> \o streams \o <<Persistence>>
    BY <1>5 DEF Processes
  <2>2. /\ Len(list) = n + 1 /\ list[n + 1] = Persistence
        /\ \A k \in 1..n : list[k] = streams[k]
    BY <1>1, <1>3, <2>1
  <2> HIDE DEF n
  <2>3. \A k \in 1..Len(list) : k = n + 1 \/ k \in 1..n
    BY <1>3, <2>2
  <2> QED
    BY <1>1, <1>2, <1>3, <2>2, <2>3
<1> QED
  BY <1>4, <1>5

\* The loop starts each process once, so no process runs a second time.
StartInv ==
  /\ \A i, j \in 1..Len(processes) : processes[i] = processes[j] => i = j
  /\ manager = "starting" =>
       \A i \in next..Len(processes) : status[processes[i]] = "none"

LEMMA StartInvariant == Spec => []StartInv
<1>1. Init => StartInv
  <2> SUFFICES ASSUME Init PROVE StartInv
    OBVIOUS
  <2>1. PICK enabled \in BOOLEAN, streams \in StreamLists : processes = Processes(enabled, streams)
    BY DEF Init
  <2>2. \A i, j \in 1..Len(processes) : processes[i] = processes[j] => i = j
    BY <2>1, ListIsInjective
  <2>3. processes \in Seq(Workers) /\ next = 1
    BY <2>1, ListFacts DEF Init
  <2> QED
    BY <2>2, <2>3 DEF Init, StartInv
<1>2. TypeOK /\ StartInv /\ [Next]_vars => StartInv'
  <2> SUFFICES ASSUME TypeOK, StartInv, [Next]_vars PROVE StartInv'
    OBVIOUS
  <2>1. /\ processes \in Seq(Workers) /\ next \in 1..Len(processes) /\ Len(processes) \in Nat
        /\ status \in [Workers -> {"none", "running"} \cup Ended]
        /\ \A i \in 1..Len(processes) : processes[i] \in Workers
    BY DEF TypeOK
  <2>2. CASE Start
    <3>1. /\ processes' = processes
          /\ status' = [status EXCEPT ![processes[next]] = "running"]
          /\ manager' = "starting" => next' = next + 1
      BY <2>2 DEF Start, IsLast
    <3>2. \A i \in (next + 1)..Len(processes) : status'[processes[i]] = "none"
      BY <2>1, <2>2, <3>1 DEF StartInv, Start
    <3> QED
      BY <3>1, <3>2 DEF StartInv
  <2>3. CASE Poll \/ CheckExitCodes \/ TerminateNext \/ Join \/ Leave \/ Reap
               \/ Interrupt \/ KillManager
    <3>1. processes' = processes /\ manager' # "starting"
      BY <2>3 DEF Poll, CheckExitCodes, TerminateNext, Join, Leave, Reap, Interrupt, KillManager
    <3> QED
      BY <3>1 DEF StartInv
  <2>4. ASSUME NEW w \in Workers, Fail(w) \/ Die(w) \/ Cancel(w) \/ (w \in Streams /\ Finish(w))
        PROVE  StartInv'
    <3>1. /\ UNCHANGED <<processes, manager, next>> /\ status[w] = "running"
          /\ \A v \in Workers : v # w => status'[v] = status[v]
      BY <2>4, EndingFacts DEF managing, Running
    <3> QED
      BY <2>1, <3>1 DEF StartInv
  <2>5. ASSUME NEW s \in Streams, Publish(s) \/ Receive(s)  PROVE StartInv'
    BY <2>5 DEF Publish, Receive, managing, StartInv
  <2>6. CASE UNCHANGED vars
    BY <2>6 DEF vars, managing, StartInv
  <2> QED
    BY <2>2, <2>3, <2>4, <2>5, <2>6 DEF Next, Manage, Work, Workers
<1> QED
  BY <1>1, <1>2, TypeCorrect, PTL DEF Spec

-------------------------------------------------------------------------------
(* The two captures.                                                       *)

\* How far each capture of a video that has not ended has come after sent[s] packets.
CaptureInv ==
  \A s \in Streams : status[s] # "exited" =>
    /\ at[s] = sent[s] * FrameSkip(video[s])
    /\ shown[s] = raw[s]
    /\ raw[s] = IF video[s].rawOpens THEN sent[s] ELSE 0

LEMMA PublishKeepsCaptures ==
  ASSUME TypeOK, CaptureInv, NEW s \in Streams, Publish(s)
  PROVE  CaptureInv'
<1> DEFINE skip == FrameSkip(video[s])
<1>1. /\ video[s].frames \in Nat /\ video[s].rawOpens \in BOOLEAN /\ skip \in Nat \ {0}
  BY VideoFacts DEF TypeOK, StreamTypeOK
<1>2. /\ at[s] \in Nat /\ sent[s] \in Nat /\ raw[s] \in Nat
      /\ sent[s] <= at[s] /\ at[s] + skip <= video[s].frames
      /\ status[s] = "running"
  BY DEF Publish, ProcessFrame, TypeOK, StreamTypeOK, Running
<1>3. /\ at'[s] = at[s] + skip
      /\ raw'[s] = RawFrames(s)
      /\ sent'[s] = sent[s] + 1
      /\ shown'[s] = IF raw'[s] > raw[s] THEN raw'[s] ELSE NoFrame
      /\ video' = video /\ status' = status
      /\ \A r \in Streams : r # s => /\ at'[r] = at[r] /\ raw'[r] = raw[r]
                                     /\ sent'[r] = sent[r] /\ shown'[r] = shown[r]
  BY DEF Publish, ProcessFrame, TypeOK, StreamTypeOK
<1>4. /\ at[s] = sent[s] * skip
      /\ raw[s] = IF video[s].rawOpens THEN sent[s] ELSE 0
  BY <1>2 DEF CaptureInv
<1> HIDE DEF skip
<1>5. at'[s] = sent'[s] * skip
  <2>1. (sent[s] + 1) * skip = sent[s] * skip + skip
    BY <1>1, <1>2
  <2> QED
    BY <1>3, <1>4, <2>1
<1>6. raw'[s] = IF video[s].rawOpens THEN sent'[s] ELSE 0
  <2>1. CASE video[s].rawOpens
    <3>1. raw[s] < video[s].frames
      BY <1>1, <1>2, <1>4, <2>1
    <3> QED
      BY <1>3, <1>4, <2>1, <3>1 DEF RawFrames
  <2>2. CASE ~video[s].rawOpens
    BY <1>3, <1>4, <2>2 DEF RawFrames
  <2> QED
    BY <2>1, <2>2
<1>7. shown'[s] = raw'[s]
  BY <1>2, <1>3, <1>4, <1>6 DEF NoFrame
<1> QED
  BY <1>3, <1>5, <1>6, <1>7 DEF CaptureInv, skip

LEMMA ProductLessOne ==
  ASSUME NEW k \in Int, NEW n \in Int
  PROVE  n * (k - 1) = n * k - n
OBVIOUS

\* After k packets the raw frame that detector and tracker see lies k * (skip - 1) frames
\* behind the packet.
THEOREM DetectorLags == Spec => []DetectorFallsBehind
<1>1. Init => CaptureInv
  <2> SUFFICES ASSUME Init, NEW s \in Streams
               PROVE  0 = 0 * FrameSkip(video[s])
    BY DEF Init, StreamInit, CaptureInv, NoFrame
  <2>1. FrameSkip(video[s]) \in Nat
    BY VideoFacts DEF Init, StreamInit
  <2> QED
    BY <2>1
<1>2. TypeOK /\ StartInv /\ CaptureInv /\ [Next]_vars => CaptureInv'
  <2> SUFFICES ASSUME TypeOK, StartInv, CaptureInv, [Next]_vars PROVE CaptureInv'
    OBVIOUS
  <2>1. CASE Manage \/ Interrupt \/ KillManager
    <3>1. UNCHANGED streamVars
      BY <2>1 DEF Manage, Start, Poll, CheckExitCodes, TerminateNext, Join, Leave, Reap,
                  Interrupt, KillManager
    <3>2. CASE Start
      <4>1. /\ status' = [status EXCEPT ![processes[next]] = "running"]
            /\ status[processes[next]] = "none"
        BY <3>2 DEF Start, StartInv, TypeOK
      <4>2. \A s \in Streams : status[s] = "exited" => status'[s] = "exited"
        BY <4>1 DEF TypeOK, Workers
      <4> QED
        BY <3>1, <4>2 DEF CaptureInv, streamVars
    <3>3. CASE status' = status
      BY <3>1, <3>3 DEF CaptureInv, streamVars
    <3> QED
      BY <2>1, <3>2, <3>3
         DEF Manage, Poll, CheckExitCodes, TerminateNext, Join, Leave, Reap, Interrupt,
             KillManager
  <2>2. ASSUME NEW w \in Workers, Fail(w) \/ Die(w) \/ Cancel(w)  PROVE CaptureInv'
    <3>1. UNCHANGED streamVars
      BY <2>2 DEF Fail, Die, Cancel
    <3>2. /\ status[w] = "running"
          /\ \A v \in Workers : v # w => status'[v] = status[v]
      BY <2>2, EndingFacts DEF Running
    <3> QED
      BY <3>1, <3>2 DEF CaptureInv, streamVars, Workers
  <2>3. ASSUME NEW r \in Streams, Finish(r)  PROVE CaptureInv'
    <3>1. /\ UNCHANGED <<video, raw, sent, shown>>
          /\ \A s \in Streams : s # r => at'[s] = at[s] /\ status'[s] = status[s]
          /\ status'[r] = "exited"
      BY <2>3 DEF Finish, EndOfVideo, Ends, TypeOK, StreamTypeOK, Workers
    <3> QED
      BY <3>1 DEF CaptureInv
  <2>4. ASSUME NEW s \in Streams, Publish(s)  PROVE CaptureInv'
    BY <2>4, PublishKeepsCaptures
  <2>5. ASSUME NEW s \in Streams, Receive(s)  PROVE CaptureInv'
    BY <2>5 DEF Receive, streamVars, CaptureInv
  <2>6. CASE UNCHANGED vars
    BY <2>6 DEF vars, streamVars, CaptureInv
  <2> QED
    BY <2>1, <2>2, <2>3, <2>4, <2>5, <2>6 DEF Next, Work
<1>3. TypeOK /\ CaptureInv => DetectorFallsBehind
  <2> SUFFICES ASSUME TypeOK, CaptureInv, NEW s \in Streams,
                      shown[s] # NoFrame, status[s] # "exited"
               PROVE  at[s] - shown[s] = sent[s] * (FrameSkip(video[s]) - 1)
    BY DEF DetectorFallsBehind
  <2> DEFINE skip == FrameSkip(video[s])
  <2>1. skip \in Nat /\ sent[s] \in Nat /\ at[s] = sent[s] * skip /\ shown[s] = sent[s]
    <3>1. skip \in Nat /\ sent[s] \in Nat
      BY VideoFacts DEF TypeOK, StreamTypeOK
    <3> HIDE DEF skip
    <3>2. at[s] = sent[s] * skip /\ shown[s] = sent[s]
      BY DEF CaptureInv, NoFrame, skip
    <3> QED
      BY <3>1, <3>2
  <2> HIDE DEF skip
  <2>2. sent[s] * (skip - 1) = sent[s] * skip - sent[s]
    BY <2>1, ProductLessOne
  <2>3. at[s] - shown[s] = sent[s] * (skip - 1)
    BY <2>1, <2>2
  <2> QED
    BY <2>3 DEF skip
<1> QED
  BY <1>1, <1>2, <1>3, TypeCorrect, StartInvariant, PTL DEF Spec

-------------------------------------------------------------------------------
(* What reaches the writer.                                                *)

Pend(s) == IF s \in pending THEN 1 ELSE 0

\* Every message of a stream is used in one answer, waits, or is gone.
WriterInv ==
  /\ pending \subseteq Configured
  /\ \A s \in Streams : s \notin Configured => inbox[s] = 0
  /\ \A s \in Configured : written + Pend(s) + inbox[s] <= sent[s]

LEMMA ConfiguredFacts ==
  ASSUME processes \in Seq(Workers)
  PROVE  /\ Configured \subseteq Streams /\ IsFiniteSet(Configured)
         /\ processes' = processes => Configured' = Configured
<1>1. Configured \in SUBSET Streams
  BY DEF Configured
<1>2. IsFiniteSet(Configured)
  BY <1>1, WorkersAssumption, FS_Subset
<1> QED
  BY <1>1, <1>2 DEF Configured

\* Only once each configured stream has a message pending is there an answer.
LEMMA AnswerNeedsAll ==
  ASSUME NEW P \in SUBSET Configured, IsFiniteSet(Configured),
         ~(Cardinality(P) < Cardinality(Configured))
  PROVE  P = Configured
<1>1. /\ IsFiniteSet(P) /\ Cardinality(P) <= Cardinality(Configured)
      /\ Cardinality(P) = Cardinality(Configured) => Configured = P
  BY FS_Subset
<1>2. Cardinality(P) \in Nat /\ Cardinality(Configured) \in Nat
  BY <1>1, FS_CardinalityType
<1> QED
  BY <1>1, <1>2

LEMMA ReceiveKeepsWriterInv ==
  ASSUME TypeOK, WriterInv, NEW s \in Streams, Receive(s)
  PROVE  WriterInv'
<1>1. /\ Configured \subseteq Streams /\ IsFiniteSet(Configured) /\ Configured' = Configured
  BY ConfiguredFacts DEF TypeOK, Receive, managing
<1>2. /\ inbox \in [Streams -> Nat] /\ sent \in [Streams -> Nat] /\ written \in Nat
      /\ pending \subseteq Configured /\ sent' = sent
      /\ inbox[s] > 0 /\ inbox' = [inbox EXCEPT ![s] = inbox[s] - 1]
  BY DEF Receive, TypeOK, StreamTypeOK, streamVars, WriterInv
<1>3. s \in Configured
  BY <1>2 DEF WriterInv
<1> DEFINE P == pending \cup {s}
<1>4. P \in SUBSET Configured
  BY <1>2, <1>3
<1>5. CASE Cardinality(P) < Cardinality(Configured)
  <2>1. pending' = P /\ written' = written
    BY <1>5 DEF Receive
  <2>2. \A r \in Configured : written' + Pend(r)' + inbox'[r] <= sent'[r]
    <3>1. \A r \in Configured : Pend(r)' = (IF r \in P THEN 1 ELSE 0) /\ r \in Streams
      BY <1>1, <2>1 DEF Pend
    <3> QED
      BY <1>2, <1>3, <2>1, <3>1 DEF WriterInv, Pend
  <2> QED
    BY <1>1, <1>2, <1>3, <1>4, <2>1, <2>2 DEF WriterInv
<1>6. CASE ~(Cardinality(P) < Cardinality(Configured))
  <2>1. P = Configured
    BY <1>1, <1>4, <1>6, AnswerNeedsAll
  <2>2. pending' = {} /\ written' \in {written, written + 1}
    BY <1>6 DEF Receive, ClearPending
  <2>3. \A r \in Configured : written' + Pend(r)' + inbox'[r] <= sent'[r]
    <3> SUFFICES ASSUME NEW r \in Configured  PROVE written' + 0 + inbox'[r] <= sent'[r]
      BY <2>2 DEF Pend
    <3>1. r \in Streams /\ (r = s \/ r \in pending)
      BY <1>1, <2>1
    <3>2. written + Pend(r) + inbox[r] <= sent[r]
      BY DEF WriterInv
    <3> QED
      BY <1>2, <2>2, <3>1, <3>2 DEF Pend
  <2> QED
    BY <1>1, <1>2, <1>3, <2>2, <2>3 DEF WriterInv
<1> QED
  BY <1>5, <1>6

LEMMA PublishKeepsWriterInv ==
  ASSUME TypeOK, WriterInv, CleanupInv, NEW s \in Streams, Publish(s)
  PROVE  WriterInv'
<1>1. /\ Configured \subseteq Streams /\ Configured' = Configured
  BY ConfiguredFacts DEF TypeOK, Publish, managing
<1>2. s \in Configured
  BY DEF Publish, CleanupInv, Configured, Workers, TypeOK
<1>3. /\ inbox \in [Streams -> Nat] /\ sent \in [Streams -> Nat] /\ written \in Nat
      /\ pending' = pending /\ written' = written
      /\ sent' = [sent EXCEPT ![s] = sent[s] + 1]
      /\ inbox' = inbox \/ inbox' = [inbox EXCEPT ![s] = inbox[s] + 1]
  BY DEF Publish, ProcessFrame, TypeOK, StreamTypeOK
<1>4. \A r \in Configured : written' + Pend(r)' + inbox'[r] <= sent'[r]
  <2> SUFFICES ASSUME NEW r \in Configured  PROVE written + Pend(r) + inbox'[r] <= sent'[r]
    BY <1>1, <1>3 DEF Pend
  <2>1. written + Pend(r) + inbox[r] <= sent[r] /\ Pend(r) \in Nat
    BY DEF WriterInv, Pend
  <2>2. \/ r # s /\ inbox'[r] = inbox[r] /\ sent'[r] = sent[r]
        \/ r = s /\ inbox'[r] <= inbox[r] + 1 /\ sent'[r] = sent[r] + 1 /\ inbox'[r] \in Nat
    BY <1>1, <1>3
  <2> QED
    BY <1>1, <1>3, <2>1, <2>2
<1>5. \A r \in Streams : r \notin Configured' => inbox'[r] = 0
  BY <1>1, <1>2, <1>3 DEF WriterInv
<1> QED
  BY <1>1, <1>3, <1>4, <1>5 DEF WriterInv

LEMMA EndingKeepsWriterInv ==
  ASSUME TypeOK, WriterInv, NEW w \in Workers,
         Fail(w) \/ Die(w) \/ Cancel(w) \/ (w \in Streams /\ Finish(w))
  PROVE  WriterInv'
<1>1. /\ Configured \subseteq Streams /\ Configured' = Configured
  BY EndingFacts, ConfiguredFacts DEF TypeOK, managing
<1>2. /\ written' = written
      /\ \/ inbox' = inbox /\ pending' = pending
         \/ inbox' = [s \in Streams |-> 0] /\ pending' = {}
  BY EndingFacts
<1>3. sent' = sent
  BY DEF Fail, Die, Cancel, Finish, EndOfVideo, streamVars
<1>4. /\ inbox \in [Streams -> Nat] /\ sent \in [Streams -> Nat] /\ written \in Nat
  BY DEF TypeOK, StreamTypeOK
<1>5. CASE inbox' = inbox /\ pending' = pending
  BY <1>1, <1>2, <1>3, <1>5 DEF WriterInv, Pend
<1>6. CASE inbox' = [s \in Streams |-> 0] /\ pending' = {}
  <2>1. \A s \in Configured : written + 0 + 0 <= sent[s]
    BY <1>1, <1>4 DEF WriterInv, Pend
  <2> QED
    BY <1>1, <1>2, <1>3, <1>6, <2>1 DEF WriterInv, Pend
<1> QED
  BY <1>2, <1>5, <1>6

\* Where streams are fused, the persistence worker gets no more answers than the slowest of
\* them has sent messages.
THEOREM WriterWaitsForTheSlowest == Spec => []WriterNeedsEveryStream
<1>1. Init => WriterInv
  <2> SUFFICES ASSUME Init PROVE WriterInv
    OBVIOUS
  <2>1. Configured \subseteq Streams
    BY DEF Configured
  <2> QED
    BY <2>1 DEF Init, StreamInit, WriterInv, Pend
<1>2. TypeOK /\ CleanupInv /\ WriterInv /\ [Next]_vars => WriterInv'
  <2> SUFFICES ASSUME TypeOK, CleanupInv, WriterInv, [Next]_vars PROVE WriterInv'
    OBVIOUS
  <2>1. CASE Manage \/ Interrupt \/ KillManager
    <3>1. UNCHANGED <<processes, sent, inbox, pending, written>>
      BY <2>1 DEF Manage, Start, Poll, CheckExitCodes, TerminateNext, Join, Leave, Reap,
                  Interrupt, KillManager, streamVars, telemetry
    <3>2. Configured' = Configured
      BY <3>1 DEF Configured
    <3> QED
      BY <3>1, <3>2 DEF WriterInv, Pend
  <2>2. ASSUME NEW w \in Workers, Fail(w) \/ Die(w) \/ Cancel(w) \/ (w \in Streams /\ Finish(w))
        PROVE  WriterInv'
    BY <2>2, EndingKeepsWriterInv
  <2>3. ASSUME NEW s \in Streams, Publish(s)  PROVE WriterInv'
    BY <2>3, PublishKeepsWriterInv
  <2>4. ASSUME NEW s \in Streams, Receive(s)  PROVE WriterInv'
    BY <2>4, ReceiveKeepsWriterInv
  <2>5. CASE UNCHANGED vars
    BY <2>5 DEF vars, streamVars, managing, telemetry, WriterInv, Pend, Configured
  <2> QED
    BY <2>1, <2>2, <2>3, <2>4, <2>5 DEF Next, Work, Workers
<1>3. TypeOK /\ WriterInv => WriterNeedsEveryStream
  <2> SUFFICES ASSUME TypeOK, WriterInv, NEW s \in Configured  PROVE written <= sent[s]
    BY DEF WriterNeedsEveryStream
  <2>1. s \in Streams /\ inbox[s] \in Nat /\ sent[s] \in Nat /\ written \in Nat /\ Pend(s) \in Nat
    BY DEF Configured, TypeOK, StreamTypeOK, Pend
  <2> QED
    BY <2>1 DEF WriterInv
<1> QED
  BY <1>1, <1>2, <1>3, TypeCorrect, CleanupInvariant, PTL DEF Spec

===============================================================================
