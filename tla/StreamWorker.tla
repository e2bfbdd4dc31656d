----------------------------- MODULE StreamWorker -----------------------------
(***************************************************************************)
(* run_stream_worker of workers/stream_worker.py with the VideoReader of   *)
(* ingestion/reader.py.  The worker opens its video twice: the reader, who *)
(* skips frames to come down to the target rate, gives the packets (frame  *)
(* id, timestamp, shape), and a second capture gives one raw frame for     *)
(* each packet, which is what detector and tracker look at.                *)
(***************************************************************************)
EXTENDS Integers

CONSTANTS Streams,    \* the names of config.streams
          TargetFps,  \* input.target_fps
          VideoSets   \* the videos they may have: for each how many frames, the rate it
                      \* reports (0 for none), and whether the second capture opens

ASSUME RateAssumption == TargetFps \in Nat \ {0}
ASSUME VideosAssumption ==
  VideoSets \subseteq [Streams -> [frames : Nat, fps : Nat, rawOpens : BOOLEAN]]

VARIABLES video,  \* each stream's source
          at,     \* frames the reader's capture has advanced
          raw,    \* frames raw_cap has advanced
          sent,   \* telemetry messages published, one for each packet
          shown   \* the raw frame of the last packet, NoFrame when there was none

streamVars == <<video, at, raw, sent, shown>>

NoFrame == 0

\* Slip: no max(1, ...).
FrameSkipUnclamped(v) == (IF v.fps = 0 THEN 30 ELSE v.fps) \div TargetFps

\* _frame_skip: max(1, int(fps / target_fps)), with a rate of 30 when none is reported.
FrameSkip(v) ==
  LET fps == IF v.fps = 0 THEN 30 ELSE v.fps
  IN  IF fps < TargetFps THEN 1 ELSE fps \div TargetFps

StreamInit ==
  /\ video \in VideoSets
  /\ at = [s \in Streams |-> 0]
  /\ raw = [s \in Streams |-> 0]
  /\ sent = [s \in Streams |-> 0]
  /\ shown = [s \in Streams |-> NoFrame]

\* Slip: raw_cap is advanced as the reader is.
RawInStep(s) == IF video[s].rawOpens THEN at[s] + FrameSkip(video[s]) ELSE raw[s]

\* raw_cap.read(): one frame, while there is one and the capture could be opened.
RawFrames(s) ==
  IF video[s].rawOpens /\ raw[s] < video[s].frames THEN raw[s] + 1 ELSE raw[s]

\* The body of the loop: the reader grabs frame_skip - 1 frames and decodes the next, the
\* second capture reads one frame, detector and tracker work, and a message goes out.
ProcessFrame(s) ==
  /\ at[s] + FrameSkip(video[s]) <= video[s].frames
  /\ at' = [at EXCEPT ![s] = @ + FrameSkip(video[s])]
  /\ raw' = [raw EXCEPT ![s] = RawFrames(s)]
  /\ shown' = [shown EXCEPT ![s] = IF raw'[s] > raw[s] THEN raw'[s] ELSE NoFrame]
  /\ sent' = [sent EXCEPT ![s] = @ + 1]
  /\ UNCHANGED video

\* grab() or read() finds no frame: the generator returns, the loop and the worker end.
EndOfVideo(s) ==
  /\ at[s] + FrameSkip(video[s]) > video[s].frames
  /\ at' = [at EXCEPT ![s] = video[s].frames]
  /\ UNCHANGED <<video, raw, sent, shown>>

-------------------------------------------------------------------------------
StreamTypeOK ==
  /\ video \in VideoSets
  /\ at \in [Streams -> Nat] /\ raw \in [Streams -> Nat]
  /\ sent \in [Streams -> Nat] /\ shown \in [Streams -> Nat]
  /\ \A s \in Streams : sent[s] <= at[s] /\ raw[s] <= at[s] /\ at[s] <= video[s].frames
===============================================================================
