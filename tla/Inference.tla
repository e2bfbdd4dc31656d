------------------------------- MODULE Inference -------------------------------
(***************************************************************************)
(* scripts/inference.py: shows a detector the frames of a video, of a      *)
(* folder of images or of every sequence of a data set, one after the      *)
(* other, and writes the annotated frames to a video, to images or both.   *)
(***************************************************************************)
EXTENDS VisDrone

CONSTANT Modes  \* what --source-type may be: "video", "images", "mot"

ASSUME ModesAssumption == Modes \subseteq {"video", "images", "mot"}

VARIABLES mode,    \* source_type
          saving,  \* of "video" and "images", what is to be saved
          showing, \* args.show
          stage,   \* "idle", "open", "frame", "close", "done" or "failed"
          folder,  \* the sequence, 1 where there is only one source
          next,    \* the place of the next frame in it
          writer,  \* the size that the open cv2.VideoWriter takes, or None
          videos,  \* the frames in the video of each sequence, or None
          saved    \* the annotated images on disk

infVars == <<mode, saving, showing, stage, folder, next, writer, videos, saved>>

None == <<0>>

NumFolders == IF mode = "mot" THEN NumSequences ELSE 1

Frames == SortedImages(folder)

\* Width and height.  The frames of one video are all of one size.
SizeOf(f) == IF mode # "video" /\ f \in input.odd[folder] THEN <<2, 1>> ELSE <<3, 2>>

CanRead(f) == f \notin input.unreadable[folder]

InfInit ==
  /\ mode \in Modes /\ saving \in SUBSET {"video", "images"} /\ showing \in BOOLEAN
  /\ stage = "idle" /\ folder = 1 /\ next = 1
  /\ writer = None /\ videos = [s \in SequenceNames |-> None] /\ saved = {}

InfStart ==
  /\ stage = "idle" /\ stage' = "open"
  /\ UNCHANGED <<mode, saving, showing, folder, next, writer, videos, saved>>

NextFolder ==
  IF folder < NumFolders THEN folder' = folder + 1 /\ stage' = "open"
  ELSE folder' = folder /\ stage' = "done"

\* A sequence without images is passed over; a folder without, or a video that cannot
\* be opened, ends the script.
InfNothing ==
  /\ stage = "open" /\ Frames = <<>>
  /\ IF mode = "mot" THEN NextFolder ELSE stage' = "failed" /\ UNCHANGED folder
  /\ UNCHANGED <<mode, saving, showing, next, writer, videos, saved>>

\* Slip: width and height the other way round.
Transposed(size) == <<size[2], size[1]>>

\* h, w = first.shape[:2]; VideoWriter(..., (w, h)).
WriterSize(size) == size

NewVideo(size) == writer' = WriterSize(size) /\ videos' = [videos EXCEPT ![folder] = <<>>]

NoVideo == writer' = None /\ UNCHANGED videos

\* The writer of a video has the size of the capture.
InfOpenVideo ==
  /\ stage = "open" /\ mode = "video" /\ Frames # <<>>
  /\ IF "video" \in saving THEN NewVideo(SizeOf(Frames[1])) ELSE NoVideo
  /\ stage' = "frame" /\ next' = 1
  /\ UNCHANGED <<mode, saving, showing, folder, saved>>

\* That of a folder is made for the size of its first image, if that can be read.
InfOpenFolder ==
  /\ stage = "open" /\ mode # "video" /\ Frames # <<>>
  /\ IF "video" \in saving /\ CanRead(Frames[1]) THEN NewVideo(SizeOf(Frames[1])) ELSE NoVideo
  /\ stage' = "frame" /\ next' = 1
  /\ UNCHANGED <<mode, saving, showing, folder, saved>>

AtFrame == stage = "frame" /\ next <= Len(Frames)

\* A frame is shown to the model, drawn on and saved; the writer drops one of another
\* size.  The user may then press q.
Handle(f) ==
  /\ videos' = IF writer = SizeOf(f) THEN [videos EXCEPT ![folder] = Append(@, f)] ELSE videos
  /\ saved' = IF "images" \in saving THEN saved \cup {<<folder, f>>} ELSE saved
  /\ next' = next + 1
  /\ stage' = "frame" \/ (showing /\ stage' = "close")
  /\ UNCHANGED <<mode, saving, showing, folder, writer>>

InfVideoFrame == AtFrame /\ mode = "video" /\ CanRead(Frames[next]) /\ Handle(Frames[next])

InfImage == AtFrame /\ mode # "video" /\ CanRead(Frames[next]) /\ Handle(Frames[next])

\* An image that cannot be read is passed over; a video ends there.
InfUnreadable ==
  /\ AtFrame /\ ~CanRead(Frames[next])
  /\ IF mode = "video" THEN stage' = "close" /\ UNCHANGED next
     ELSE next' = next + 1 /\ UNCHANGED stage
  /\ UNCHANGED <<mode, saving, showing, folder, writer, videos, saved>>

IsOver == stage = "close" \/ (stage = "frame" /\ next > Len(Frames))

\* writer.release(), and the next sequence, after a q too.
InfClose ==
  /\ IsOver
  /\ writer' = None
  /\ NextFolder
  /\ UNCHANGED <<mode, saving, showing, next, videos, saved>>

InfNext ==
  \/ InfStart \/ InfNothing \/ InfOpenVideo \/ InfOpenFolder
  \/ InfVideoFrame \/ InfImage \/ InfUnreadable \/ InfClose

-------------------------------------------------------------------------------
InfTypeOK ==
  /\ stage \in {"idle", "open", "frame", "close", "done", "failed"}
  /\ folder \in 1..NumFolders /\ next \in Nat \ {0}
  /\ writer \in {None, <<3, 2>>, <<2, 1>>}
  /\ \A s \in SequenceNames : videos[s] = None \/ Range(videos[s]) \subseteq input.images[s]
  /\ saved \subseteq SequenceNames \X UNION Range(input.images)

\* Whatever else the sequences hold, the video of one whose images can all be read and
\* are of one size has its images and no others, in order: all of them, unless the
\* user stopped it; and the images saved are the same.
VideoHoldsItsSequence ==
  stage = "done" =>
    \A s \in 1..NumFolders :
      input.images[s] # {} /\ input.unreadable[s] = {} /\ input.odd[s] = {} =>
        LET there == {f \in input.images[s] : <<s, f>> \in saved}
        IN  /\ "video" \in saving =>
                 /\ IsPrefix(videos[s], SortedImages(s))
                 /\ ~showing => videos[s] = SortedImages(s)
                 /\ "images" \in saving => there = Range(videos[s])
            /\ "images" \in saving /\ ~showing => there = input.images[s]
===============================================================================
