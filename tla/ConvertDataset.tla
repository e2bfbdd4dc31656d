---------------------------- MODULE ConvertDataset ----------------------------
(***************************************************************************)
(* scripts/convert_visdrone_mot_to_yolo.py: makes a YOLO data set of the   *)
(* sequences, image by image in an order shuffled from a fixed seed, and   *)
(* leaves out images once a class has its share.  It may be interrupted    *)
(* anywhere, and be run again into the same directory, with the same cap   *)
(* or another.                                                             *)
(***************************************************************************)
EXTENDS VisDrone

CONSTANTS Caps,       \* what --max-per-class may be
          CopyModes,  \* what --copy-images may be
          MaxRuns     \* bound: times a script is run

ASSUME CapsAssumption == Caps \subseteq Nat /\ CopyModes \subseteq BOOLEAN /\ MaxRuns \in Nat

VARIABLES order,       \* the images as <<sequence, frame>>, in shuffled order
          cap,         \* args.max_per_class
          copying,     \* args.copy_images
          step,        \* what the script does next
          place,       \* the image it is at
          classCounts, \* class_counts
          imageFiles,  \* what is at each place under images/: "none", a "copy" or a "link"
          labelFiles,  \* the lines of each file under labels/, NoFile where there is none
          cvRuns,      \* history: runs begun
          capsUsed     \* history: their caps

cvVars == <<order, cap, copying, step, place, classCounts, imageFiles, labelFiles, cvRuns, capsUsed>>

NoFile == {[frame |-> 0]}

AllImages == UNION {{s} \X input.images[s] : s \in SequenceNames}

\* The loop over shuffled sequences and shuffled images: those of a sequence are together,
\* and those without annotations do not come.  The seed makes it the same in every run.
Orders ==
  {o \in SetToSeqs({i \in AllImages : HasAnnotations(i[1])}) :
     \A i, j, k \in DOMAIN o : i < j /\ j < k /\ o[i][1] = o[k][1] => o[j][1] = o[i][1]}

\* frame_anns of an image.
Anns(image) == {l \in Labels(image[1]) : l.frame = image[2]}

InClass(lines, c) == {l \in lines : YoloClass[l.category] = c}

Classes == 0..5

CvIdle ==
  /\ cap = 0 /\ copying = FALSE /\ step = "idle" /\ place = 1
  /\ classCounts = [c \in Classes |-> 0]
  /\ imageFiles = [i \in AllImages |-> "none"]
  /\ labelFiles = [i \in AllImages |-> NoFile]
  /\ cvRuns = 0 /\ capsUsed = {}

CvInit == CvIdle /\ order \in Orders

\* The script is started: nothing in the output directory is removed.
CvStart ==
  /\ step \in {"idle", "done", "stopped", "failed"} /\ cvRuns < MaxRuns
  /\ cap' \in Caps /\ copying' \in CopyModes
  /\ step' = "image" /\ place' = 1
  /\ classCounts' = [c \in Classes |-> 0]
  /\ cvRuns' = cvRuns + 1 /\ capsUsed' = capsUsed \cup {cap'}
  /\ UNCHANGED <<order, imageFiles, labelFiles>>

\* Slip: a class must have gone past the cap.
IsPastCap(counts, limit, lines) == limit > 0 /\ \E l \in lines : counts[YoloClass[l.category]] > limit

\* any(class_counts[c] >= max_per_class) over the lines of the image.
IsCapped(counts, limit, lines) == limit > 0 /\ \E l \in lines : counts[YoloClass[l.category]] >= limit

\* _get_image_size, which the first image of a sequence is given to, raises ValueError
\* for one whose header it cannot make out.
HasSize(i) ==
  LET isFirst == i = 1 \/ order[i - 1][1] # order[i][1]
  IN  isFirst => order[i][2] \notin input.unreadable[order[i][1]]

\* int(img_path.stem) raises ValueError for a name that is no number.
IsNumbered(i) == order[i][2] \notin input.misnamed[order[i][1]]

AtImage == step = "image" /\ place <= Len(order) /\ HasSize(place) /\ IsNumbered(place)

CvFail ==
  /\ step = "image" /\ place <= Len(order) /\ ~(HasSize(place) /\ IsNumbered(place))
  /\ step' = "failed"
  /\ UNCHANGED <<order, cap, copying, place, classCounts, imageFiles, labelFiles, cvRuns, capsUsed>>

\* The whole image is left out.
CvSkip ==
  /\ AtImage /\ IsCapped(classCounts, cap, Anns(order[place]))
  /\ place' = place + 1
  /\ UNCHANGED <<order, cap, copying, step, classCounts, imageFiles, labelFiles, cvRuns, capsUsed>>

\* The image is copied or linked.  Where a link to it is already, neither is possible:
\* copy2 is also the answer to a failed symlink_to, and raises SameFileError.
CvPlaceImage ==
  /\ AtImage /\ ~IsCapped(classCounts, cap, Anns(order[place]))
  /\ LET old == imageFiles[order[place]]
     IN  IF old = "link"
         THEN step' = "failed" /\ UNCHANGED imageFiles
         ELSE /\ imageFiles' = [imageFiles EXCEPT ![order[place]] =
                                  IF copying \/ old = "copy" THEN "copy" ELSE "link"]
              /\ step' = "label"
  /\ UNCHANGED <<order, cap, copying, place, classCounts, labelFiles, cvRuns, capsUsed>>

\* Slip: a label file that is there already is taken to be done.
KeptIfThere(old, lines) == IF old = NoFile THEN lines ELSE old

\* open(lbl_path, "w").
Rewritten(old, lines) == lines

\* The label file is written, and its lines are counted.
CvWriteLabels ==
  /\ step = "label"
  /\ LET lines == Anns(order[place])
     IN  /\ labelFiles' = [labelFiles EXCEPT ![order[place]] = Rewritten(@, lines)]
         /\ classCounts' = [c \in Classes |-> classCounts[c] + Cardinality(InClass(lines, c))]
  /\ step' = "image" /\ place' = place + 1
  /\ UNCHANGED <<order, cap, copying, imageFiles, cvRuns, capsUsed>>

CvFinish ==
  /\ step = "image" /\ place > Len(order)
  /\ step' = "done"
  /\ UNCHANGED <<order, cap, copying, place, classCounts, imageFiles, labelFiles, cvRuns, capsUsed>>

\* The process is killed; a label file that was being written keeps what had got there.
CvCrash ==
  /\ step \in {"image", "label"}
  /\ step' = "stopped"
  /\ \/ UNCHANGED labelFiles
     \/ /\ step = "label"
        /\ \E lines \in SUBSET Anns(order[place]) :
             labelFiles' = [labelFiles EXCEPT ![order[place]] = Rewritten(@, lines)]
  /\ UNCHANGED <<order, cap, copying, place, classCounts, imageFiles, cvRuns, capsUsed>>

CvNext == CvStart \/ CvFail \/ CvSkip \/ CvPlaceImage \/ CvWriteLabels \/ CvFinish \/ CvCrash

-------------------------------------------------------------------------------
CvTypeOK ==
  /\ cap \in Caps \cup {0} /\ copying \in BOOLEAN
  /\ step \in {"idle", "image", "label", "done", "stopped", "failed"}
  /\ place \in 1..(Len(order) + 1) /\ (step = "label" => place <= Len(order))
  /\ classCounts \in [Classes -> Nat]
  /\ imageFiles \in [AllImages -> {"none", "copy", "link"}]
  /\ \A i \in AllImages : labelFiles[i] = NoFile \/ labelFiles[i] \subseteq Anns(i)

\* The most lines of a class on one image.
MostAtOnce(c) == Max({0} \cup {Cardinality(InClass(Anns(i), c)) : i \in AllImages})

\* The cap is looked at before an image is taken, so a class goes past it by less than
\* what one image holds ("caps each class at 60,000 instances").
CapIsOvershotByOneImage ==
  cap > 0 => \A c \in Classes : classCounts[c] < cap + Max({1, MostAtOnce(c)})

\* The counts and the images taken after each of these images, computed from the
\* beginning; lines gives the labels of an image.
Replay(images, lines, limit) ==
  LET Take(acc, image) ==
        IF IsCapped(acc.counts, limit, lines[image]) THEN acc
        ELSE [counts |-> [c \in Classes |-> acc.counts[c] + Cardinality(InClass(lines[image], c))],
              taken  |-> acc.taken \cup {image}]
      upTo[n \in 0..Len(images)] ==
        IF n = 0 THEN [counts |-> [c \in Classes |-> 0], taken |-> {}]
        ELSE Take(upTo[n - 1], images[n])
  IN  upTo

\* The images a run with this cap takes.
Selected(limit) == Replay(order, [i \in AllImages |-> Anns(i)], limit)[Len(order)].taken

\* However often the script was interrupted and started again with the same cap, when
\* it ends the directory is the one that a single run leaves: the images selected, each
\* with all its labels, and nothing else.
RerunConverges ==
  step = "done" /\ Cardinality(capsUsed) = 1 =>
    /\ {i \in AllImages : imageFiles[i] # "none"} = Selected(cap)
    /\ \A i \in AllImages : labelFiles[i] = IF i \in Selected(cap) THEN Anns(i) ELSE NoFile

-------------------------------------------------------------------------------
(* What the documentation says and the code does not do.                   *)

\* train_next_steps.md:19-40: run the conversion again with --max-per-class, into the same
\* directory, to cap van at 60,000 instances.  So afterwards the label files hold
\* no more than the cap and one image.
RerunIsCapped ==
  step = "done" /\ cap > 0 =>
    \A c \in Classes :
      Cardinality({il \in AllImages \X UNION {Labels(s) : s \in SequenceNames} :
                     il[2] \in labelFiles[il[1]] /\ YoloClass[il[2].category] = c})
        < cap + Max({1, MostAtOnce(c)})
===============================================================================
