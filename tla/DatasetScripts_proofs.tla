------------------------- MODULE DatasetScripts_proofs -------------------------
(***************************************************************************)
(* Proofs about the scripts over a VisDrone directory, for any number of   *)
(* sequences, any annotations and images, and any options: the converter   *)
(* with its reruns, the preparation of the crops with its pool and its     *)
(* crashes, the data set that the training reads, and the videos.          *)
(***************************************************************************)
EXTENDS DatasetScripts, DataTheorems, SequenceTheorems

-------------------------------------------------------------------------------
(* The directory.                                                          *)

LEMMA LinesAreFinite ==
  ASSUME IsDataSet(input), NEW s \in SequenceNames
  PROVE  /\ Labels(s) \in SUBSET Lines /\ IsFiniteSet(Labels(s))
         /\ input.images[s] \in SUBSET Nat /\ IsFiniteSet(input.images[s])
<1>1. Labels(s) \in SUBSET input.lines[s] /\ input.lines[s] \in SUBSET Lines
  BY DEF Labels, IsDataSet
<1>2. IsFiniteSet(input.lines[s])
  BY DEF IsDataSet
<1> QED
  BY <1>1, <1>2, FS_Subset DEF IsDataSet

LEMMA SequencesAreFinite == IsFiniteSet(SequenceNames) /\ SequenceNames \in SUBSET Nat
BY SequencesAssumption, FS_Interval DEF SequenceNames

LEMMA ImagesAreFinite ==
  ASSUME IsDataSet(input)
  PROVE  IsFiniteSet(AllImages)
<1> DEFINE f == [s \in SequenceNames |-> {s} \X input.images[s]]
<1>1. IsFiniteSet({f[s] : s \in SequenceNames})
  <2> HIDE DEF f
  <2> QED
    BY SequencesAreFinite, ImageIsFinite
<1>2. \A s \in SequenceNames : IsFiniteSet(f[s])
  BY LinesAreFinite, FS_Singleton, FS_Product
<1>3. AllImages = UNION {f[s] : s \in SequenceNames}
  BY DEF AllImages
<1> HIDE DEF f
<1> QED
  BY <1>1, <1>2, <1>3, FS_UNION

\* The labels of an image, of all or of one class, are finitely many.
LEMMA AnnsAreFinite ==
  ASSUME IsDataSet(input), NEW i \in AllImages
  PROVE  /\ IsFiniteSet(Anns(i)) /\ Anns(i) \in SUBSET Lines
         /\ \A c : Cardinality(InClass(Anns(i), c)) \in Nat
<1>1. i[1] \in SequenceNames
  BY DEF AllImages
<1>2. Anns(i) \in SUBSET Labels(i[1])
  BY DEF Anns
<1>3. IsFiniteSet(Anns(i)) /\ Anns(i) \in SUBSET Lines
  BY <1>1, <1>2, LinesAreFinite, FS_Subset
<1>4. ASSUME NEW c PROVE Cardinality(InClass(Anns(i), c)) \in Nat
  <2>1. InClass(Anns(i), c) \in SUBSET Anns(i)
    BY DEF InClass
  <2> QED
    BY <1>3, <2>1, FS_Subset, FS_CardinalityType
<1> QED
  BY <1>3, <1>4

\* No label file of lines is NoFile.
LEMMA NoFileIsNone ==
  ASSUME NEW S \in SUBSET Lines
  PROVE  S # NoFile
<1>1. [frame |-> 0].frame = 0
  OBVIOUS
<1>2. \A l \in Lines : l.frame # 0
  BY DEF Lines
<1> QED
  BY <1>1, <1>2 DEF NoFile

\* What is computed from the directory stays while the directory does.
LEMMA DirectoryStays ==
  ASSUME input' = input
  PROVE  /\ \A s : Labels(s)' = Labels(s) /\ HasAnnotations(s)' = HasAnnotations(s)
         /\ AllImages' = AllImages
         /\ \A i : Anns(i)' = Anns(i)
         /\ IsDataSet(input)' = IsDataSet(input)
<1>1. \A s : Labels(s)' = Labels(s)
  BY DEF Labels
<1>2. \A s : HasAnnotations(s)' = HasAnnotations(s)
  BY DEF HasAnnotations
<1>3. AllImages' = AllImages
  BY DEF AllImages
<1>4. \A i : Anns(i)' = Anns(i)
  BY <1>1 DEF Anns
<1>5. IsDataSet(input)' = IsDataSet(input)
  OBVIOUS
<1> QED
  BY <1>1, <1>2, <1>3, <1>4, <1>5

-------------------------------------------------------------------------------
(* What a run of the converter selects.                                    *)

AnnsOf == [i \in AllImages |-> Anns(i)]

Replays == [counts : [Classes -> Nat], taken : SUBSET AllImages]

Begun == [counts |-> [c \in Classes |-> 0], taken |-> {}]

\* The body of the loop.
Take(acc, image, limit) ==
  IF IsCapped(acc.counts, limit, Anns(image)) THEN acc
  ELSE [counts |-> [c \in Classes |-> acc.counts[c] + Cardinality(InClass(Anns(image), c))],
        taken  |-> acc.taken \cup {image}]

LEMMA TakeType ==
  ASSUME IsDataSet(input), NEW acc \in Replays, NEW image \in AllImages, NEW limit
  PROVE  Take(acc, image, limit) \in Replays /\ acc.taken \subseteq Take(acc, image, limit).taken
<1>1. \A c : Cardinality(InClass(Anns(image), c)) \in Nat
  BY AnnsAreFinite
<1>2. [c \in Classes |-> acc.counts[c] + Cardinality(InClass(Anns(image), c))] \in [Classes -> Nat]
  BY <1>1 DEF Replays
<1> QED
  BY <1>2 DEF Replays, Take

\* Replay computes it step by step.
LEMMA ReplayUnfolds ==
  ASSUME IsDataSet(input), order \in Seq(AllImages), NEW limit
  PROVE  LET r == Replay(order, AnnsOf, limit)
         IN  /\ r[0] = Begun
             /\ \A n \in 1..Len(order) : r[n] = Take(r[n - 1], order[n], limit)
             /\ \A n \in 0..Len(order) : r[n] \in Replays
<1>0. PICK N \in Nat : N = Len(order) /\ \A n \in 1..N : order[n] \in AllImages
  OBVIOUS
<1> DEFINE F == [nv \in (1..N) \X Replays |-> Take(nv[2], order[nv[1]], limit)]
           Step(acc, image) ==
             IF IsCapped(acc.counts, limit, AnnsOf[image]) THEN acc
             ELSE [counts |-> [c \in Classes |-> acc.counts[c] + Cardinality(InClass(AnnsOf[image], c))],
                   taken  |-> acc.taken \cup {image}]
           Fits(g) == g = [n \in 0..N |-> IF n = 0 THEN Begun ELSE Step(g[n - 1], order[n])]
<1>1. \A acc, image : image \in AllImages => Step(acc, image) = Take(acc, image, limit)
  BY DEF AnnsOf, Take
<1>2. \A n \in 1..N, v \in Replays : F[<<n, v>>] = Take(v, order[n], limit)
  OBVIOUS
<1>3. Begun \in Replays
  BY DEF Begun, Replays
<1>4. StepsInto(F, N, Replays)
  <2> SUFFICES ASSUME NEW n \in 1..N, NEW v \in Replays PROVE F[<<n, v>>] \in Replays
    BY DEF StepsInto
  <2>1. Take(v, order[n], limit) \in Replays
    BY <1>0, TakeType
  <2> HIDE DEF F
  <2> QED
    BY <1>2, <2>1
<1> HIDE DEF F, Step
<1>5. PICK f \in [0..N -> Replays] : Runs(f, N, Begun, F)
  BY <1>3, <1>4, RecursionExists
<1>6. Fits(f)
  <2>1. ASSUME NEW n \in 0..N PROVE f[n] = IF n = 0 THEN Begun ELSE Step(f[n - 1], order[n])
    <3>1. CASE n = 0
      BY <1>5, <3>1 DEF Runs
    <3>2. CASE n # 0
      <4>1. n \in 1..N /\ f[n - 1] \in Replays
        BY <3>2
      <4>2. f[n] = Take(f[n - 1], order[n], limit)
        BY <1>2, <1>5, <4>1 DEF Runs
      <4> QED
        BY <1>0, <1>1, <3>2, <4>1, <4>2
    <3> QED
      BY <3>1, <3>2
  <2>2. f = [n \in 0..N |-> f[n]]
    OBVIOUS
  <2> QED
    BY <2>1, <2>2
<1>7. Replay(order, AnnsOf, limit) = CHOOSE g : Fits(g)
  BY <1>0 DEF Replay, Step, Begun
<1>8. PICK r : r = (CHOOSE g : Fits(g)) /\ Fits(r)
  <2> HIDE DEF Fits
  <2> QED
    BY <1>6
<1>8a. \A n \in 0..N : r[n] = IF n = 0 THEN Begun ELSE Step(r[n - 1], order[n])
  <2>1. r = [n \in 0..N |-> IF n = 0 THEN Begun ELSE Step(r[n - 1], order[n])]
    BY <1>8
  <2> HIDE DEF Fits
  <2> QED
    BY <2>1, Zenon
<1> HIDE DEF Fits
<1>9. r[0] = Begun
  BY <1>8a
<1>10. \A n \in 1..N : r[n] = Take(r[n - 1], order[n], limit)
  <2> TAKE n \in 1..N
  <2>1. r[n] = Step(r[n - 1], order[n])
    BY <1>8a
  <2> QED
    BY <1>0, <1>1, <2>1
<1> DEFINE S == {n \in Nat : n <= N => r[n] \in Replays}
<1>11. 0 \in S
  BY <1>3, <1>9
<1>12. ASSUME NEW n \in Nat, n \in S PROVE n + 1 \in S
  <2> SUFFICES ASSUME n + 1 <= N PROVE r[n + 1] \in Replays
    OBVIOUS
  <2>1. n + 1 \in 1..N /\ (n + 1) - 1 = n /\ r[n] \in Replays
    BY <1>12
  <2> QED
    BY <1>0, <1>10, <2>1, TakeType
<1>13. Nat \subseteq S
  <2> HIDE DEF S
  <2> QED
    BY <1>11, <1>12, NaturalInduction
<1>14. \A n \in 0..N : r[n] \in Replays
  BY <1>13
<1> QED
  BY <1>0, <1>7, <1>8, <1>9, <1>10, <1>14

\* What has been taken stays taken.
LEMMA TakenGrows ==
  ASSUME IsDataSet(input), order \in Seq(AllImages), NEW limit, NEW m \in 0..Len(order)
  PROVE  Replay(order, AnnsOf, limit)[m].taken \subseteq Selected(limit)
<1>0. PICK N \in Nat : N = Len(order) /\ \A n \in 1..N : order[n] \in AllImages
  OBVIOUS
<1>1. PICK r : /\ r = Replay(order, AnnsOf, limit)
               /\ \A n \in 1..N : r[n] = Take(r[n - 1], order[n], limit)
               /\ \A n \in 0..N : r[n] \in Replays
  BY <1>0, ReplayUnfolds
<1> DEFINE S == {n \in Nat : m + n <= N => r[m].taken \subseteq r[m + n].taken}
<1>2. 0 \in S
  <2>1. m + 0 = m
    OBVIOUS
  <2> QED
    BY <2>1
<1>3. ASSUME NEW n \in Nat, n \in S PROVE n + 1 \in S
  <2> SUFFICES ASSUME m + (n + 1) <= N PROVE r[m].taken \subseteq r[m + (n + 1)].taken
    OBVIOUS
  <2>1. PICK k \in 1..N : k = m + (n + 1) /\ k - 1 = m + n /\ m + n <= N /\ k - 1 \in 0..N
    BY <1>0
  <2>2. r[m].taken \subseteq r[k - 1].taken
    BY <1>3, <2>1
  <2>3. r[k - 1].taken \subseteq r[k].taken
    BY <1>0, <1>1, <2>1, TakeType
  <2> QED
    BY <2>1, <2>2, <2>3
<1>4. Nat \subseteq S
  <2> HIDE DEF S
  <2> QED
    BY <1>2, <1>3, NaturalInduction
<1>5. N - m \in Nat /\ m + (N - m) = N
  BY <1>0
<1>6. r[m].taken \subseteq r[N].taken
  BY <1>4, <1>5
<1>7. Selected(limit) = r[N].taken
  BY <1>0, <1>1 DEF Selected, AnnsOf
<1> QED
  BY <1>1, <1>6, <1>7

-------------------------------------------------------------------------------
(* The converter.                                                          *)

\* What a run from the beginning has got to where the converter is.
SoFar == Replay(order, AnnsOf, cap)[place - 1]

\* The run agrees with it, and what it has taken is in the directory, complete.
AgreesWithReplay ==
  step \in {"image", "label", "done"} =>
    /\ classCounts = SoFar.counts
    /\ \A i \in SoFar.taken : imageFiles[i] # "none" /\ labelFiles[i] = Anns(i)

\* Between the image and its label file: the one is there, the other is due.
LabelIsDue ==
  step = "label" =>
    /\ imageFiles[order[place]] # "none"
    /\ ~ IsCapped(classCounts, cap, Anns(order[place]))

\* Runs with one cap, however they ended, write nothing that is not selected with it.
OnlySelected ==
  \A l \in Caps : capsUsed \subseteq {l} =>
    \A i \in AllImages : imageFiles[i] # "none" \/ labelFiles[i] # NoFile => i \in Selected(l)

CapsAreRecorded ==
  /\ capsUsed \in SUBSET Caps /\ IsFiniteSet(capsUsed)
  /\ step # "idle" => cap \in capsUsed
  /\ step = "done" => place = Len(order) + 1

\* The directory and the order, which no script changes.
GivenOK ==
  /\ IsDataSet(input) /\ order \in Seq(AllImages)
  /\ labelFiles = [i \in AllImages |-> labelFiles[i]]

ConvertInv ==
  /\ GivenOK /\ CvTypeOK /\ CapsAreRecorded
  /\ AgreesWithReplay /\ LabelIsDue /\ OnlySelected
  /\ CapIsOvershotByOneImage

\* While directory and order stay, so does what they give.
LEMMA ReplayStays ==
  ASSUME input' = input, order' = order
  PROVE  /\ AnnsOf' = AnnsOf /\ AllImages' = AllImages
         /\ \A i : Anns(i)' = Anns(i)
         /\ \A l : Selected(l)' = Selected(l)
         /\ \A c : MostAtOnce(c)' = MostAtOnce(c)
         /\ (order \in Seq(AllImages))' = (order \in Seq(AllImages))
         /\ IsDataSet(input)' = IsDataSet(input)
<1>1. AllImages' = AllImages /\ \A i : Anns(i)' = Anns(i)
  BY DirectoryStays
<1>2. AnnsOf' = AnnsOf
  BY <1>1 DEF AnnsOf
<1>3. \A l : Selected(l)' = Selected(l)
  BY <1>2 DEF Selected, AnnsOf
<1>4. \A c : MostAtOnce(c)' = MostAtOnce(c)
  BY <1>1 DEF MostAtOnce
<1> QED
  BY <1>1, <1>2, <1>3, <1>4

\* Nothing is on an image more often than MostAtOnce.
LEMMA MostAtOnceBounds ==
  ASSUME IsDataSet(input), NEW c
  PROVE  /\ MostAtOnce(c) \in Nat
         /\ \A i \in AllImages : Cardinality(InClass(Anns(i), c)) <= MostAtOnce(c)
         /\ Max({1, MostAtOnce(c)}) \in Nat
         /\ 1 <= Max({1, MostAtOnce(c)}) /\ MostAtOnce(c) <= Max({1, MostAtOnce(c)})
<1> DEFINE f == [j \in AllImages |-> Cardinality(InClass(Anns(j), c))]
           C == {f[j] : j \in AllImages}
           S == {0} \cup {Cardinality(InClass(Anns(j), c)) : j \in AllImages}
<1>1. S = {0} \cup C
  OBVIOUS
<1>2. IsFiniteSet(C)
  <2> HIDE DEF f
  <2> QED
    BY ImagesAreFinite, ImageIsFinite
<1>3. IsFiniteSet(S)
  <2> HIDE DEF S, C
  <2> QED
    BY <1>1, <1>2, FS_Singleton, FS_Union
<1>4. \A x \in S : x \in Nat
  BY AnnsAreFinite
<1>5. S # {} /\ \A i \in AllImages : Cardinality(InClass(Anns(i), c)) \in S
  OBVIOUS
<1>6. MostAtOnce(c) = Max(S)
  BY DEF MostAtOnce
<1> HIDE DEF S, C
<1>7. \A x \in S : x \in Int
  BY <1>4
<1>8. Max(S) \in S /\ \A x \in S : x <= Max(S)
  BY <1>3, <1>5, <1>7, MaxOfFinite
<1>9. MostAtOnce(c) \in Nat
  BY <1>4, <1>6, <1>8
<1> QED
  BY <1>5, <1>6, <1>8, <1>9, MaxOfTwo

\* Where the converter is in the replay.
LEMMA PlaceFacts ==
  ASSUME ConvertInv
  PROVE  /\ Len(order) \in Nat /\ place \in 1..(Len(order) + 1) /\ place - 1 \in 0..Len(order)
         /\ \A n \in 1..Len(order) : order[n] \in AllImages
         /\ SoFar \in Replays
<1>1. order \in Seq(AllImages) /\ place \in 1..(Len(order) + 1) /\ IsDataSet(input)
  BY DEF ConvertInv, GivenOK, CvTypeOK
<1>2. PICK N \in Nat : N = Len(order) /\ \A n \in 1..N : order[n] \in AllImages
  BY <1>1
<1>3. place - 1 \in 0..N
  BY <1>1, <1>2
<1>4. SoFar \in Replays
  BY <1>1, <1>2, <1>3, ReplayUnfolds DEF SoFar
<1> QED
  BY <1>1, <1>2, <1>3, <1>4

\* The replay over the image at hand.
LEMMA ReplayGoesOn ==
  ASSUME ConvertInv, place <= Len(order)
  PROVE  /\ order[place] \in AllImages
         /\ Replay(order, AnnsOf, cap)[place] = Take(SoFar, order[place], cap)
         /\ ~ IsCapped(SoFar.counts, cap, Anns(order[place])) => order[place] \in Selected(cap)
<1>1. order \in Seq(AllImages) /\ IsDataSet(input)
  BY DEF ConvertInv, GivenOK
<1>2. PICK k : k = place /\ k \in 1..Len(order) /\ k \in 0..Len(order)
  BY PlaceFacts
<1>3. order[k] \in AllImages
  BY <1>2, PlaceFacts
<1>4. Replay(order, AnnsOf, cap)[k] = Take(SoFar, order[k], cap)
  BY <1>1, <1>2, ReplayUnfolds DEF SoFar
<1>5. Replay(order, AnnsOf, cap)[k].taken \subseteq Selected(cap)
  BY <1>1, <1>2, TakenGrows
<1>6. ~ IsCapped(SoFar.counts, cap, Anns(order[k])) => order[k] \in Take(SoFar, order[k], cap).taken
  BY DEF Take
<1> QED
  BY <1>2, <1>3, <1>4, <1>5, <1>6

\* The parts of the invariant that are about the directory and the history alone.
LEMMA GivenStays ==
  ASSUME ConvertInv, input' = input, order' = order,
         labelFiles' = [i \in AllImages |-> labelFiles'[i]]
  PROVE  GivenOK'
BY ReplayStays DEF GivenOK, ConvertInv

LEMMA ConvertStarts ==
  ASSUME ConvertInv, input' = input, CvStart
  PROVE  ConvertInv'
<1>0. input' = input /\ order' = order /\ IsDataSet(input) /\ order \in Seq(AllImages)
  BY DEF CvStart, ConvertInv, GivenOK
<1>s. /\ AnnsOf' = AnnsOf /\ AllImages' = AllImages /\ \A i : Anns(i)' = Anns(i)
      /\ \A l : Selected(l)' = Selected(l) /\ \A c : MostAtOnce(c)' = MostAtOnce(c)
  BY <1>0, ReplayStays
<1>1. GivenOK'
  <2>1. labelFiles' = labelFiles
    BY DEF CvStart
  <2> QED
    BY <1>0, <2>1, GivenStays DEF ConvertInv, GivenOK
<1>2. place' = 1 /\ step' = "image" /\ classCounts' = [c \in Classes |-> 0] /\ cap' \in Caps
  BY DEF CvStart
<1>3. CvTypeOK'
  <2>1. 1 \in 1..(Len(order) + 1)
    BY PlaceFacts
  <2>2. /\ copying' \in BOOLEAN /\ imageFiles' = imageFiles /\ labelFiles' = labelFiles
    BY CapsAssumption DEF CvStart
  <2> QED
    BY <1>0, <1>s, <1>2, <2>1, <2>2 DEF CvTypeOK, ConvertInv
<1>4. CapsAreRecorded'
  <2>1. capsUsed' = capsUsed \cup {cap'} /\ IsFiniteSet(capsUsed) /\ capsUsed \in SUBSET Caps
    BY DEF CvStart, CapsAreRecorded, ConvertInv
  <2>2. IsFiniteSet(capsUsed')
    BY <2>1, FS_AddElement
  <2> QED
    BY <1>2, <2>1, <2>2 DEF CapsAreRecorded
<1>5. AgreesWithReplay'
  <2>1. SoFar' = Replay(order, AnnsOf, cap')[0]
    BY <1>0, <1>s, <1>2 DEF SoFar
  <2>2. SoFar' = Begun
    BY <1>0, <2>1, ReplayUnfolds
  <2> QED
    BY <1>2, <2>2 DEF AgreesWithReplay, Begun
<1>6. LabelIsDue'
  BY <1>2 DEF LabelIsDue
<1>7. OnlySelected'
  <2>1. capsUsed \subseteq capsUsed' /\ imageFiles' = imageFiles /\ labelFiles' = labelFiles
    BY DEF CvStart
  <2> QED
    BY <1>s, <2>1 DEF OnlySelected, ConvertInv
<1>8. CapIsOvershotByOneImage'
  <2> SUFFICES ASSUME cap' > 0, NEW c \in Classes
               PROVE  classCounts'[c] < cap' + Max({1, MostAtOnce(c)})
    BY <1>s DEF CapIsOvershotByOneImage
  <2>1. classCounts'[c] = 0 /\ cap' \in Nat
    BY <1>2, CapsAssumption
  <2>2. Max({1, MostAtOnce(c)}) \in Nat
    BY <1>0, MostAtOnceBounds
  <2> QED
    BY <2>1, <2>2
<1> QED
  BY <1>1, <1>3, <1>4, <1>5, <1>6, <1>7, <1>8 DEF ConvertInv

\* A step within a run: what it has to show of each part that it disturbs.
LEMMA ConvertGoesOn ==
  ASSUME ConvertInv, input' = input, order' = order, cap' = cap, capsUsed' = capsUsed,
         step # "idle", step' # "idle", step' = "done" => place' = Len(order) + 1,
         copying' = copying,
         labelFiles' = [i \in AllImages |-> labelFiles'[i]],
         CvTypeOK', AgreesWithReplay', LabelIsDue', OnlySelected', CapIsOvershotByOneImage'
  PROVE  ConvertInv'
<1>1. GivenOK'
  BY GivenStays
<1>2. CapsAreRecorded'
  BY DEF CapsAreRecorded, ConvertInv
<1> QED
  BY <1>1, <1>2 DEF ConvertInv

\* The run breaks off or is over: files and counts stay.
LEMMA ConvertStops ==
  ASSUME ConvertInv, input' = input, CvFail \/ CvFinish
  PROVE  ConvertInv'
<1>0. /\ order' = order /\ cap' = cap /\ capsUsed' = capsUsed /\ place' = place /\ copying' = copying
      /\ classCounts' = classCounts /\ imageFiles' = imageFiles /\ labelFiles' = labelFiles
      /\ step = "image" /\ step' \in {"failed", "done"}
  BY DEF CvFail, CvFinish
<1>s. /\ AnnsOf' = AnnsOf /\ AllImages' = AllImages /\ \A i : Anns(i)' = Anns(i)
      /\ \A l : Selected(l)' = Selected(l) /\ \A c : MostAtOnce(c)' = MostAtOnce(c)
  BY <1>0, ReplayStays
<1>1. step' = "done" => place' = Len(order) + 1
  <2>1. step' = "done" => place > Len(order)
    BY DEF CvFail, CvFinish
  <2> QED
    BY <1>0, <2>1, PlaceFacts
<1>2. CvTypeOK'
  BY <1>0, <1>s DEF CvTypeOK, ConvertInv
<1>3. AgreesWithReplay'
  <2>1. SoFar' = SoFar
    BY <1>0, <1>s DEF SoFar
  <2> QED
    BY <1>0, <1>s, <2>1 DEF AgreesWithReplay, ConvertInv
<1>4. LabelIsDue'
  BY <1>0 DEF LabelIsDue
<1>5. OnlySelected'
  BY <1>0, <1>s DEF OnlySelected, ConvertInv
<1>6. CapIsOvershotByOneImage'
  BY <1>0, <1>s DEF CapIsOvershotByOneImage, ConvertInv
<1>7. labelFiles' = [i \in AllImages |-> labelFiles'[i]]
  BY <1>0 DEF ConvertInv, GivenOK
<1> QED
  BY <1>0, <1>1, <1>2, <1>3, <1>4, <1>5, <1>6, <1>7, ConvertGoesOn

\* An image is left out, by the replay too.
LEMMA ConvertSkips ==
  ASSUME ConvertInv, input' = input, CvSkip
  PROVE  ConvertInv'
<1>0. /\ order' = order /\ cap' = cap /\ capsUsed' = capsUsed /\ place' = place + 1 /\ copying' = copying
      /\ classCounts' = classCounts /\ imageFiles' = imageFiles /\ labelFiles' = labelFiles
      /\ step = "image" /\ step' = "image" /\ place <= Len(order)
      /\ IsCapped(classCounts, cap, Anns(order[place]))
  BY DEF CvSkip, AtImage
<1>s. /\ AnnsOf' = AnnsOf /\ AllImages' = AllImages /\ \A i : Anns(i)' = Anns(i)
      /\ \A l : Selected(l)' = Selected(l) /\ \A c : MostAtOnce(c)' = MostAtOnce(c)
  BY <1>0, ReplayStays
<1>2. CvTypeOK'
  <2>1. place' \in 1..(Len(order) + 1)
    BY <1>0, PlaceFacts
  <2> QED
    BY <1>0, <1>s, <2>1 DEF CvTypeOK, ConvertInv
<1>3. AgreesWithReplay'
  <2>1. classCounts = SoFar.counts
    BY <1>0 DEF AgreesWithReplay, ConvertInv
  <2>2. SoFar' = Replay(order, AnnsOf, cap)[place]
    <3>1. place' - 1 = place
      BY <1>0, PlaceFacts
    <3> QED
      BY <1>0, <1>s, <3>1 DEF SoFar
  <2>3. SoFar' = SoFar
    BY <1>0, <2>1, <2>2, ReplayGoesOn DEF Take
  <2> QED
    BY <1>0, <1>s, <2>3 DEF AgreesWithReplay, ConvertInv
<1>4. LabelIsDue'
  BY <1>0 DEF LabelIsDue
<1>5. OnlySelected'
  BY <1>0, <1>s DEF OnlySelected, ConvertInv
<1>6. CapIsOvershotByOneImage'
  BY <1>0, <1>s DEF CapIsOvershotByOneImage, ConvertInv
<1>7. labelFiles' = [i \in AllImages |-> labelFiles'[i]]
  BY <1>0 DEF ConvertInv, GivenOK
<1> QED
  BY <1>0, <1>2, <1>3, <1>4, <1>5, <1>6, <1>7, ConvertGoesOn

\* An image is copied or linked: it is one that the replay takes next.
LEMMA ConvertPlaces ==
  ASSUME ConvertInv, input' = input, CvPlaceImage
  PROVE  ConvertInv'
<1>0. /\ order' = order /\ cap' = cap /\ capsUsed' = capsUsed /\ place' = place /\ copying' = copying
      /\ classCounts' = classCounts /\ labelFiles' = labelFiles
      /\ step = "image" /\ step' \in {"label", "failed"} /\ place <= Len(order)
      /\ ~ IsCapped(classCounts, cap, Anns(order[place]))
  BY DEF CvPlaceImage, AtImage
<1>s. /\ AnnsOf' = AnnsOf /\ AllImages' = AllImages /\ \A i : Anns(i)' = Anns(i)
      /\ \A l : Selected(l)' = Selected(l) /\ \A c : MostAtOnce(c)' = MostAtOnce(c)
  BY <1>0, ReplayStays
<1>1. PICK image \in AllImages : image = order[place]
  BY <1>0, ReplayGoesOn
<1>2. image \in Selected(cap)
  <2>1. classCounts = SoFar.counts
    BY <1>0 DEF AgreesWithReplay, ConvertInv
  <2> QED
    BY <1>0, <1>1, <2>1, ReplayGoesOn
<1>3. /\ imageFiles' \in [AllImages -> {"none", "copy", "link"}]
      /\ \A i \in AllImages : i # image => imageFiles'[i] = imageFiles[i]
      /\ imageFiles[image] # "none" => imageFiles'[image] # "none"
      /\ step' = "label" => imageFiles'[image] # "none"
  BY <1>1 DEF CvPlaceImage, ConvertInv, CvTypeOK
<1>4. CvTypeOK'
  BY <1>0, <1>s, <1>3 DEF CvTypeOK, ConvertInv
<1>5. AgreesWithReplay'
  <2>1. SoFar' = SoFar /\ SoFar.taken \subseteq AllImages
    BY <1>0, <1>s, PlaceFacts DEF SoFar, Replays
  <2>2. \A i \in AllImages : imageFiles[i] # "none" => imageFiles'[i] # "none"
    BY <1>3
  <2> QED
    BY <1>0, <1>s, <2>1, <2>2 DEF AgreesWithReplay, ConvertInv
<1>6. LabelIsDue'
  BY <1>0, <1>s, <1>1, <1>3 DEF LabelIsDue
<1>7. OnlySelected'
  <2>1. cap \in capsUsed
    BY <1>0 DEF CapsAreRecorded, ConvertInv
  <2> SUFFICES ASSUME NEW l \in Caps, capsUsed \subseteq {l}, NEW i \in AllImages,
                      imageFiles'[i] # "none" \/ labelFiles[i] # NoFile
               PROVE  i \in Selected(l)
    BY <1>0, <1>s DEF OnlySelected
  <2>2. CASE i = image
    BY <1>2, <2>1, <2>2
  <2>3. CASE i # image
    BY <1>3, <2>3 DEF OnlySelected, ConvertInv
  <2> QED
    BY <2>2, <2>3
<1>8. CapIsOvershotByOneImage'
  BY <1>0, <1>s DEF CapIsOvershotByOneImage, ConvertInv
<1>9. labelFiles' = [i \in AllImages |-> labelFiles'[i]]
  BY <1>0 DEF ConvertInv, GivenOK
<1> QED
  BY <1>0, <1>4, <1>5, <1>6, <1>7, <1>8, <1>9, ConvertGoesOn

\* The image that is in place gets its labels, and they are counted.
LEMMA ConvertWrites ==
  ASSUME ConvertInv, input' = input, CvWriteLabels
  PROVE  ConvertInv'
<1>0. /\ order' = order /\ cap' = cap /\ capsUsed' = capsUsed /\ place' = place + 1 /\ copying' = copying
      /\ imageFiles' = imageFiles /\ step = "label" /\ step' = "image" /\ place <= Len(order)
  BY DEF CvWriteLabels, ConvertInv, CvTypeOK
<1>s. /\ AnnsOf' = AnnsOf /\ AllImages' = AllImages /\ \A i : Anns(i)' = Anns(i)
      /\ \A l : Selected(l)' = Selected(l) /\ \A c : MostAtOnce(c)' = MostAtOnce(c)
      /\ IsDataSet(input)
  BY <1>0, ReplayStays DEF ConvertInv, GivenOK
<1>1. PICK image \in AllImages : image = order[place]
  BY <1>0, ReplayGoesOn
<1>2. /\ classCounts = SoFar.counts /\ classCounts \in [Classes -> Nat]
      /\ imageFiles[image] # "none" /\ ~ IsCapped(classCounts, cap, Anns(image))
  BY <1>0, <1>1 DEF AgreesWithReplay, LabelIsDue, ConvertInv, CvTypeOK
<1>3. image \in Selected(cap)
  BY <1>0, <1>1, <1>2, ReplayGoesOn
<1>4. classCounts' = [c \in Classes |-> classCounts[c] + Cardinality(InClass(Anns(image), c))]
  BY <1>1 DEF CvWriteLabels
<1>5. \A c \in Classes : Cardinality(InClass(Anns(image), c)) \in Nat
  BY <1>s, AnnsAreFinite
<1>6. /\ labelFiles' = [i \in AllImages |-> labelFiles'[i]]
      /\ labelFiles'[image] = Anns(image)
      /\ \A i \in AllImages : i # image => labelFiles'[i] = labelFiles[i]
  <2>1. labelFiles = [i \in AllImages |-> labelFiles[i]]
    BY DEF ConvertInv, GivenOK
  <2>2. labelFiles' = [labelFiles EXCEPT ![image] = Anns(image)]
    BY <1>1 DEF CvWriteLabels, Rewritten
  <2> QED
    BY <2>1, <2>2
<1>7. CvTypeOK'
  <2>1. place' \in 1..(Len(order) + 1)
    BY <1>0, PlaceFacts
  <2>2. classCounts' \in [Classes -> Nat]
    BY <1>2, <1>4, <1>5
  <2>3. \A i \in AllImages : labelFiles'[i] = NoFile \/ labelFiles'[i] \subseteq Anns(i)
    BY <1>6 DEF ConvertInv, CvTypeOK
  <2> QED
    BY <1>0, <1>s, <2>1, <2>2, <2>3 DEF CvTypeOK, ConvertInv
<1>8. AgreesWithReplay'
  <2>1. SoFar' = Take(SoFar, image, cap)
    <3>1. place' - 1 = place
      BY <1>0, PlaceFacts
    <3>2. SoFar' = Replay(order, AnnsOf, cap)[place]
      BY <1>0, <1>s, <3>1 DEF SoFar
    <3> QED
      BY <1>0, <1>1, <3>2, ReplayGoesOn
  <2>2. SoFar'.counts = classCounts' /\ SoFar'.taken = SoFar.taken \cup {image}
    BY <1>2, <1>4, <2>1 DEF Take
  <2>3. SoFar.taken \subseteq AllImages
    BY PlaceFacts DEF Replays
  <2>4. \A i \in SoFar.taken : imageFiles[i] # "none" /\ labelFiles[i] = Anns(i)
    BY <1>0 DEF AgreesWithReplay, ConvertInv
  <2> QED
    BY <1>0, <1>s, <1>2, <1>6, <2>2, <2>3, <2>4 DEF AgreesWithReplay
<1>9. LabelIsDue'
  BY <1>0 DEF LabelIsDue
<1>10. OnlySelected'
  <2>1. cap \in capsUsed
    BY <1>0 DEF CapsAreRecorded, ConvertInv
  <2> SUFFICES ASSUME NEW l \in Caps, capsUsed \subseteq {l}, NEW i \in AllImages,
                      imageFiles[i] # "none" \/ labelFiles'[i] # NoFile
               PROVE  i \in Selected(l)
    BY <1>0, <1>s DEF OnlySelected
  <2>2. CASE i = image
    BY <1>3, <2>1, <2>2
  <2>3. CASE i # image
    BY <1>6, <2>3 DEF OnlySelected, ConvertInv
  <2> QED
    BY <2>2, <2>3
<1>11. CapIsOvershotByOneImage'
  <2> SUFFICES ASSUME cap > 0, NEW c \in Classes
               PROVE  classCounts'[c] < cap + Max({1, MostAtOnce(c)})
    BY <1>0, <1>s DEF CapIsOvershotByOneImage
  <2>0. PICK most \in Nat : /\ most = Max({1, MostAtOnce(c)}) /\ MostAtOnce(c) <= most
                            /\ MostAtOnce(c) \in Nat
    BY <1>s, MostAtOnceBounds
  <2>1. PICK n \in Nat : n = Cardinality(InClass(Anns(image), c)) /\ n <= most
    BY <1>s, <1>5, <2>0, MostAtOnceBounds
  <2>2. classCounts'[c] = classCounts[c] + n /\ classCounts[c] \in Nat /\ cap \in Nat
    BY <1>2, <1>4, <2>1, CapsAssumption DEF ConvertInv, CvTypeOK
  <2>3. CASE InClass(Anns(image), c) = {}
    <3>1. n = 0
      BY <2>1, <2>3, FS_EmptySet
    <3>2. classCounts[c] < cap + most
      BY <2>0 DEF CapIsOvershotByOneImage, ConvertInv
    <3>3. classCounts'[c] < cap + most
      BY <2>2, <3>1, <3>2
    <3> QED
      BY <2>0, <3>3
  <2>4. CASE InClass(Anns(image), c) # {}
    <3>1. PICK l \in Anns(image) : YoloClass[l.category] = c
      BY <2>4 DEF InClass
    <3>2. ~ (classCounts[c] >= cap)
      BY <1>2, <3>1 DEF IsCapped
    <3>3. classCounts'[c] < cap + most
      BY <2>1, <2>2, <3>2
    <3> QED
      BY <2>0, <3>3
  <2> QED
    BY <2>3, <2>4
<1> QED
  BY <1>0, <1>6, <1>7, <1>8, <1>9, <1>10, <1>11, ConvertGoesOn

\* It is killed: the label file that was being written may be cut short.
LEMMA ConvertCrashes ==
  ASSUME ConvertInv, input' = input, CvCrash
  PROVE  ConvertInv'
<1>0. /\ order' = order /\ cap' = cap /\ capsUsed' = capsUsed /\ place' = place /\ copying' = copying
      /\ classCounts' = classCounts /\ imageFiles' = imageFiles
      /\ step \in {"image", "label"} /\ step' = "stopped"
  BY DEF CvCrash
<1>s. /\ AnnsOf' = AnnsOf /\ AllImages' = AllImages /\ \A i : Anns(i)' = Anns(i)
      /\ \A l : Selected(l)' = Selected(l) /\ \A c : MostAtOnce(c)' = MostAtOnce(c)
  BY <1>0, ReplayStays
<1>1. /\ labelFiles' = [i \in AllImages |-> labelFiles'[i]]
      /\ \A i \in AllImages :
           \/ labelFiles'[i] = labelFiles[i]
           \/ step = "label" /\ i = order[place] /\ labelFiles'[i] \subseteq Anns(i)
  <2>1. labelFiles = [i \in AllImages |-> labelFiles[i]]
    BY DEF ConvertInv, GivenOK
  <2>2. CASE labelFiles' = labelFiles
    BY <2>1, <2>2
  <2>3. CASE labelFiles' # labelFiles
    <3>1. PICK lines \in SUBSET Anns(order[place]) :
            step = "label" /\ labelFiles' = [labelFiles EXCEPT ![order[place]] = lines]
      BY <2>3 DEF CvCrash, Rewritten
    <3> QED
      BY <2>1, <3>1
  <2> QED
    BY <2>2, <2>3
<1>2. CvTypeOK'
  <2>1. \A i \in AllImages : labelFiles'[i] = NoFile \/ labelFiles'[i] \subseteq Anns(i)
    BY <1>1 DEF ConvertInv, CvTypeOK
  <2> QED
    BY <1>0, <1>s, <2>1 DEF CvTypeOK, ConvertInv
<1>3. AgreesWithReplay' /\ LabelIsDue'
  BY <1>0 DEF AgreesWithReplay, LabelIsDue
<1>4. OnlySelected'
  <2>1. step = "label" => imageFiles[order[place]] # "none"
    BY DEF LabelIsDue, ConvertInv
  <2>2. \A i \in AllImages : labelFiles'[i] # NoFile =>
           imageFiles[i] # "none" \/ labelFiles[i] # NoFile
    BY <1>1, <2>1
  <2> QED
    BY <1>0, <1>s, <2>2 DEF OnlySelected, ConvertInv
<1>5. CapIsOvershotByOneImage'
  BY <1>0, <1>s DEF CapIsOvershotByOneImage, ConvertInv
<1> QED
  BY <1>0, <1>1, <1>2, <1>3, <1>4, <1>5, ConvertGoesOn

\* Another script's step.
LEMMA ConvertRests ==
  ASSUME ConvertInv, UNCHANGED <<input, cvVars>>
  PROVE  ConvertInv'
<1>0. /\ input' = input /\ order' = order /\ cap' = cap /\ capsUsed' = capsUsed /\ place' = place
      /\ classCounts' = classCounts /\ imageFiles' = imageFiles /\ labelFiles' = labelFiles
      /\ step' = step /\ copying' = copying
  BY DEF cvVars
<1>s. /\ AnnsOf' = AnnsOf /\ AllImages' = AllImages /\ \A i : Anns(i)' = Anns(i)
      /\ \A l : Selected(l)' = Selected(l) /\ \A c : MostAtOnce(c)' = MostAtOnce(c)
      /\ IsDataSet(input)' = IsDataSet(input)
  BY <1>0, ReplayStays
<1>1. GivenOK' /\ CvTypeOK' /\ CapsAreRecorded'
  BY <1>0, <1>s DEF GivenOK, CvTypeOK, CapsAreRecorded, ConvertInv
<1>2. AgreesWithReplay' /\ LabelIsDue'
  <2>1. SoFar' = SoFar
    BY <1>0, <1>s DEF SoFar
  <2> QED
    BY <1>0, <1>s, <2>1 DEF AgreesWithReplay, LabelIsDue, ConvertInv
<1>3. OnlySelected' /\ CapIsOvershotByOneImage'
  BY <1>0, <1>s DEF OnlySelected, CapIsOvershotByOneImage, ConvertInv
<1> QED
  BY <1>1, <1>2, <1>3 DEF ConvertInv

LEMMA ConvertSteps ==
  ASSUME ConvertInv, [Next]_scriptVars
  PROVE  ConvertInv'
<1>1. CASE script = "convert" /\ CvNext
  <2>1. input' = input
    BY <1>1 DEF Next, CvNext, scriptVars
  <2> QED
    BY <1>1, <2>1, ConvertStarts, ConvertStops, ConvertSkips, ConvertPlaces, ConvertWrites,
       ConvertCrashes DEF CvNext
<1>2. CASE UNCHANGED <<input, cvVars>>
  BY <1>2, ConvertRests
<1> QED
  BY <1>1, <1>2 DEF Next, scriptVars

LEMMA ConvertBegins ==
  ASSUME Init
  PROVE  ConvertInv
<1>1. IsDataSet(input)
  BY InputsAssumption DEF Init
<1>2. CvIdle /\ order \in Seq(AllImages)
  <2>1. CASE script = "convert"
    <3>1. CvIdle /\ order \in Orders
      BY <2>1 DEF Init, CvInit
    <3>2. PICK S, n : S \in SUBSET AllImages /\ n = Cardinality(S) /\ order \in [1..n -> S] /\ IsFiniteSet(S)
      <4> DEFINE S == {i \in AllImages : HasAnnotations(i[1])}
      <4>1. order \in [1..Cardinality(S) -> S]
        BY <3>1 DEF Orders, SetToSeqs
      <4>2. S \in SUBSET AllImages
        OBVIOUS
      <4>3. IsFiniteSet(S)
        BY <1>1, <4>2, ImagesAreFinite, FS_Subset
      <4> HIDE DEF S
      <4> QED
        BY <4>1, <4>2, <4>3
    <3>3. n \in Nat
      BY <3>2, FS_CardinalityType
    <3> QED
      BY <3>1, <3>2, <3>3
  <2>2. CASE script # "convert"
    <3>1. CvIdle /\ order = <<>>
      BY <2>2 DEF Init
    <3>2. <<>> \in Seq(AllImages)
      OBVIOUS
    <3> QED
      BY <3>1, <3>2
  <2> QED
    BY <2>1, <2>2
<1>3. /\ step = "idle" /\ place = 1 /\ cap = 0 /\ copying = FALSE /\ capsUsed = {}
      /\ classCounts = [c \in Classes |-> 0] /\ imageFiles = [i \in AllImages |-> "none"]
      /\ labelFiles = [i \in AllImages |-> NoFile]
  BY <1>2 DEF CvIdle
<1>4. GivenOK
  BY <1>1, <1>2, <1>3 DEF GivenOK
<1>5. CvTypeOK
  <2>1. 1 \in 1..(Len(order) + 1)
    BY <1>2
  <2> QED
    BY <1>3, <2>1 DEF CvTypeOK
<1>6. CapsAreRecorded /\ AgreesWithReplay /\ LabelIsDue
  BY <1>3, FS_EmptySet DEF CapsAreRecorded, AgreesWithReplay, LabelIsDue
<1>7. OnlySelected /\ CapIsOvershotByOneImage
  BY <1>3 DEF OnlySelected, CapIsOvershotByOneImage
<1> QED
  BY <1>4, <1>5, <1>6, <1>7 DEF ConvertInv

LEMMA ConvertInvariant == Spec => []ConvertInv
<1>1. Init => ConvertInv
  BY ConvertBegins
<1>2. ConvertInv /\ [Next]_scriptVars => ConvertInv'
  BY ConvertSteps
<1> QED
  BY <1>1, <1>2, PTL DEF Spec

\* The cap of --max-per-class, which is compared before an image and counted after it,
\* is passed by less than one image's objects, for any data and any order.
THEOREM CapIsNearlyKept == Spec => []CapIsOvershotByOneImage
<1>1. ConvertInv => CapIsOvershotByOneImage
  BY DEF ConvertInv
<1> QED
  BY <1>1, ConvertInvariant, PTL

\* Whatever runs with one cap were cut short, the first that ends leaves what a single
\* one would have left: each label file is opened for writing anew, and the order and the
\* counts do not depend on what is there.
THEOREM RerunsConverge == Spec => []RerunConverges
<1>1. ConvertInv => RerunConverges
  <2> SUFFICES ASSUME ConvertInv, step = "done", Cardinality(capsUsed) = 1
               PROVE  /\ {i \in AllImages : imageFiles[i] # "none"} = Selected(cap)
                      /\ \A i \in AllImages : labelFiles[i] = IF i \in Selected(cap) THEN Anns(i) ELSE NoFile
    BY DEF RerunConverges
  <2>1. capsUsed = {cap} /\ cap \in Caps
    <3>1. cap \in capsUsed /\ capsUsed \in SUBSET Caps
      BY DEF ConvertInv, CapsAreRecorded
    <3>2. PICK l : capsUsed = {l}
      <4>1. IsFiniteSet(capsUsed)
        BY DEF ConvertInv, CapsAreRecorded
      <4> QED
        BY <4>1, FS_Singleton
    <3> QED
      BY <3>1, <3>2
  <2>2. SoFar.taken = Selected(cap)
    <3>1. place - 1 = Len(order)
      BY PlaceFacts DEF ConvertInv, CapsAreRecorded
    <3> QED
      BY <3>1 DEF SoFar, Selected, AnnsOf
  <2>3. Selected(cap) \subseteq AllImages
    BY <2>2, PlaceFacts DEF Replays
  <2>4. \A i \in Selected(cap) : imageFiles[i] # "none" /\ labelFiles[i] = Anns(i)
    BY <2>2 DEF ConvertInv, AgreesWithReplay
  <2>5. \A i \in AllImages : imageFiles[i] # "none" \/ labelFiles[i] # NoFile => i \in Selected(cap)
    BY <2>1 DEF ConvertInv, OnlySelected
  <2> QED
    BY <2>3, <2>4, <2>5
<1> QED
  BY <1>1, ConvertInvariant, PTL

-------------------------------------------------------------------------------
(* What is to be cut out, and its numbers.                                 *)

LEMMA TracksAreFinite ==
  ASSUME IsDataSet(input), NEW s \in SequenceNames
  PROVE  /\ IsFiniteSet(LongTargets(s)) /\ LongTargets(s) \in SUBSET Nat
         /\ Boxes(s) \in SUBSET Lines
         /\ \A t \in LongTargets(s) :
              /\ FramesOf(s, t) \in SUBSET Nat /\ IsFiniteSet(FramesOf(s, t))
              /\ FramesOf(s, t) # {}
              /\ \A f \in FramesOf(s, t) : \E l \in Boxes(s) : l.frame = f /\ l.target = t
<1>1. Boxes(s) \in SUBSET Labels(s) /\ IsFiniteSet(Labels(s)) /\ Labels(s) \in SUBSET Lines
  BY LinesAreFinite DEF Boxes
<1>2. IsFiniteSet(Boxes(s)) /\ Boxes(s) \in SUBSET Lines
  BY <1>1, FS_Subset
<1> DEFINE target == [l \in Boxes(s) |-> l.target]
           frame == [l \in Boxes(s) |-> l.frame]
<1>3. IsFiniteSet({target[l] : l \in Boxes(s)})
  <2> HIDE DEF target
  <2> QED
    BY <1>2, ImageIsFinite
<1>4. IsFiniteSet({frame[l] : l \in Boxes(s)})
  <2> HIDE DEF frame
  <2> QED
    BY <1>2, ImageIsFinite
<1>5. LongTargets(s) \in SUBSET {target[l] : l \in Boxes(s)}
  BY DEF LongTargets
<1>6. LongTargets(s) \in SUBSET Nat
  BY <1>2 DEF LongTargets, Lines
<1>7. ASSUME NEW t \in LongTargets(s)
      PROVE  /\ FramesOf(s, t) \in SUBSET Nat /\ IsFiniteSet(FramesOf(s, t))
             /\ FramesOf(s, t) # {}
             /\ \A f \in FramesOf(s, t) : \E l \in Boxes(s) : l.frame = f /\ l.target = t
  <2>1. FramesOf(s, t) \in SUBSET {frame[l] : l \in Boxes(s)}
    BY DEF FramesOf, Track
  <2>2. FramesOf(s, t) \in SUBSET Nat
    BY <1>2 DEF FramesOf, Track, Lines
  <2>3. \A f \in FramesOf(s, t) : \E l \in Boxes(s) : l.frame = f /\ l.target = t
    BY DEF FramesOf, Track
  <2>4. FramesOf(s, t) # {}
    BY DEF FramesOf, Track, LongTargets
  <2>5. IsFiniteSet(FramesOf(s, t))
    <3> HIDE DEF frame
    <3> QED
      BY <1>4, <2>1, FS_Subset
  <2> QED
    BY <2>2, <2>3, <2>4, <2>5
<1>8. IsFiniteSet(LongTargets(s))
  <2> HIDE DEF target
  <2> QED
    BY <1>3, <1>5, FS_Subset
<1> QED
  BY <1>2, <1>6, <1>7, <1>8

\* Weight is above every target and every frame.
LEMMA WeightIsAbove ==
  ASSUME IsDataSet(input)
  PROVE  /\ Weight \in Nat
         /\ \A s \in SequenceNames : \A t \in LongTargets(s) : t < Weight
<1> DEFINE All == UNION {input.lines[s] : s \in SequenceNames}
           lines == [s \in SequenceNames |-> input.lines[s]]
           both == [l \in All |-> {l.frame, l.target}]
           Numbers == {0} \cup UNION {{l.frame, l.target} : l \in UNION Range(input.lines)}
<1>1. UNION Range(input.lines) = All
  <2>1. Range(input.lines) = {input.lines[s] : s \in SequenceNames}
    BY DEF IsDataSet, Range
  <2> QED
    BY <2>1
<1>2. IsFiniteSet(All)
  <2>1. IsFiniteSet({lines[s] : s \in SequenceNames})
    <3> HIDE DEF lines
    <3> QED
      BY SequencesAreFinite, ImageIsFinite
  <2>2. \A s \in SequenceNames : IsFiniteSet(lines[s])
    BY DEF IsDataSet
  <2>3. All = UNION {lines[s] : s \in SequenceNames}
    OBVIOUS
  <2> HIDE DEF All, lines
  <2> QED
    BY <2>1, <2>2, <2>3, FS_UNION
<1>3. All \in SUBSET Lines
  BY DEF IsDataSet
<1>4. IsFiniteSet(Numbers)
  <2>1. IsFiniteSet({both[l] : l \in All})
    <3> HIDE DEF both, All
    <3> QED
      BY <1>2, ImageIsFinite
  <2>2. \A l \in All : IsFiniteSet(both[l])
    <3> HIDE DEF All
    <3> QED
      BY PairIsFinite
  <2>3. Numbers = {0} \cup UNION {both[l] : l \in All}
    <3> HIDE DEF All
    <3> QED
      BY <1>1
  <2> HIDE DEF Numbers, both, All
  <2>4. IsFiniteSet(UNION {both[l] : l \in All})
    BY <2>1, <2>2, FS_UNION
  <2> QED
    BY <2>3, <2>4, FS_Singleton, FS_Union
<1>5. \A x \in Numbers : x \in Nat
  <2>1. \A l \in All : l.frame \in Nat /\ l.target \in Nat
    BY <1>3 DEF Lines
  <2> HIDE DEF All
  <2> QED
    BY <1>1, <2>1
<1>6. Numbers # {}
  OBVIOUS
<1>7. \A s \in SequenceNames : \A t \in LongTargets(s) : t \in Numbers
  <2> TAKE s \in SequenceNames
  <2> TAKE t \in LongTargets(s)
  <2>1. PICK l \in input.lines[s] : l.target = t
    BY DEF LongTargets, Boxes, Labels
  <2>2. l \in All
    OBVIOUS
  <2> HIDE DEF All
  <2> QED
    BY <1>1, <2>1, <2>2
<1>8. Weight = 1 + Max(Numbers)
  BY DEF Weight
<1> HIDE DEF Numbers
<1>9. Max(Numbers) \in Numbers /\ \A x \in Numbers : x <= Max(Numbers)
  <2>1. \A x \in Numbers : x \in Int
    BY <1>5
  <2> QED
    BY <1>4, <1>6, <2>1, MaxOfFinite
<1>10. PICK m \in Nat : m = Max(Numbers)
  BY <1>5, <1>9
<1>11. Weight \in Nat
  BY <1>8, <1>10
<1>12. ASSUME NEW s \in SequenceNames, NEW t \in LongTargets(s) PROVE t < Weight
  <2>1. t \in Nat /\ t <= m
    BY <1>5, <1>7, <1>9, <1>10
  <2> QED
    BY <1>8, <1>10, <2>1
<1> QED
  BY <1>11, <1>12

\* A number below the weight can be read off a sum.
LEMMA DigitsAreDistinct ==
  ASSUME NEW W \in Nat, NEW a \in Nat, NEW b \in Nat, NEW t \in Nat, NEW u \in Nat,
         t < W, u < W, W * a + t = W * b + u
  PROVE  t = u
<1>1. ASSUME NEW x \in Nat, NEW y \in Nat, x < y PROVE W * x + W <= W * y
  <2>1. PICK d \in Nat : y = x + 1 + d
    <3>1. y - x - 1 \in Nat /\ y = x + 1 + (y - x - 1)
      BY <1>1
    <3> QED
      BY <3>1
  <2>2. W * y = W * x + W + W * d
    BY <2>1
  <2>3. W * d \in Nat /\ W * x \in Nat
    OBVIOUS
  <2> QED
    BY <2>2, <2>3
<1>2. PICK p \in Nat, q \in Nat : p = W * a /\ q = W * b
  OBVIOUS
<1>3. CASE a < b
  <2>1. p + W <= q
    BY <1>1, <1>2, <1>3
  <2> QED
    BY <1>2, <2>1
<1>4. CASE b < a
  <2>1. q + W <= p
    BY <1>1, <1>2, <1>4
  <2> QED
    BY <1>2, <2>1
<1>5. CASE a = b
  BY <1>2, <1>5
<1> QED
  BY <1>3, <1>4, <1>5

\* The identities of a sequence: from its offset on, one for each long track.
LEMMA PlacesNumber ==
  ASSUME IsDataSet(input), NEW s \in SequenceNames
  PROVE  /\ Cardinality(LongTargets(s)) \in Nat
         /\ \A t \in LongTargets(s) : Place(s, t) \in 0..(Cardinality(LongTargets(s)) - 1)
         /\ \A t, u \in LongTargets(s) : Place(s, t) = Place(s, u) => t = u
<1>1. PICK W \in Nat : W = Weight /\ \A t \in LongTargets(s) : t < W
  BY WeightIsAbove
<1>2. PICK L : L = LongTargets(s) /\ IsFiniteSet(L) /\ L \in SUBSET Nat
  BY TracksAreFinite
<1>3. \A t \in L : \E m \in Nat : TargetRank(s, t) = W * m + t
  <2> TAKE t \in L
  <2>1. ASSUME NEW f \in FramesOf(s, t) PROVE FrameRank(s, f) \in Nat
    <3> DEFINE T == {l.target : l \in {b \in Boxes(s) : b.frame = f}}
    <3>1. T \in SUBSET Nat /\ T # {}
      BY <1>2, TracksAreFinite DEF Lines
    <3> HIDE DEF T
    <3>2. PICK m \in Nat : m = Min(T)
      BY <3>1, MinOfNaturals
    <3>3. f \in Nat /\ W * m \in Nat
      BY <1>2, TracksAreFinite
    <3> QED
      BY <1>1, <3>2, <3>3 DEF FrameRank, T
  <2> DEFINE R == {FrameRank(s, f) : f \in FramesOf(s, t)}
  <2>2. R \in SUBSET Nat /\ R # {}
    BY <1>2, <2>1, TracksAreFinite
  <2> HIDE DEF R
  <2>3. PICK m \in Nat : m = Min(R)
    BY <2>2, MinOfNaturals
  <2> WITNESS m \in Nat
  <2> QED
    BY <1>1, <2>3 DEF TargetRank, R
<1> DEFINE key == [t \in L |-> TargetRank(s, t)]
<1>4. key \in [L -> Int]
  BY <1>2, <1>3
<1>5. \A t, u \in L : key[t] = key[u] => t = u
  <2> SUFFICES ASSUME NEW t \in L, NEW u \in L, TargetRank(s, t) = TargetRank(s, u) PROVE t = u
    OBVIOUS
  <2>1. PICK a \in Nat, b \in Nat : TargetRank(s, t) = W * a + t /\ TargetRank(s, u) = W * b + u
    BY <1>3
  <2>2. t \in Nat /\ u \in Nat /\ t < W /\ u < W
    BY <1>1, <1>2
  <2> HIDE DEF key
  <2> QED
    BY <2>1, <2>2, DigitsAreDistinct
<1>6. \A t \in L : Place(s, t) = RankOf(L, key, t)
  BY <1>2 DEF Place, RankOf
<1> HIDE DEF key
<1>7. /\ \A t \in L : RankOf(L, key, t) \in 0..(Cardinality(L) - 1)
      /\ \A t, u \in L : RankOf(L, key, t) = RankOf(L, key, u) => t = u
  BY <1>2, <1>4, <1>5, RanksNumber
<1> QED
  BY <1>2, <1>6, <1>7, FS_CardinalityType

\* A sequence's identities end before those of a later one begin.
LEMMA OffsetsGrow ==
  ASSUME IsDataSet(input), NEW s \in SequenceNames
  PROVE  /\ TidOffset(s) \in Nat
         /\ \A r \in SequenceNames : s < r /\ HasAnnotations(s) =>
              TidOffset(s) + Cardinality(LongTargets(s)) <= TidOffset(r)
<1> DEFINE Q(r) == {q \in 1..(r - 1) : HasAnnotations(q)}
           U(r) == UNION {{q} \X LongTargets(q) : q \in Q(r)}
           f == [q \in SequenceNames |-> {q} \X LongTargets(q)]
<1>0. SequenceNames \in SUBSET Nat
  BY SequencesAreFinite
<1>1. \A q \in SequenceNames : IsFiniteSet(f[q])
  BY TracksAreFinite, FS_Singleton, FS_Product
<1>2. ASSUME NEW r \in SequenceNames
      PROVE  IsFiniteSet(U(r)) /\ TidOffset(r) = Cardinality(U(r))
  <2>1. Q(r) \in SUBSET SequenceNames
    BY SequencesAssumption DEF SequenceNames
  <2>2. IsFiniteSet(Q(r))
    <3> HIDE DEF Q
    <3> QED
      BY <2>1, SequencesAreFinite, FS_Subset
  <2>3. IsFiniteSet({f[q] : q \in Q(r)})
    <3> HIDE DEF Q, f
    <3> QED
      BY <2>2, ImageIsFinite
  <2>4. U(r) = UNION {f[q] : q \in Q(r)}
    BY <2>1
  <2>5. \A q \in Q(r) : IsFiniteSet(f[q])
    BY <1>1, <2>1
  <2>6. TidOffset(r) = Cardinality(U(r))
    BY DEF TidOffset
  <2> HIDE DEF U, Q, f
  <2>7. IsFiniteSet(UNION {f[q] : q \in Q(r)})
    BY <2>3, <2>5, FS_UNION
  <2> QED
    BY <2>4, <2>6, <2>7
<1>3. TidOffset(s) \in Nat
  <2> HIDE DEF U
  <2> QED
    BY <1>2, FS_CardinalityType
<1>4. ASSUME NEW r \in SequenceNames, s < r, HasAnnotations(s)
      PROVE  TidOffset(s) + Cardinality(LongTargets(s)) <= TidOffset(r)
  <2> DEFINE H == {s} \X LongTargets(s)
  <2>1. PICK n \in Nat : n = Cardinality(LongTargets(s))
    BY PlacesNumber
  <2>2. IsFiniteSet(H) /\ Cardinality(H) = n
    <3>1. IsFiniteSet({s}) /\ Cardinality({s}) = 1
      BY FS_Singleton
    <3>2. IsFiniteSet(LongTargets(s))
      BY TracksAreFinite
    <3>3. IsFiniteSet(H) /\ Cardinality(H) = Cardinality({s}) * Cardinality(LongTargets(s))
      BY <3>1, <3>2, FS_Product
    <3> QED
      BY <2>1, <3>1, <3>3
  <2>3. U(s) \cap H = {}
    BY <1>0
  <2>4. U(s) \cup H \in SUBSET U(r)
    <3>1. Q(s) \in SUBSET Q(r)
      BY <1>0, <1>4
    <3>2. s \in Q(r)
      BY <1>0, <1>4, SequencesAssumption DEF SequenceNames
    <3> HIDE DEF Q
    <3> QED
      BY <3>1, <3>2
  <2> HIDE DEF U, H
  <2>5. PICK A, B : A = U(s) /\ B = U(r) /\ IsFiniteSet(A) /\ IsFiniteSet(B)
    BY <1>2
  <2>6. PICK a \in Nat, b \in Nat : /\ a = Cardinality(A) /\ b = Cardinality(B)
                                    /\ a = TidOffset(s) /\ b = TidOffset(r)
    BY <1>2, <2>5, FS_CardinalityType
  <2>7. A \cap H = {} /\ A \cup H \in SUBSET B
    BY <2>3, <2>4, <2>5
  <2>8. Cardinality(A \cap H) = 0
    BY <2>7, FS_EmptySet
  <2>9. Cardinality(A \cup H) = a + n
    <3>1. Cardinality(A \cup H) = Cardinality(A) + Cardinality(H) - Cardinality(A \cap H)
      BY <2>2, <2>5, FS_Union
    <3> QED
      BY <2>2, <2>6, <2>8, <3>1
  <2>10. Cardinality(A \cup H) <= b
    BY <2>5, <2>6, <2>7, FS_Subset
  <2> QED
    BY <2>1, <2>6, <2>9, <2>10
<1> QED
  BY <1>3, <1>4

\* Of a track's frames at least one is taken, and where each goes.
LEMMA SamplesAreFew ==
  ASSUME IsDataSet(input), NEW s \in SequenceNames, NEW t \in LongTargets(s)
  PROVE  /\ NumSampled(s, t) \in Nat \ {0}
         /\ NumSampled(s, t) <= Cardinality(FramesOf(s, t))
         /\ \A i : SplitOf(NumSampled(s, t), i) \in Splits
<1>1. Cardinality(FramesOf(s, t)) \in Nat /\ Cardinality(FramesOf(s, t)) # 0
  BY TracksAreFinite, FS_CardinalityType, FS_EmptySet
<1>2. PICK n \in Nat : n = Cardinality(FramesOf(s, t)) /\ n # 0
  BY <1>1
<1>3. MaxCrops \in Nat \ {0}
  BY PrepareAssumption
<1>4. Min({n, MaxCrops}) \in {n, MaxCrops} /\ \A x \in {n, MaxCrops} : Min({n, MaxCrops}) <= x
  <2>1. {n, MaxCrops} \in SUBSET Nat /\ {n, MaxCrops} # {}
    BY <1>3
  <2> QED
    BY <2>1, MinOfNaturals
<1>5. NumSampled(s, t) = Min({n, MaxCrops})
  BY <1>2 DEF NumSampled
<1>6. \A i : SplitOf(NumSampled(s, t), i) \in Splits
  BY DEF SplitOf, Splits
<1> QED
  BY <1>2, <1>3, <1>4, <1>5, <1>6

\* What is planned for a sequence.
LEMMA PlannedCrops ==
  ASSUME IsDataSet(input), NEW s \in SequenceNames, NEW c \in Planned(s)
  PROVE  /\ \E t \in LongTargets(s) : \E i \in 1..NumSampled(s, t) : c = CropOf(s, t, i)
         /\ c.split \in Splits /\ c.identity \in Nat /\ c.sequence = s
         /\ c.target \in LongTargets(s) /\ c.identity = TidOffset(s) + Place(s, c.target)
<1>0. PICK t \in LongTargets(s) : \E i \in 1..NumSampled(s, t) : c = CropOf(s, t, i)
  BY DEF Planned
<1>1. PICK i \in 1..NumSampled(s, t) : c = CropOf(s, t, i)
  BY <1>0
<1>2. /\ c.split = SplitOf(NumSampled(s, t), i) /\ c.sequence = s /\ c.target = t
      /\ c.identity = TidOffset(s) + Place(s, t)
  BY <1>1 DEF CropOf
<1>3. Place(s, t) \in Nat /\ TidOffset(s) \in Nat
  BY PlacesNumber, OffsetsGrow
<1>4. SplitOf(NumSampled(s, t), i) \in Splits
  BY SamplesAreFew
<1> QED
  BY <1>1, <1>2, <1>3, <1>4

\* An identity is given to the crops of one track only.
LEMMA IdentitiesAreDistinct ==
  ASSUME IsDataSet(input),
         NEW s \in Dispatched, NEW r \in Dispatched, NEW c \in Planned(s), NEW d \in Planned(r),
         c.identity = d.identity
  PROVE  s = r /\ c.target = d.target
<1>0. s \in SequenceNames /\ r \in SequenceNames /\ HasAnnotations(s) /\ HasAnnotations(r)
  BY DEF Dispatched
<1>1. /\ c.target \in LongTargets(s) /\ c.identity = TidOffset(s) + Place(s, c.target)
      /\ d.target \in LongTargets(r) /\ d.identity = TidOffset(r) + Place(r, d.target)
  BY <1>0, PlannedCrops
<1>2. PICK a \in Nat, n \in Nat, p \in Nat :
        a = TidOffset(s) /\ n = Cardinality(LongTargets(s)) /\ p = Place(s, c.target) /\ p < n
  BY <1>0, <1>1, OffsetsGrow, PlacesNumber
<1>3. PICK b \in Nat, m \in Nat, q \in Nat :
        b = TidOffset(r) /\ m = Cardinality(LongTargets(r)) /\ q = Place(r, d.target) /\ q < m
  BY <1>0, <1>1, OffsetsGrow, PlacesNumber
<1>4. a + p = b + q
  BY <1>1, <1>2, <1>3
<1>5. s \in Nat /\ r \in Nat
  BY <1>0, SequencesAreFinite
<1>6. ~ (s < r)
  <2>1. s < r => a + n <= b
    BY <1>0, <1>2, <1>3, OffsetsGrow
  <2> QED
    BY <1>2, <1>3, <1>4, <2>1
<1>7. ~ (r < s)
  <2>1. r < s => b + m <= a
    BY <1>0, <1>2, <1>3, OffsetsGrow
  <2> QED
    BY <1>2, <1>3, <1>4, <2>1
<1>8. s = r
  BY <1>5, <1>6, <1>7
<1>9. p = q
  BY <1>2, <1>3, <1>4, <1>8
<1> QED
  BY <1>0, <1>1, <1>2, <1>3, <1>8, <1>9, PlacesNumber

\* The plan depends on the directory and the options alone.
LEMMA PlanStays ==
  ASSUME input' = input, galleryPercent' = galleryPercent
  PROVE  /\ \A s : Planned(s)' = Planned(s)
         /\ \A c : CanBeCut(c)' = CanBeCut(c)
         /\ Dispatched' = Dispatched /\ IsDataSet(input)' = IsDataSet(input)
<1>1. \A s : Boxes(s)' = Boxes(s)
  BY DirectoryStays DEF Boxes
<1>2. \A s, t : Track(s, t)' = Track(s, t)
  BY <1>1 DEF Track
<1>3. \A s, t : FramesOf(s, t)' = FramesOf(s, t)
  BY <1>2 DEF FramesOf
<1>4. \A s : LongTargets(s)' = LongTargets(s)
  BY <1>1, <1>3 DEF LongTargets, IsLong
<1>5. Weight' = Weight
  BY DEF Weight
<1>6. \A s, f : FrameRank(s, f)' = FrameRank(s, f)
  BY <1>1, <1>5 DEF FrameRank
<1>7. \A s, t : TargetRank(s, t)' = TargetRank(s, t)
  BY <1>3, <1>5, <1>6 DEF TargetRank
<1>8. \A s, t : Place(s, t)' = Place(s, t)
  BY <1>4, <1>7 DEF Place
<1>9. \A s : TidOffset(s)' = TidOffset(s)
  BY <1>4, DirectoryStays DEF TidOffset
<1>10. \A s, t : NumSampled(s, t)' = NumSampled(s, t)
  BY <1>3 DEF NumSampled
<1>11. \A s, t, i : Sampled(s, t, i)' = Sampled(s, t, i)
  BY <1>3, <1>10 DEF Sampled
<1>12. \A n, i : SplitOf(n, i)' = SplitOf(n, i)
  BY DEF SplitOf
<1>13. \A s, t, i : CropOf(s, t, i)' = CropOf(s, t, i)
  BY <1>8, <1>9, <1>10, <1>11, <1>12 DEF CropOf
<1>14. \A s : Planned(s)' = Planned(s)
  BY <1>4, <1>10, <1>13 DEF Planned
<1>15. \A c : CanBeCut(c)' = CanBeCut(c)
  BY <1>2 DEF CanBeCut
<1>16. Dispatched' = Dispatched
  BY DirectoryStays DEF Dispatched
<1> QED
  BY <1>14, <1>15, <1>16, DirectoryStays

-------------------------------------------------------------------------------
(* The preparation of the crops.                                           *)

\* There is a plan as soon as the script has been started, and it is always the same.
PlanIsMade ==
  \/ main = "idle" /\ plan = [s \in SequenceNames |-> {}] /\ crops = {}
  \/ main # "idle" /\ plan = [s \in SequenceNames |-> Planned(s)]

Cut(C) == {c \in C : CanBeCut(c)}

\* Of the crops of a sequence being worked on, only those left to do may be missing; of
\* one that has been worked off, none.
WorkIsKept ==
  /\ todo = [s \in SequenceNames |-> todo[s]]
  /\ \A s \in SequenceNames :
       /\ todo[s] \subseteq plan[s]
       /\ work[s] = "running" => input.images[s] # {} /\ Cut(plan[s] \ todo[s]) \subseteq crops
       /\ work[s] = "ended" /\ input.images[s] # {} => Cut(plan[s]) \subseteq crops

PrepareInv ==
  /\ IsDataSet(input) /\ PrTypeOK /\ PlanIsMade /\ WorkIsKept
  /\ crops \subseteq ExpectedCrops /\ IsFiniteSet(folders)
  /\ main = "done" => crops = ExpectedCrops

\* What is planned, once there is a plan.
LEMMA PlanFacts ==
  ASSUME PrepareInv
  PROVE  /\ \A s \in SequenceNames : plan[s] \subseteq Planned(s)
         /\ \A s \in SequenceNames : main # "idle" => plan[s] = Planned(s)
         /\ plan = [s \in SequenceNames |-> plan[s]]
         /\ \A c \in ExpectedCrops : \E s \in Dispatched : c \in plan[s] /\ c \in Planned(s)
BY DEF PrepareInv, PlanIsMade, ExpectedCrops, Dispatched

\* A step of a script that has been started, the plan being kept.
LEMMA PlanIsKept ==
  ASSUME PrepareInv, input' = input, galleryPercent' = galleryPercent, plan' = plan,
         main # "idle", main' # "idle"
  PROVE  /\ PlanIsMade' /\ ExpectedCrops' = ExpectedCrops
         /\ \A c : CanBeCut(c)' = CanBeCut(c)
         /\ Dispatched' = Dispatched /\ IsDataSet(input)'
<1>1. PlanIsMade'
  BY PlanStays DEF PrepareInv, PlanIsMade
<1>2. ExpectedCrops' = ExpectedCrops
  BY PlanStays DEF ExpectedCrops
<1> QED
  BY <1>1, <1>2, PlanStays DEF PrepareInv

LEMMA PrepareStarts ==
  ASSUME PrepareInv, input' = input, PrStart
  PROVE  /\ PrepareInv'
         /\ ExpectedCrops # {} => ExpectedCrops' = ExpectedCrops
<1>0. /\ galleryPercent' = galleryPercent /\ poolSize' = poolSize /\ main' = "running"
      /\ plan' = [s \in SequenceNames |-> Planned(s)]
      /\ work' = [s \in SequenceNames |-> "waiting"] /\ todo' = [s \in SequenceNames |-> {}]
      /\ folders' = folders /\ crops' = crops
  BY DEF PrStart
<1>s. /\ \A s : Planned(s)' = Planned(s) /\ \A c : CanBeCut(c)' = CanBeCut(c)
      /\ Dispatched' = Dispatched /\ IsDataSet(input)'
  BY <1>0, PlanStays DEF PrepareInv
<1>1. PlanIsMade'
  BY <1>0, <1>s DEF PlanIsMade
<1>2. ExpectedCrops # {} => ExpectedCrops' = ExpectedCrops
  <2> SUFFICES ASSUME ExpectedCrops # {} PROVE ExpectedCrops' = ExpectedCrops
    OBVIOUS
  <2>1. PICK s \in Dispatched : plan[s] # {}
    BY PlanFacts
  <2>2. s \in SequenceNames
    BY DEF Dispatched
  <2>3. main # "idle"
    BY <2>1, <2>2 DEF PrepareInv, PlanIsMade
  <2>4. plan' = plan
    BY <1>0, <2>3 DEF PrepareInv, PlanIsMade
  <2> QED
    BY <1>0, <2>3, <2>4, PlanIsKept
<1>3. PrTypeOK'
  BY <1>0, <1>s DEF PrTypeOK, PrepareInv
<1>4. WorkIsKept'
  BY <1>0 DEF WorkIsKept
<1>5. crops' \subseteq ExpectedCrops'
  <2>1. CASE crops = {}
    BY <1>0, <2>1
  <2>2. CASE crops # {}
    BY <1>0, <1>2, <2>2 DEF PrepareInv
  <2> QED
    BY <2>1, <2>2
<1> QED
  BY <1>0, <1>s, <1>1, <1>2, <1>3, <1>4, <1>5 DEF PrepareInv

\* A process takes a sequence up: its folders are made, and nothing is done yet.
LEMMA PrepareBegins ==
  ASSUME PrepareInv, input' = input, NEW s \in SequenceNames, PrBegin(s)
  PROVE  PrepareInv' /\ ExpectedCrops' = ExpectedCrops
<1>0. /\ galleryPercent' = galleryPercent /\ poolSize' = poolSize /\ plan' = plan
      /\ main = "running" /\ main' = "running" /\ crops' = crops
      /\ s \in Dispatched
  BY DEF PrBegin, MayBegin
<1>s. /\ PlanIsMade' /\ ExpectedCrops' = ExpectedCrops /\ \A c : CanBeCut(c)' = CanBeCut(c)
      /\ Dispatched' = Dispatched /\ IsDataSet(input)'
  BY <1>0, PlanIsKept
<1>t. /\ work \in [SequenceNames -> {"waiting", "running", "ended", "failed"}]
      /\ todo = [r \in SequenceNames |-> todo[r]] /\ IsDataSet(input)
      /\ folders \subseteq Splits \X Nat /\ IsFiniteSet(folders)
  BY DEF PrepareInv, PrTypeOK, WorkIsKept
<1>1. CASE /\ todo' = todo /\ folders' = folders
           /\ \/ input.images[s] = {} /\ work' = [work EXCEPT ![s] = "ended"]
              \/ work' = [work EXCEPT ![s] = "failed"]
  <2>1. /\ work' = [work EXCEPT ![s] = work'[s]] /\ work'[s] \in {"ended", "failed"}
        /\ work'[s] = "ended" => input.images[s] = {}
    BY <1>1, <1>t
  <2>2. PrTypeOK'
    BY <1>0, <1>s, <1>1, <1>t, <2>1 DEF PrTypeOK, PrepareInv
  <2>3. WorkIsKept'
    BY <1>0, <1>s, <1>1, <1>t, <2>1 DEF WorkIsKept, PrepareInv, Cut
  <2> QED
    BY <1>0, <1>s, <1>1, <2>2, <2>3 DEF PrepareInv
<1>2. CASE /\ work' = [work EXCEPT ![s] = "running"] /\ todo' = [todo EXCEPT ![s] = plan[s]]
           /\ folders' = folders \cup (Splits \X {c.identity : c \in plan[s]})
           /\ input.images[s] # {}
  <2>1. /\ work' = [work EXCEPT ![s] = "running"] /\ todo' = [todo EXCEPT ![s] = plan[s]]
        /\ folders' = folders \cup (Splits \X {c.identity : c \in plan[s]})
        /\ input.images[s] # {}
    BY <1>2
  <2>2. \A c \in plan[s] : c.split \in Splits /\ c.identity \in Nat /\ c.sequence = s
    BY <1>t, PlanFacts, PlannedCrops
  <2>3. PrTypeOK'
    <3>1. folders' \subseteq Splits \X Nat
      BY <1>t, <2>1, <2>2
    <3>2. \A r \in SequenceNames : \A c \in todo'[r] :
             <<c.split, c.identity>> \in folders' /\ c.sequence \in Dispatched
      <4> SUFFICES ASSUME NEW r \in SequenceNames, NEW c \in todo'[r]
                   PROVE  <<c.split, c.identity>> \in folders' /\ c.sequence \in Dispatched
        OBVIOUS
      <4>1. CASE r = s
        BY <1>0, <1>t, <2>1, <2>2, <4>1
      <4>2. CASE r # s
        <5>1. c \in todo[r]
          BY <1>t, <2>1, <4>2
        <5> QED
          BY <2>1, <5>1 DEF PrepareInv, PrTypeOK
      <4> QED
        BY <4>1, <4>2
    <3>3. \A c \in crops : <<c.split, c.identity>> \in folders' /\ c.sequence \in Dispatched
      BY <2>1 DEF PrepareInv, PrTypeOK
    <3>4. \A c \in crops' \cup UNION {todo'[r] : r \in SequenceNames} :
             <<c.split, c.identity>> \in folders' /\ c.sequence \in Dispatched'
      BY <1>0, <1>s, <3>2, <3>3
    <3>5. work' \in [SequenceNames -> {"waiting", "running", "ended", "failed"}]
      BY <1>t, <2>1
    <3> QED
      BY <1>0, <3>1, <3>4, <3>5 DEF PrTypeOK, PrepareInv
  <2>4. WorkIsKept'
    <3>1. todo' = [r \in SequenceNames |-> todo'[r]]
      BY <1>t, <2>1
    <3>2. ASSUME NEW r \in SequenceNames
          PROVE  /\ todo'[r] \subseteq plan[r]
                 /\ work'[r] = "running" => input.images[r] # {} /\ Cut(plan[r] \ todo'[r]) \subseteq crops
                 /\ work'[r] = "ended" /\ input.images[r] # {} => Cut(plan[r]) \subseteq crops
      <4>1. CASE r = s
        BY <1>t, <2>1, <4>1 DEF Cut
      <4>2. CASE r # s
        BY <1>t, <2>1, <4>2 DEF PrepareInv, WorkIsKept
      <4> QED
        BY <4>1, <4>2
    <3> QED
      BY <1>0, <1>s, <3>1, <3>2 DEF WorkIsKept, Cut
  <2>5. IsFiniteSet(folders')
    <3>1. IsFiniteSet({c.identity : c \in plan[s]})
      <4> DEFINE number == [t \in LongTargets(s) |-> TidOffset(s) + Place(s, t)]
      <4>1. IsFiniteSet({number[t] : t \in LongTargets(s)})
        <5> HIDE DEF number
        <5> QED
          BY <1>t, TracksAreFinite, ImageIsFinite
      <4>2. {c.identity : c \in plan[s]} \in SUBSET {number[t] : t \in LongTargets(s)}
        BY <1>t, PlanFacts, PlannedCrops
      <4> HIDE DEF number
      <4> QED
        BY <4>1, <4>2, FS_Subset
    <3>2. IsFiniteSet(Splits)
      <4>1. Splits = {"train", "gallery"} \cup {"query"}
        BY DEF Splits
      <4> QED
        BY <4>1, PairIsFinite, FS_AddElement
    <3>3. IsFiniteSet(Splits \X {c.identity : c \in plan[s]})
      BY <3>1, <3>2, FS_Product
    <3> QED
      BY <1>t, <2>1, <3>3, FS_Union
  <2> QED
    BY <1>0, <1>s, <2>3, <2>4, <2>5 DEF PrepareInv
<1> QED
  BY <1>1, <1>2 DEF PrBegin

\* A crop is written or left out, and taken off the list.
LEMMA PrepareCuts ==
  ASSUME PrepareInv, input' = input, NEW s \in SequenceNames, PrCrop(s)
  PROVE  /\ PrepareInv' /\ ExpectedCrops' = ExpectedCrops
         /\ crops' = crops \/ \E c \in ExpectedCrops : crops' = crops \cup {c}
<1>0. /\ galleryPercent' = galleryPercent /\ poolSize' = poolSize /\ plan' = plan
      /\ main = "running" /\ main' = "running" /\ work' = work /\ folders' = folders
      /\ work[s] = "running"
  BY DEF PrCrop
<1>s. /\ PlanIsMade' /\ ExpectedCrops' = ExpectedCrops /\ \A c : CanBeCut(c)' = CanBeCut(c)
      /\ Dispatched' = Dispatched /\ IsDataSet(input)'
  BY <1>0, PlanIsKept
<1>1. PICK c \in todo[s] : /\ crops' = IF CanBeCut(c) THEN crops \cup {c} ELSE crops
                           /\ todo' = [todo EXCEPT ![s] = @ \ {c}]
  BY DEF PrCrop
<1>t. /\ todo = [r \in SequenceNames |-> todo[r]] /\ todo[s] \subseteq plan[s]
      /\ input.images[s] # {} /\ IsDataSet(input)
  BY <1>0 DEF PrepareInv, WorkIsKept
<1>2. c \in plan[s] /\ c.sequence = s /\ s \in Dispatched /\ <<c.split, c.identity>> \in folders
  <2>1. c \in plan[s] /\ c \in Planned(s)
    BY <1>1, <1>t, PlanFacts
  <2>2. c.sequence = s
    BY <1>t, <2>1, PlannedCrops
  <2>3. c \in UNION {todo[r] : r \in SequenceNames}
    BY <1>1
  <2>4. <<c.split, c.identity>> \in folders /\ c.sequence \in Dispatched
    BY <2>3 DEF PrepareInv, PrTypeOK
  <2> QED
    BY <2>1, <2>2, <2>4
<1>3. CanBeCut(c) => c \in ExpectedCrops
  BY <1>t, <1>2 DEF ExpectedCrops
<1>4. crops' = crops \/ \E d \in ExpectedCrops : crops' = crops \cup {d}
  BY <1>1, <1>3
<1>5. PrTypeOK'
  <2>1. \A d \in crops' : <<d.split, d.identity>> \in folders /\ d.sequence \in Dispatched
    BY <1>1, <1>2 DEF PrepareInv, PrTypeOK
  <2>2. \A r \in SequenceNames : todo'[r] \subseteq todo[r]
    BY <1>1, <1>t
  <2>3. \A d \in crops' \cup UNION {todo'[r] : r \in SequenceNames} :
           <<d.split, d.identity>> \in folders /\ d.sequence \in Dispatched
    BY <2>1, <2>2 DEF PrepareInv, PrTypeOK
  <2> QED
    BY <1>0, <1>s, <2>3 DEF PrTypeOK, PrepareInv
<1>6. WorkIsKept'
  <2>1. todo' = [r \in SequenceNames |-> todo'[r]] /\ crops \subseteq crops'
    BY <1>1, <1>t
  <2>2. ASSUME NEW r \in SequenceNames
        PROVE  /\ todo'[r] \subseteq plan[r]
               /\ work[r] = "running" => input.images[r] # {} /\ Cut(plan[r] \ todo'[r]) \subseteq crops'
               /\ work[r] = "ended" /\ input.images[r] # {} => Cut(plan[r]) \subseteq crops'
    <3>1. CASE r = s
      <4>1. todo'[r] = todo[r] \ {c}
        BY <1>1, <1>t, <3>1
      <4>2. Cut(plan[r] \ todo[r]) \subseteq crops
        BY <1>0, <3>1 DEF PrepareInv, WorkIsKept
      <4> QED
        BY <1>0, <1>1, <1>t, <3>1, <4>1, <4>2 DEF Cut
    <3>2. CASE r # s
      <4>1. todo'[r] = todo[r]
        BY <1>1, <1>t, <3>2
      <4> QED
        BY <2>1, <4>1 DEF PrepareInv, WorkIsKept
    <3> QED
      BY <3>1, <3>2
  <2> QED
    BY <1>0, <1>s, <2>1, <2>2 DEF WorkIsKept, Cut
<1>7. crops' \subseteq ExpectedCrops'
  BY <1>s, <1>1, <1>3 DEF PrepareInv
<1> QED
  BY <1>0, <1>s, <1>4, <1>5, <1>6, <1>7 DEF PrepareInv

\* Steps that write nothing: a sequence ends, the pool breaks, main ends or is stopped.
LEMMA PrepareGoesOn ==
  ASSUME PrepareInv, input' = input, NEW s \in SequenceNames,
         PrEnd(s) \/ PrBreak \/ PrCrash \/ PrFinish
  PROVE  /\ PrepareInv' /\ ExpectedCrops' = ExpectedCrops /\ crops' = crops
         /\ main' = "done" => crops = ExpectedCrops
<1>0. /\ galleryPercent' = galleryPercent /\ poolSize' = poolSize /\ plan' = plan
      /\ main = "running" /\ main' \in {"running", "failed", "stopped", "done"}
      /\ crops' = crops /\ todo' = todo /\ folders' = folders
  BY DEF PrEnd, PrBreak, PrCrash, PrFinish
<1>s. /\ PlanIsMade' /\ ExpectedCrops' = ExpectedCrops /\ \A c : CanBeCut(c)' = CanBeCut(c)
      /\ Dispatched' = Dispatched /\ IsDataSet(input)'
  BY <1>0, PlanIsKept
<1>t. /\ work \in [SequenceNames -> {"waiting", "running", "ended", "failed"}]
      /\ todo = [r \in SequenceNames |-> todo[r]]
  BY DEF PrepareInv, PrTypeOK, WorkIsKept
<1>1. \A r \in SequenceNames :
        /\ work'[r] \in {work[r], "failed", "ended"}
        /\ work'[r] = "ended" => work[r] = "ended" \/ (work[r] = "running" /\ todo[r] = {})
  BY <1>t DEF PrEnd, PrBreak, PrCrash, PrFinish
<1>2. work' \in [SequenceNames -> {"waiting", "running", "ended", "failed"}]
  BY <1>t DEF PrEnd, PrBreak, PrCrash, PrFinish
<1>3. PrTypeOK'
  BY <1>0, <1>s, <1>2 DEF PrTypeOK, PrepareInv
<1>4. WorkIsKept'
  <2>1. ASSUME NEW r \in SequenceNames
        PROVE  /\ todo[r] \subseteq plan[r]
               /\ work'[r] = "running" => input.images[r] # {} /\ Cut(plan[r] \ todo[r]) \subseteq crops
               /\ work'[r] = "ended" /\ input.images[r] # {} => Cut(plan[r]) \subseteq crops
    <3>1. /\ todo[r] \subseteq plan[r]
          /\ work[r] = "running" => input.images[r] # {} /\ Cut(plan[r] \ todo[r]) \subseteq crops
          /\ work[r] = "ended" /\ input.images[r] # {} => Cut(plan[r]) \subseteq crops
      BY DEF PrepareInv, WorkIsKept
    <3>2. todo[r] = {} => plan[r] \ todo[r] = plan[r]
      OBVIOUS
    <3> QED
      BY <1>1, <3>1, <3>2
  <2> QED
    BY <1>0, <1>s, <1>t, <2>1 DEF WorkIsKept, Cut
<1>5. main' = "done" => crops = ExpectedCrops
  <2> SUFFICES ASSUME main' = "done" PROVE ExpectedCrops \subseteq crops
    BY DEF PrepareInv
  <2>1. PrFinish /\ ~ SomeRaises
    BY <1>0 DEF PrEnd, PrBreak, PrCrash, PrFinish
  <2>2. \A r \in Dispatched : work[r] = "ended"
    BY <1>t, <2>1 DEF PrFinish, SomeRaises, Dispatched
  <2>3. \A r \in Dispatched : input.images[r] # {} => Cut(plan[r]) \subseteq crops
    BY <2>2 DEF PrepareInv, WorkIsKept, Dispatched
  <2> QED
    BY <2>3 DEF ExpectedCrops, Cut
<1> QED
  BY <1>0, <1>s, <1>3, <1>4, <1>5 DEF PrepareInv

\* Another script's step.
LEMMA PrepareRests ==
  ASSUME PrepareInv, UNCHANGED <<input, prVars>>
  PROVE  PrepareInv' /\ ExpectedCrops' = ExpectedCrops
<1>0. /\ input' = input /\ galleryPercent' = galleryPercent /\ poolSize' = poolSize /\ plan' = plan
      /\ main' = main /\ work' = work /\ todo' = todo /\ folders' = folders /\ crops' = crops
  BY DEF prVars
<1>s. /\ \A s : Planned(s)' = Planned(s) /\ \A c : CanBeCut(c)' = CanBeCut(c)
      /\ Dispatched' = Dispatched /\ IsDataSet(input)'
  BY <1>0, PlanStays DEF PrepareInv
<1>1. PlanIsMade'
  BY <1>0, <1>s DEF PlanIsMade, PrepareInv
<1>2. ExpectedCrops' = ExpectedCrops
  BY <1>0, <1>s DEF ExpectedCrops
<1>3. PrTypeOK'
  BY <1>0, <1>s DEF PrTypeOK, PrepareInv
<1>4. WorkIsKept'
  BY <1>0, <1>s DEF WorkIsKept, Cut, PrepareInv
<1> QED
  BY <1>0, <1>s, <1>1, <1>2, <1>3, <1>4 DEF PrepareInv

LEMMA PrepareBeginsIdle ==
  ASSUME Init
  PROVE  PrepareInv /\ ExpectedCrops = {}
<1>1. IsDataSet(input)
  BY InputsAssumption DEF Init
<1>2. PrInit
  BY DEF Init
<1>3. ExpectedCrops = {}
  BY <1>2 DEF PrInit, ExpectedCrops, Dispatched
<1>4. PrTypeOK
  BY <1>2 DEF PrInit, PrTypeOK
<1>5. PlanIsMade /\ WorkIsKept
  BY <1>2 DEF PrInit, PlanIsMade, WorkIsKept
<1> QED
  BY <1>1, <1>2, <1>3, <1>4, <1>5, FS_EmptySet DEF PrepareInv, PrInit

LEMMA PrepareSteps ==
  ASSUME PrepareInv, [Next]_scriptVars
  PROVE  PrepareInv'
<1>1. CASE script = "prepare" /\ PrNext
  <2>1. input' = input
    BY <1>1 DEF Next, scriptVars
  <2>2. CASE PrStart
    BY <2>1, <2>2, PrepareStarts
  <2>3. CASE \E s \in SequenceNames : PrBegin(s)
    BY <2>1, <2>3, PrepareBegins
  <2>4. CASE \E s \in SequenceNames : PrCrop(s)
    BY <2>1, <2>4, PrepareCuts
  <2>5. CASE PrBreak \/ PrFinish \/ PrCrash \/ \E s \in SequenceNames : PrEnd(s)
    <3>1. PICK s \in SequenceNames : PrEnd(s) \/ PrBreak \/ PrCrash \/ PrFinish
      <4>1. 1 \in SequenceNames
        BY SequencesAssumption DEF SequenceNames
      <4> QED
        BY <2>5, <4>1
    <3> QED
      BY <2>1, <3>1, PrepareGoesOn
  <2> QED
    BY <1>1, <2>2, <2>3, <2>4, <2>5 DEF PrNext
<1>2. CASE UNCHANGED <<input, prVars>>
  BY <1>2, PrepareRests
<1> QED
  BY <1>1, <1>2 DEF Next, scriptVars

LEMMA PrepareInvariant == Spec => []PrepareInv
<1>1. Init => PrepareInv
  BY PrepareBeginsIdle
<1>2. PrepareInv /\ [Next]_scriptVars => PrepareInv'
  BY PrepareSteps
<1> QED
  BY <1>1, <1>2, PTL DEF Spec

\* The identities that main counts out and the processes give to their tracks never meet:
\* whatever crops are there, written by whichever process in whichever run, those of one
\* identity are of one track of one sequence.
THEOREM IdentitiesNeverMeet == Spec => []IdentityIsOneVehicle
<1>1. PrepareInv => IdentityIsOneVehicle
  <2> SUFFICES ASSUME PrepareInv, NEW c \in crops, NEW d \in crops, c.identity = d.identity
               PROVE  c.sequence = d.sequence /\ c.target = d.target
    BY DEF IdentityIsOneVehicle
  <2>0. IsDataSet(input) /\ c \in ExpectedCrops /\ d \in ExpectedCrops
    BY DEF PrepareInv
  <2>1. PICK s \in Dispatched : c \in Planned(s)
    BY <2>0, PlanFacts
  <2>2. PICK r \in Dispatched : d \in Planned(r)
    BY <2>0, PlanFacts
  <2>3. s = r /\ c.target = d.target
    BY <2>0, <2>1, <2>2, IdentitiesAreDistinct
  <2>4. c.sequence = s /\ d.sequence = r
    BY <2>0, <2>1, <2>2, PlannedCrops DEF Dispatched
  <2> QED
    BY <2>3, <2>4
<1> QED
  BY <1>1, PrepareInvariant, PTL

\* With its pool, its failures, interruptions and reruns, the preparation is the store of
\* CropStore: it adds what belongs there, loses nothing, and says that it is done only
\* when nothing is missing.
THEOREM PreparationIsCropStore == Spec => ImplementsCropStore
<1>1. Init => Store!StoreInit
  BY PrepareBeginsIdle DEF Store!StoreInit, Init, PrInit
<1>2. PrepareInv /\ [Next]_scriptVars => [Store!StoreNext]_(Store!storeVars)
  <2> SUFFICES ASSUME PrepareInv, [Next]_scriptVars
               PROVE  [Store!StoreNext]_(Store!storeVars)
    OBVIOUS
  <2>1. CASE script = "prepare" /\ PrNext
    <3>0. input' = input
      BY <2>1 DEF Next, scriptVars
    <3>1. CASE PrStart
      <4>1. ExpectedCrops # {} => ExpectedCrops' = ExpectedCrops
        BY <3>0, <3>1, PrepareStarts
      <4>2. main' = "running" /\ crops' = crops
        BY <3>1 DEF PrStart
      <4> QED
        BY <4>1, <4>2 DEF Store!StoreNext, Store!Open
    <3>2. CASE \E s \in SequenceNames : PrBegin(s)
      <4>1. PICK s \in SequenceNames : PrBegin(s)
        BY <3>2
      <4>2. ExpectedCrops' = ExpectedCrops /\ crops' = crops /\ main' = main
        BY <3>0, <4>1, PrepareBegins DEF PrBegin
      <4> QED
        BY <4>2 DEF Store!storeVars
    <3>3. CASE \E s \in SequenceNames : PrCrop(s)
      <4>1. PICK s \in SequenceNames : PrCrop(s)
        BY <3>3
      <4>2. /\ ExpectedCrops' = ExpectedCrops /\ main = "running" /\ main' = main
            /\ crops' = crops \/ \E c \in ExpectedCrops : crops' = crops \cup {c}
        BY <3>0, <4>1, PrepareCuts DEF PrCrop
      <4> QED
        BY <4>2 DEF Store!storeVars, Store!StoreNext, Store!Add
    <3>4. CASE PrBreak \/ PrFinish \/ PrCrash \/ \E s \in SequenceNames : PrEnd(s)
      <4>1. PICK s \in SequenceNames : PrEnd(s) \/ PrBreak \/ PrCrash \/ PrFinish
        <5>1. 1 \in SequenceNames
          BY SequencesAssumption DEF SequenceNames
        <5> QED
          BY <3>4, <5>1
      <4>2. /\ ExpectedCrops' = ExpectedCrops /\ crops' = crops
            /\ main' = "done" => crops = ExpectedCrops
        BY <3>0, <4>1, PrepareGoesOn
      <4>3. main = "running"
        BY <4>1 DEF PrEnd, PrBreak, PrCrash, PrFinish
      <4> QED
        BY <4>2, <4>3 DEF Store!storeVars, Store!StoreNext, Store!Complete
    <3> QED
      BY <2>1, <3>1, <3>2, <3>3, <3>4 DEF PrNext
  <2>2. CASE UNCHANGED <<input, prVars>>
    <3>1. ExpectedCrops' = ExpectedCrops /\ crops' = crops /\ main' = main
      BY <2>2, PrepareRests DEF prVars
    <3> QED
      BY <3>1 DEF Store!storeVars
  <2> QED
    BY <2>1, <2>2 DEF Next, scriptVars
<1> QED
  BY <1>1, <1>2, PrepareInvariant, PTL DEF Spec, ImplementsCropStore, Store!StoreSpec

-------------------------------------------------------------------------------
(* The data set that the training reads.                                   *)

\* A share is at least one, and never all of two or more.
LEMMA SharesAreProper ==
  ASSUME NEW n \in Nat, NEW p \in 0..99
  PROVE  /\ Share(n, p) \in Nat \ {0}
         /\ n >= 2 => Share(n, p) <= n - 1
<1>1. PICK m \in Nat : m = n * p /\ m <= n * 99
  <2>1. PICK k \in Nat : p + k = 99
    <3>1. 99 - p \in Nat /\ p + (99 - p) = 99
      OBVIOUS
    <3> QED
      BY <3>1
  <2>2. n * 99 = n * p + n * k
    BY <2>1
  <2>3. n * p \in Nat /\ n * k \in Nat
    OBVIOUS
  <2> QED
    BY <2>2, <2>3
<1>2. PICK d \in Nat : d = m \div 100 /\ (n # 0 => d < n)
  BY <1>1
<1>3. {1, d} \in SUBSET Nat /\ Share(n, p) = Max({1, d})
  BY <1>1, <1>2 DEF Share
<1>4. Max({1, d}) \in {1, d}
  <2>1. IsFiniteSet({1, d})
    BY PairIsFinite
  <2>2. {1, d} # {} /\ \A x \in {1, d} : x \in Int
    OBVIOUS
  <2> QED
    BY <2>1, <2>2, MaxOfFinite
<1>5. 1 <= Max({1, d})
  BY MaxOfTwo
<1> QED
  BY <1>2, <1>3, <1>4, <1>5

\* Where a track gives queries it gives something for the gallery too, if there is to be
\* one; and if not, nothing is for it.
LEMMA QueriesComeWithGallery ==
  ASSUME NEW n \in Nat, NEW i \in 1..n, galleryPercent \in 0..99
  PROVE  /\ SplitOf(n, i) = "query" /\ galleryPercent # 0 =>
              \E j \in 1..n : SplitOf(n, j) = "gallery"
         /\ galleryPercent = 0 => SplitOf(n, i) # "gallery"
<1>0. QueryPercent \in 0..99 /\ MinSplit \in Nat /\ MinSplit >= 2
  BY PrepareAssumption
<1>1. CASE n < MinSplit
  <2>1. SplitOf(n, i) = "train"
    BY <1>1 DEF SplitOf
  <2> QED
    BY <2>1
<1>2. CASE n >= MinSplit
  <2>1. PICK q \in Nat : q = Share(n, QueryPercent) /\ 1 <= q /\ q <= n - 1
    <3>1. n >= 2
      BY <1>0, <1>2
    <3>2. Share(n, QueryPercent) \in Nat \ {0} /\ Share(n, QueryPercent) <= n - 1
      BY <1>0, <3>1, SharesAreProper
    <3> QED
      BY <3>2
  <2>2. ~ (n < MinSplit)
    BY <1>0, <1>2
  <2>3. CASE galleryPercent = 0
    BY <2>1, <2>2, <2>3 DEF SplitOf
  <2>4. CASE galleryPercent # 0
    <3>1. PICK j \in 1..n : j = n - q
      BY <2>1
    <3>2. PICK g \in Nat : g = Share(j, galleryPercent) /\ 1 <= g
      <4>1. j \in Nat
        OBVIOUS
      <4>2. Share(j, galleryPercent) \in Nat \ {0}
        BY <4>1, SharesAreProper
      <4> QED
        BY <4>2
    <3>3. SplitOf(n, j) = "gallery"
      BY <2>1, <2>2, <2>4, <3>1, <3>2 DEF SplitOf
    <3> QED
      BY <2>4, <3>3
  <2> QED
    BY <2>3, <2>4
<1> QED
  BY <1>0, <1>1, <1>2

LEMMA QueriesAreAnswered ==
  ASSUME PrepareInv, main = "done",
         \A s \in Dispatched : \A c \in plan[s] : CanBeCut(c),
         NEW q \in Query
  PROVE  \E g \in Gallery : g.pid = q.pid /\ g.camid # q.camid
<1>0. IsDataSet(input) /\ galleryPercent \in 0..99 /\ crops = ExpectedCrops
  BY PrepareAssumption DEF PrepareInv, PrTypeOK
<1>1. PICK c \in crops : c.split = "query" /\ q = [crop |-> c, pid |-> c.identity, camid |-> 1]
  BY DEF Query, Entries
<1>2. CASE galleryPercent = 0
  <2>1. Entries("gallery", 0) = {}
    <3> SUFFICES ASSUME NEW d \in crops, d.split = "gallery" PROVE FALSE
      BY DEF Entries
    <3>1. PICK s \in Dispatched : d \in Planned(s)
      BY <1>0, PlanFacts
    <3>2. s \in SequenceNames
      BY DEF Dispatched
    <3>3. PICK t \in LongTargets(s) : \E i \in 1..NumSampled(s, t) : d = CropOf(s, t, i)
      BY <1>0, <3>1, <3>2, PlannedCrops
    <3>4. PICK i \in 1..NumSampled(s, t) : SplitOf(NumSampled(s, t), i) = "gallery"
      BY <3>3 DEF CropOf
    <3>5. NumSampled(s, t) \in Nat
      BY <1>0, <3>2, SamplesAreFew
    <3> QED
      BY <1>0, <1>2, <3>4, <3>5, QueriesComeWithGallery
  <2>2. Gallery = OtherCamera(Query)
    BY <2>1 DEF Gallery
  <2>3. [q EXCEPT !.camid = 0] \in Gallery
    BY <2>2 DEF OtherCamera
  <2> QED
    BY <1>1, <2>3
<1>3. CASE galleryPercent # 0
  <2>1. PICK s \in Dispatched : input.images[s] # {} /\ c \in plan[s]
    BY <1>0 DEF ExpectedCrops
  <2>2. s \in SequenceNames /\ plan[s] = Planned(s)
    BY PlanFacts DEF Dispatched
  <2>3. PICK t \in LongTargets(s) : \E i \in 1..NumSampled(s, t) : c = CropOf(s, t, i)
    BY <1>0, <2>1, <2>2, PlannedCrops
  <2>4. PICK i \in 1..NumSampled(s, t) : c = CropOf(s, t, i)
    BY <2>3
  <2>5. SplitOf(NumSampled(s, t), i) = "query" /\ NumSampled(s, t) \in Nat
    BY <1>0, <1>1, <2>2, <2>4, SamplesAreFew DEF CropOf
  <2>6. PICK j \in 1..NumSampled(s, t) : SplitOf(NumSampled(s, t), j) = "gallery"
    BY <1>0, <1>3, <2>5, QueriesComeWithGallery
  <2>7. CropOf(s, t, j) \in plan[s]
    BY <2>2, <2>6 DEF Planned
  <2>8. CropOf(s, t, j) \in crops
    BY <1>0, <2>1, <2>7 DEF ExpectedCrops
  <2>9. CropOf(s, t, j).split = "gallery" /\ CropOf(s, t, j).identity = c.identity
    BY <2>4, <2>6 DEF CropOf
  <2> DEFINE g == [crop |-> CropOf(s, t, j), pid |-> c.identity, camid |-> 0]
  <2>10. g \in Entries("gallery", 0)
    BY <2>8, <2>9 DEF Entries
  <2>11. g \in Gallery
    BY <2>10 DEF Gallery
  <2> QED
    BY <1>1, <2>11
<1> QED
  BY <1>2, <1>3

LEMMA LabelsAreClasses ==
  ASSUME PrepareInv, NEW e \in Train
  PROVE  e.pid < NumClasses
<1>1. PICK c \in crops : /\ c.split = "train"
                         /\ e.pid = Cardinality({p \in Pids("train") : p < c.identity})
  <2>1. PICK b \in Entries("train", 0) :
          e = [b EXCEPT !.pid = Cardinality({p \in Pids("train") : p < b.pid})]
    BY DEF Train
  <2>2. PICK c \in crops : c.split = "train" /\ b = [crop |-> c, pid |-> c.identity, camid |-> 0]
    BY DEF Entries
  <2> QED
    BY <2>1, <2>2
<1>2. c.identity \in Pids("train")
  <2>1. <<c.split, c.identity>> \in folders
    BY DEF PrepareInv, PrTypeOK
  <2> QED
    BY <1>1, <2>1 DEF Pids
<1>3. \A p \in Pids("train") : p \in Nat
  BY DEF PrepareInv, PrTypeOK, Pids
<1>4. IsFiniteSet(Pids("train"))
  <2> DEFINE number == [d \in folders |-> d[2]]
  <2>1. IsFiniteSet({number[p] : p \in folders})
    <3>1. IsFiniteSet(folders)
      BY DEF PrepareInv
    <3> HIDE DEF number
    <3> QED
      BY <3>1, ImageIsFinite
  <2>2. Pids("train") \in SUBSET {number[p] : p \in folders}
    BY DEF Pids
  <2> HIDE DEF number
  <2> QED
    BY <2>1, <2>2, FS_Subset
<1>5. PICK P, x : P = Pids("train") /\ x = c.identity
  OBVIOUS
<1> DEFINE T == {p \in P : p < x}
<1>6. T \in SUBSET P /\ x \in P /\ x \notin T
  BY <1>2, <1>3, <1>5
<1>7. T # P
  BY <1>6
<1> HIDE DEF T
<1>8. IsFiniteSet(T) /\ Cardinality(T) < Cardinality(P)
  <2>1. IsFiniteSet(P)
    BY <1>4, <1>5
  <2>2. IsFiniteSet(T) /\ Cardinality(T) <= Cardinality(P) /\ (Cardinality(P) = Cardinality(T) => P = T)
    BY <1>6, <2>1, FS_Subset
  <2>3. Cardinality(T) \in Nat /\ Cardinality(P) \in Nat
    BY <2>1, <2>2, FS_CardinalityType
  <2> QED
    BY <1>7, <2>2, <2>3
<1> QED
  BY <1>1, <1>5, <1>8 DEF NumClasses, T

\* A data set that was prepared to the end can be evaluated and trained with: every query
\* has its vehicle in the gallery, seen by the other camera, and no label of a training
\* image is beyond the classifier's outputs.
THEOREM QueriesHaveMatches == Spec => []EveryQueryHasAMatch
<1>1. PrepareInv => EveryQueryHasAMatch
  BY QueriesAreAnswered, LabelsAreClasses DEF EveryQueryHasAMatch
<1> QED
  BY <1>1, PrepareInvariant, PTL

-------------------------------------------------------------------------------
(* The videos.                                                             *)

\* A folder's listing has its images and no others.
LEMMA ImagesAreSorted ==
  ASSUME IsDataSet(input), NEW s \in SequenceNames
  PROVE  /\ SortedImages(s) \in Seq(input.images[s])
         /\ Range(SortedImages(s)) = input.images[s]
         /\ SortedImages(s) = <<>> => input.images[s] = {}
<1>1. PICK S : S = input.images[s] /\ IsFiniteSet(S) /\ \A x \in S : x \in Int
  BY LinesAreFinite
<1>2. PICK n \in Nat : n = Cardinality(S)
  BY <1>1, FS_CardinalityType
<1> DEFINE key == [x \in S |-> x]
<1>3. key \in [S -> Int] /\ \A x, y \in S : key[x] = key[y] => x = y
  BY <1>1
<1>4. \A x \in S : PlaceIn(S, x) = RankOf(S, key, x)
  BY DEF PlaceIn, RankOf
<1> HIDE DEF key
<1>5. /\ \A x \in S : PlaceIn(S, x) \in 0..(n - 1)
      /\ \A x, y \in S : PlaceIn(S, x) = PlaceIn(S, y) => x = y
      /\ \A k \in 0..(n - 1) : \E x \in S : PlaceIn(S, x) = k
  BY <1>1, <1>2, <1>3, <1>4, RanksNumber
<1>6. \A k \in 0..(n - 1) : AtPlace(S, k) \in S /\ PlaceIn(S, AtPlace(S, k)) = k
  BY <1>5 DEF AtPlace
<1>7. SortedImages(s) = [k \in 1..n |-> AtPlace(S, k - 1)]
  BY <1>1, <1>2 DEF SortedImages
<1>8. PICK q : q = SortedImages(s) /\ q = [k \in 1..n |-> AtPlace(S, k - 1)]
  BY <1>7
<1>9. \A k \in 1..n : q[k] \in S
  BY <1>6, <1>8
<1>10. q \in [1..n -> S]
  BY <1>8, <1>9
<1>11. \A x \in S : \E k \in 1..n : q[k] = x
  <2> TAKE x \in S
  <2>1. PICK k \in 0..(n - 1) : k = PlaceIn(S, x)
    BY <1>5
  <2>2. AtPlace(S, k) = x
    BY <1>5, <1>6, <2>1
  <2>3. k + 1 \in 1..n /\ (k + 1) - 1 = k
    BY <2>1
  <2> QED
    BY <1>8, <2>2, <2>3
<1>12. q \in Seq(S) /\ DOMAIN q = 1..n
  BY <1>10
<1>13. Range(q) = S
  BY <1>9, <1>11, <1>12 DEF Range
<1>14. q = <<>> => S = {}
  BY <1>13 DEF Range
<1> QED
  BY <1>1, <1>8, <1>12, <1>13, <1>14

\* The first frames of a listing.
LEMMA Beginnings ==
  ASSUME NEW T, NEW q \in Seq(T), NEW n \in 0..Len(q)
  PROVE  /\ SubSeq(q, 1, n) \in Seq(T)
         /\ IsPrefix(SubSeq(q, 1, n), q)
         /\ Range(SubSeq(q, 1, n)) = {q[k] : k \in 1..n}
         /\ n < Len(q) => Append(SubSeq(q, 1, n), q[n + 1]) = SubSeq(q, 1, n + 1)
         /\ n = Len(q) => SubSeq(q, 1, n) = q
<1>0. PICK N \in Nat : N = Len(q) /\ n \in 0..N /\ n \in Nat
  OBVIOUS
<1>1. ASSUME NEW m \in 0..N
      PROVE  /\ SubSeq(q, 1, m) \in Seq(T) /\ Len(SubSeq(q, 1, m)) = m
             /\ \A k \in 1..m : SubSeq(q, 1, m)[k] = q[k]
  <2>1. \A k \in 1..m : q[k] \in T
    BY <1>0
  <2>2. /\ SubSeq(q, 1, m) \in Seq(T)
        /\ Len(SubSeq(q, 1, m)) = IF 1 <= m THEN m - 1 + 1 ELSE 0
        /\ \A k \in 1..(m - 1 + 1) : SubSeq(q, 1, m)[k] = q[1 + k - 1]
    BY <2>1, SubSeqProperties
  <2>3. m \in Nat /\ m - 1 + 1 = m /\ \A k \in 1..m : 1 + k - 1 = k
    OBVIOUS
  <2>4. \A k \in 1..m : SubSeq(q, 1, m)[k] = q[k]
    BY <2>2, <2>3
  <2>5. Len(SubSeq(q, 1, m)) = m
    BY <2>2, <2>3
  <2> QED
    BY <2>2, <2>4, <2>5
<1>2. PICK b : b = SubSeq(q, 1, n) /\ b \in Seq(T) /\ Len(b) = n /\ \A k \in 1..n : b[k] = q[k]
  BY <1>0, <1>1
<1>3. IsPrefix(b, q)
  <2>1. Len(b) <= Len(q)
    BY <1>0, <1>2
  <2>2. SubSeq(b, 1, Len(b)) = b
    BY <1>2, SubSeqFull
  <2> QED
    BY <1>2, <2>1, <2>2 DEF IsPrefix
<1>4. Range(b) = {q[k] : k \in 1..n}
  <2>1. DOMAIN b = 1..n
    BY <1>0, <1>2
  <2> QED
    BY <1>2, <2>1 DEF Range
<1>5. n < Len(q) => Append(b, q[n + 1]) = SubSeq(q, 1, n + 1)
  <2> SUFFICES ASSUME n < N PROVE Append(b, q[n + 1]) = SubSeq(q, 1, n + 1)
    BY <1>0
  <2>0. n + 1 \in 0..N
    BY <1>0
  <2>1. PICK c : /\ c = SubSeq(q, 1, n + 1) /\ c \in Seq(T) /\ Len(c) = n + 1
                 /\ \A k \in 1..(n + 1) : c[k] = q[k]
    BY <1>1, <2>0
  <2>2. q[n + 1] \in T
    BY <1>0
  <2>3. /\ Append(b, q[n + 1]) \in Seq(T) /\ Len(Append(b, q[n + 1])) = n + 1
        /\ \A k \in 1..n : Append(b, q[n + 1])[k] = b[k]
        /\ Append(b, q[n + 1])[n + 1] = q[n + 1]
    BY <1>0, <1>2, <2>2, AppendProperties
  <2>4. PICK d : /\ d = Append(b, q[n + 1]) /\ d \in Seq(T) /\ Len(d) = n + 1
                 /\ \A k \in 1..n : d[k] = b[k]
                 /\ d[n + 1] = q[n + 1]
    BY <2>3
  <2>5. \A k \in 1..(n + 1) : c[k] = d[k]
    BY <1>0, <1>2, <2>1, <2>4
  <2>6. c = d
    BY <1>0, <2>1, <2>4, <2>5, SeqEqual
  <2> QED
    BY <2>1, <2>4, <2>6
<1>6. n = Len(q) => b = q
  BY <1>2, SubSeqFull
<1> QED
  BY <1>2, <1>3, <1>4, <1>5, <1>6

Flawless(s) == input.images[s] # {} /\ input.unreadable[s] = {} /\ input.odd[s] = {}

SavedOf(s) == {f \in input.images[s] : <<s, f>> \in saved}

FirstImages(s, n) == {SortedImages(s)[k] : k \in 1..n}

\* What VideoHoldsItsSequence asks of a sequence.
HoldsSequence(s) ==
  /\ "video" \in saving =>
       /\ IsPrefix(videos[s], SortedImages(s))
       /\ ~showing => videos[s] = SortedImages(s)
       /\ "images" \in saving => SavedOf(s) = Range(videos[s])
  /\ "images" \in saving /\ ~showing => SavedOf(s) = input.images[s]

\* A writer is open only for the video of the sequence at hand, and nothing is saved yet
\* of this one before its first frame, or of later ones.
WriterIsForFolder ==
  /\ videos = [s \in SequenceNames |-> videos[s]]
  /\ writer # None => videos[folder] \in Seq(input.images[folder])
  /\ stage \in {"idle", "open"} => writer = None /\ \A p \in saved : p[1] # folder
  /\ \A s \in SequenceNames : s > folder => \A p \in saved : p[1] # s

\* The sequence at hand, if it is flawless, is saved up to the next frame.
SavedSoFar ==
  stage \in {"frame", "close"} /\ Flawless(folder) =>
    /\ next <= Len(SortedImages(folder)) + 1
    /\ writer = IF "video" \in saving THEN <<3, 2>> ELSE None
    /\ "video" \in saving => videos[folder] = SubSeq(SortedImages(folder), 1, next - 1)
    /\ "images" \in saving => SavedOf(folder) = FirstImages(folder, next - 1)
    /\ stage = "close" => showing

\* Those before it are as they should be.
EarlierAreHeld ==
  \A s \in 1..NumFolders : (s < folder \/ stage = "done") /\ Flawless(s) => HoldsSequence(s)

InferInv ==
  /\ IsDataSet(input) /\ InfTypeOK /\ WriterIsForFolder /\ SavedSoFar /\ EarlierAreHeld
  /\ mode \in Modes

\* What a step leaves as it was.
LEMMA ListingsStay ==
  ASSUME input' = input, mode' = mode
  PROVE  /\ \A s : SortedImages(s)' = SortedImages(s)
         /\ \A s : Flawless(s)' <=> Flawless(s)
         /\ \A s, n : FirstImages(s, n)' = FirstImages(s, n)
         /\ NumFolders' = NumFolders /\ IsDataSet(input)' = IsDataSet(input)
<1>1. \A s : SortedImages(s)' = SortedImages(s)
  BY DEF SortedImages
<1>2. \A s : Flawless(s)' <=> Flawless(s)
  BY DEF Flawless
<1>3. \A s, n : FirstImages(s, n)' = FirstImages(s, n)
  BY <1>1 DEF FirstImages
<1>4. NumFolders' = NumFolders
  BY DEF NumFolders
<1> QED
  BY <1>1, <1>2, <1>3, <1>4

LEMMA FolderFacts ==
  ASSUME InferInv
  PROVE  /\ folder \in SequenceNames /\ folder \in Nat /\ NumFolders \in Nat /\ folder <= NumFolders
         /\ \A s \in 1..NumFolders : s \in SequenceNames
         /\ next \in Nat \ {0}
         /\ Frames \in Seq(input.images[folder]) /\ Len(Frames) \in Nat
         /\ Range(Frames) = input.images[folder]
         /\ Frames = <<>> => ~ Flawless(folder)
         /\ input.images[folder] \subseteq UNION Range(input.images)
<1>1. /\ NumFolders \in Nat /\ \A s \in 1..NumFolders : s \in SequenceNames
  BY SequencesAssumption DEF NumFolders, SequenceNames
<1>2. folder \in 1..NumFolders /\ next \in Nat \ {0} /\ IsDataSet(input)
  BY DEF InferInv, InfTypeOK
<1>3. /\ Frames \in Seq(input.images[folder]) /\ Range(Frames) = input.images[folder]
      /\ Frames = <<>> => input.images[folder] = {}
  BY <1>1, <1>2, ImagesAreSorted DEF Frames
<1>4. input.images[folder] \subseteq UNION Range(input.images)
  BY <1>1, <1>2 DEF IsDataSet, Range
<1>5. folder \in Nat /\ folder <= NumFolders
  BY <1>1, <1>2
<1>6. Len(Frames) \in Nat
  BY <1>3, LenProperties
<1> QED
  BY <1>1, <1>2, <1>3, <1>4, <1>5, <1>6 DEF Flawless

LEMMA SizesDiffer ==
  /\ None # <<3, 2>> /\ None # <<2, 1>> /\ <<3, 2>> # <<2, 1>>
  /\ \A f : SizeOf(f) \in {<<3, 2>>, <<2, 1>>}
  /\ \A f : input.odd[folder] = {} => SizeOf(f) = <<3, 2>>
BY DEF None, SizeOf

\* A sequence of which neither the video nor the images change.
LEMMA HeldStays ==
  ASSUME input' = input, mode' = mode, saving' = saving, showing' = showing, NEW s,
         videos'[s] = videos[s], SavedOf(s)' = SavedOf(s), HoldsSequence(s)
  PROVE  HoldsSequence(s)'
BY ListingsStay DEF HoldsSequence

\* The step to the next sequence, or to the end.
LEMMA FolderIsLeft ==
  ASSUME InferInv, NextFolder, writer' = None,
         UNCHANGED <<input, mode, saving, showing, next, videos, saved>>,
         stage # "done",
         Flawless(folder) => HoldsSequence(folder)
  PROVE  InferInv'
<1>0. /\ input' = input /\ mode' = mode /\ saving' = saving /\ showing' = showing
      /\ next' = next /\ videos' = videos /\ saved' = saved
  OBVIOUS
<1>1. /\ folder' \in 1..NumFolders /\ stage' \in {"open", "done"}
      /\ stage' = "open" => folder' = folder + 1
      /\ stage' = "done" => folder' = folder /\ folder = NumFolders
  <2>1. folder \in 1..NumFolders /\ folder \in Nat /\ NumFolders \in Nat /\ folder <= NumFolders
    BY FolderFacts DEF InferInv, InfTypeOK
  <2>2. CASE folder < NumFolders
    BY <2>1, <2>2 DEF NextFolder
  <2>3. CASE ~ (folder < NumFolders)
    <3>1. folder = NumFolders
      BY <2>1, <2>3
    <3>2. folder' = folder /\ stage' = "done"
      BY <2>3 DEF NextFolder
    <3> QED
      BY <2>1, <3>1, <3>2
  <2> QED
    BY <2>2, <2>3
<1>2. InfTypeOK'
  BY <1>0, <1>1, ListingsStay DEF InfTypeOK, InferInv
<1>3. WriterIsForFolder'
  <2>1. stage' = "open" => \A p \in saved : p[1] # folder'
    BY <1>1, FolderFacts DEF InferInv, WriterIsForFolder
  <2>2. \A s \in SequenceNames : s > folder' => \A p \in saved : p[1] # s
    <3>1. \A s \in SequenceNames : s \in Nat
      BY SequencesAreFinite
    <3>2. folder' >= folder /\ folder' \in Nat
      BY <1>1, FolderFacts
    <3>3. \A s \in SequenceNames : s > folder' => s > folder
      BY <3>1, <3>2, FolderFacts
    <3> QED
      BY <3>3 DEF InferInv, WriterIsForFolder
  <2> QED
    BY <1>0, <1>1, <2>1, <2>2 DEF WriterIsForFolder, InferInv
<1>4. SavedSoFar'
  BY <1>1 DEF SavedSoFar
<1>5. EarlierAreHeld'
  <2> SUFFICES ASSUME NEW s \in 1..NumFolders, s < folder' \/ stage' = "done", Flawless(s)
               PROVE  HoldsSequence(s)'
    BY <1>0, ListingsStay DEF EarlierAreHeld
  <2>1. s < folder \/ s = folder
    BY <1>1, FolderFacts
  <2>2. HoldsSequence(s)
    BY <2>1 DEF InferInv, EarlierAreHeld
  <2>3. SavedOf(s)' = SavedOf(s)
    BY <1>0 DEF SavedOf
  <2> QED
    BY <1>0, <2>2, <2>3, HeldStays
<1> QED
  BY <1>0, <1>2, <1>3, <1>4, <1>5, ListingsStay DEF InferInv

\* A step at the sequence at hand: what it has to show.
LEMMA FolderGoesOn ==
  ASSUME InferInv, UNCHANGED <<input, mode, saving, showing, folder>>,
         stage' # "done",
         \A s \in 1..NumFolders : s < folder => videos'[s] = videos[s] /\ SavedOf(s)' = SavedOf(s),
         InfTypeOK', WriterIsForFolder', SavedSoFar'
  PROVE  InferInv'
<1>1. EarlierAreHeld'
  <2> SUFFICES ASSUME NEW s \in 1..NumFolders, s < folder, Flawless(s)
               PROVE  HoldsSequence(s)'
    BY ListingsStay DEF EarlierAreHeld
  <2>1. HoldsSequence(s)
    BY DEF InferInv, EarlierAreHeld
  <2> QED
    BY <2>1, HeldStays
<1> QED
  BY <1>1, ListingsStay DEF InferInv

\* What a flawless sequence is left with, stopped or at its end.
LEMMA CloseHolds ==
  ASSUME InferInv, IsOver, Flawless(folder)
  PROVE  HoldsSequence(folder)
<1>1. PICK q, n : /\ q = SortedImages(folder) /\ n = next - 1 /\ q = Frames
                  /\ q \in Seq(input.images[folder]) /\ n \in 0..Len(q)
                  /\ Range(q) = input.images[folder]
                  /\ "video" \in saving => videos[folder] = SubSeq(q, 1, n)
                  /\ "images" \in saving => SavedOf(folder) = {q[k] : k \in 1..n}
                  /\ ~showing => n = Len(q)
  <2>1. stage \in {"frame", "close"}
    BY DEF IsOver
  <2>2. /\ next <= Len(Frames) + 1
        /\ "video" \in saving => videos[folder] = SubSeq(Frames, 1, next - 1)
        /\ "images" \in saving => SavedOf(folder) = {Frames[k] : k \in 1..(next - 1)}
        /\ stage = "close" => showing
    BY <2>1 DEF InferInv, SavedSoFar, FirstImages, Frames
  <2>3. next - 1 \in 0..Len(Frames) /\ (~ showing => next - 1 = Len(Frames))
    BY <2>2, FolderFacts DEF IsOver
  <2>4. Frames = SortedImages(folder)
    BY DEF Frames
  <2> QED
    BY <2>2, <2>3, <2>4, FolderFacts
<1>2. /\ IsPrefix(SubSeq(q, 1, n), q)
      /\ Range(SubSeq(q, 1, n)) = {q[k] : k \in 1..n}
      /\ n = Len(q) => SubSeq(q, 1, n) = q
  BY <1>1, Beginnings
<1> QED
  BY <1>1, <1>2 DEF HoldsSequence

LEMMA InferCloses ==
  ASSUME InferInv, input' = input, InfClose
  PROVE  InferInv'
BY CloseHolds, FolderIsLeft DEF InfClose, IsOver

LEMMA InferStarts ==
  ASSUME InferInv, input' = input, InfStart
  PROVE  InferInv'
<1>0. /\ mode' = mode /\ saving' = saving /\ showing' = showing /\ folder' = folder
      /\ next' = next /\ writer' = writer /\ videos' = videos /\ saved' = saved
      /\ stage = "idle" /\ stage' = "open"
  BY DEF InfStart
<1>1. InfTypeOK'
  BY <1>0, ListingsStay DEF InfTypeOK, InferInv
<1>2. WriterIsForFolder'
  BY <1>0 DEF WriterIsForFolder, InferInv
<1>3. SavedSoFar'
  BY <1>0 DEF SavedSoFar
<1>4. \A s : SavedOf(s)' = SavedOf(s)
  BY <1>0 DEF SavedOf
<1> QED
  BY <1>0, <1>1, <1>2, <1>3, <1>4, FolderGoesOn

LEMMA InferFindsNothing ==
  ASSUME InferInv, input' = input, InfNothing
  PROVE  InferInv'
<1>0. /\ mode' = mode /\ saving' = saving /\ showing' = showing
      /\ next' = next /\ writer' = writer /\ videos' = videos /\ saved' = saved
      /\ stage = "open" /\ ~ Flawless(folder)
  BY FolderFacts DEF InfNothing
<1>1. writer = None
  BY <1>0 DEF InferInv, WriterIsForFolder
<1>2. CASE NextFolder
  BY <1>0, <1>1, <1>2, FolderIsLeft
<1>3. CASE stage' = "failed" /\ folder' = folder
  <2>1. InfTypeOK'
    BY <1>0, <1>3, ListingsStay DEF InfTypeOK, InferInv
  <2>2. WriterIsForFolder'
    BY <1>0, <1>3 DEF WriterIsForFolder, InferInv
  <2>3. SavedSoFar'
    BY <1>3 DEF SavedSoFar
  <2>4. \A s : SavedOf(s)' = SavedOf(s)
    BY <1>0 DEF SavedOf
  <2> QED
    BY <1>0, <1>3, <2>1, <2>2, <2>3, <2>4, FolderGoesOn
<1> QED
  BY <1>2, <1>3 DEF InfNothing

\* The video of a sequence is opened; a flawless one's has the size of its frames.
LEMMA InferOpens ==
  ASSUME InferInv, input' = input, InfOpenVideo \/ InfOpenFolder
  PROVE  InferInv'
<1>0. /\ mode' = mode /\ saving' = saving /\ showing' = showing /\ folder' = folder
      /\ next' = 1 /\ saved' = saved /\ stage = "open" /\ stage' = "frame"
      /\ \/ "video" \in saving /\ NewVideo(SizeOf(Frames[1]))
         \/ ~ ("video" \in saving /\ Flawless(folder)) /\ NoVideo
  <2>1. Flawless(folder) => CanRead(Frames[1])
    BY DEF Flawless, CanRead
  <2> QED
    BY <2>1 DEF InfOpenVideo, InfOpenFolder
<1>f. folder \in SequenceNames /\ Frames \in Seq(input.images[folder])
  BY FolderFacts
<1>t. /\ videos = [s \in SequenceNames |-> videos[s]]
      /\ \A p \in saved : p[1] # folder
      /\ \A s \in SequenceNames : s > folder => \A p \in saved : p[1] # s
  BY <1>0 DEF InferInv, WriterIsForFolder
<1>1. \/ "video" \in saving /\ writer' = SizeOf(Frames[1]) /\ videos' = [videos EXCEPT ![folder] = <<>>]
      \/ ~ ("video" \in saving /\ Flawless(folder)) /\ writer' = None /\ videos' = videos
  BY <1>0 DEF NewVideo, NoVideo, WriterSize
<1>2. /\ videos' = [s \in SequenceNames |-> videos'[s]]
      /\ \A s \in SequenceNames : s # folder => videos'[s] = videos[s]
      /\ writer' \in {None, <<3, 2>>, <<2, 1>>}
      /\ writer' # None => videos'[folder] = <<>>
      /\ videos'[folder] = <<>> \/ videos'[folder] = videos[folder]
  BY <1>f, <1>t, <1>1, SizesDiffer
<1>3. InfTypeOK'
  <2>1. ASSUME NEW s \in SequenceNames
        PROVE  videos'[s] = None \/ Range(videos'[s]) \subseteq input.images[s]
    <3>1. CASE videos'[s] = videos[s]
      BY <3>1 DEF InferInv, InfTypeOK
    <3>2. CASE videos'[s] = <<>>
      <4>1. Range(<<>>) = {}
        BY DEF Range
      <4> QED
        BY <3>2, <4>1
    <3> QED
      BY <1>2, <3>1, <3>2
  <2> QED
    BY <1>0, <1>2, <2>1, ListingsStay DEF InfTypeOK, InferInv
<1>4. WriterIsForFolder'
  <2>1. <<>> \in Seq(input.images[folder])
    OBVIOUS
  <2> QED
    BY <1>0, <1>t, <1>2, <2>1 DEF WriterIsForFolder
<1>5. SavedSoFar'
  <2> SUFFICES ASSUME Flawless(folder)
               PROVE  /\ next' <= Len(Frames) + 1
                      /\ writer' = IF "video" \in saving THEN <<3, 2>> ELSE None
                      /\ "video" \in saving => videos'[folder] = SubSeq(Frames, 1, next' - 1)
                      /\ "images" \in saving => SavedOf(folder)' = FirstImages(folder, next' - 1)
    BY <1>0, ListingsStay DEF SavedSoFar, Frames
  <2>1. next' <= Len(Frames) + 1 /\ next' - 1 = 0
    BY <1>0, FolderFacts
  <2>2. writer' = IF "video" \in saving THEN <<3, 2>> ELSE None
    BY <1>1, SizesDiffer DEF Flawless
  <2>3. "video" \in saving => videos'[folder] = <<>>
    BY <1>2, <2>2, SizesDiffer
  <2>4. SubSeq(Frames, 1, 0) = <<>>
    BY SubSeqEmpty
  <2>5. SavedOf(folder)' = {}
    BY <1>0, <1>t DEF SavedOf
  <2>6. FirstImages(folder, 0) = {}
    BY DEF FirstImages
  <2> QED
    BY <2>1, <2>2, <2>3, <2>4, <2>5, <2>6
<1>6. \A s \in 1..NumFolders : s < folder => videos'[s] = videos[s] /\ SavedOf(s)' = SavedOf(s)
  <2>1. \A s : SavedOf(s)' = SavedOf(s)
    BY <1>0 DEF SavedOf
  <2>2. \A s \in 1..NumFolders : s < folder => s \in SequenceNames /\ s # folder
    BY FolderFacts
  <2> QED
    BY <1>2, <2>1, <2>2
<1> QED
  BY <1>0, <1>3, <1>4, <1>5, <1>6, FolderGoesOn

\* A frame is handled: it goes to the video, if it fits, and to the images.
LEMMA InferHandles ==
  ASSUME InferInv, input' = input, AtFrame, Handle(Frames[next])
  PROVE  InferInv'
<1>0. /\ mode' = mode /\ saving' = saving /\ showing' = showing /\ folder' = folder
      /\ writer' = writer /\ next' = next + 1
      /\ stage = "frame" /\ stage' \in {"frame", "close"} /\ (stage' = "close" => showing)
  BY DEF Handle, AtFrame
<1>1. PICK q, n, f : /\ q = Frames /\ q = SortedImages(folder) /\ q \in Seq(input.images[folder])
                     /\ n \in Nat /\ next = n + 1 /\ n < Len(q) /\ f = q[n + 1]
                     /\ f \in input.images[folder] /\ Len(q) \in Nat
  <2>1. next - 1 \in Nat /\ next = (next - 1) + 1 /\ next - 1 < Len(Frames)
    BY FolderFacts DEF AtFrame
  <2>2. Frames[next] \in input.images[folder]
    BY <2>1, FolderFacts
  <2> QED
    BY <2>1, <2>2, FolderFacts DEF Frames
<1>2. /\ videos' = IF writer = SizeOf(f) THEN [videos EXCEPT ![folder] = Append(@, f)] ELSE videos
      /\ saved' = IF "images" \in saving THEN saved \cup {<<folder, f>>} ELSE saved
  BY <1>1 DEF Handle
<1>t. /\ videos = [s \in SequenceNames |-> videos[s]] /\ folder \in SequenceNames
      /\ writer # None => videos[folder] \in Seq(input.images[folder])
      /\ \A s \in SequenceNames : s > folder => \A p \in saved : p[1] # s
  BY FolderFacts DEF InferInv, WriterIsForFolder
<1>3. /\ videos' = [s \in SequenceNames |-> videos'[s]]
      /\ \A s \in SequenceNames : s # folder => videos'[s] = videos[s]
      /\ writer = SizeOf(f) => videos'[folder] = Append(videos[folder], f)
      /\ writer # SizeOf(f) => videos'[folder] = videos[folder]
  BY <1>2, <1>t
<1>4. writer # None => videos'[folder] \in Seq(input.images[folder])
  <2>1. writer # None => Append(videos[folder], f) \in Seq(input.images[folder])
    BY <1>1, <1>t, AppendProperties
  <2> QED
    BY <1>3, <1>t, <2>1
<1>5. InfTypeOK'
  <2>1. ASSUME NEW s \in SequenceNames
        PROVE  videos'[s] = None \/ Range(videos'[s]) \subseteq input.images[s]
    <3>1. CASE videos'[s] = videos[s]
      BY <3>1 DEF InferInv, InfTypeOK
    <3>2. CASE videos'[s] # videos[s]
      <4>1. s = folder /\ writer # None
        BY <1>3, <3>2, SizesDiffer
      <4>2. PICK v : v = videos'[s] /\ v \in Seq(input.images[s])
        BY <1>4, <4>1
      <4>3. Range(v) \subseteq input.images[s]
        BY <4>2, LenProperties DEF Range
      <4> QED
        BY <4>2, <4>3
    <3> QED
      BY <3>1, <3>2
  <2>2. saved' \subseteq SequenceNames \X UNION Range(input.images)
    <3>1. f \in UNION Range(input.images)
      BY <1>1, FolderFacts
    <3> QED
      BY <1>2, <1>t, <3>1 DEF InferInv, InfTypeOK
  <2>3. next' \in Nat \ {0}
    BY <1>0, <1>1
  <2> QED
    BY <1>0, <2>1, <2>2, <2>3, ListingsStay DEF InfTypeOK, InferInv
<1>6. WriterIsForFolder'
  <2>1. \A s \in SequenceNames : s > folder => \A p \in saved' : p[1] # s
    <3>1. \A s \in SequenceNames : s > folder => s # folder
      BY FolderFacts, SequencesAreFinite
    <3> QED
      BY <1>2, <1>t, <3>1
  <2> QED
    BY <1>0, <1>3, <1>4, <2>1 DEF WriterIsForFolder
<1>7. \A s : s # folder => SavedOf(s)' = SavedOf(s)
  BY <1>2 DEF SavedOf
<1>8. SavedSoFar'
  <2> SUFFICES ASSUME Flawless(folder)
               PROVE  /\ next' <= Len(q) + 1
                      /\ writer = IF "video" \in saving THEN <<3, 2>> ELSE None
                      /\ "video" \in saving => videos'[folder] = SubSeq(q, 1, next' - 1)
                      /\ "images" \in saving => SavedOf(folder)' = {q[k] : k \in 1..(next' - 1)}
    BY <1>0, <1>1, ListingsStay DEF SavedSoFar, FirstImages
  <2>1. /\ writer = IF "video" \in saving THEN <<3, 2>> ELSE None
        /\ "video" \in saving => videos[folder] = SubSeq(q, 1, n)
        /\ "images" \in saving => SavedOf(folder) = {q[k] : k \in 1..n}
    <3>1. next - 1 = n
      BY <1>1
    <3> QED
      BY <1>0, <1>1, <3>1 DEF InferInv, SavedSoFar, FirstImages
  <2>2. next' - 1 = n + 1 /\ next' <= Len(q) + 1
    BY <1>0, <1>1
  <2>3. "video" \in saving => videos'[folder] = SubSeq(q, 1, n + 1)
    <3>1. SizeOf(f) = <<3, 2>>
      BY SizesDiffer DEF Flawless
    <3>2. Append(SubSeq(q, 1, n), q[n + 1]) = SubSeq(q, 1, n + 1)
      <4>1. n \in 0..Len(q)
        BY <1>1
      <4> QED
        BY <1>1, <4>1, Beginnings
    <3> QED
      BY <1>1, <1>3, <2>1, <3>1, <3>2
  <2>4. "images" \in saving => SavedOf(folder)' = {q[k] : k \in 1..(n + 1)}
    <3> SUFFICES ASSUME "images" \in saving PROVE SavedOf(folder)' = {q[k] : k \in 1..(n + 1)}
      OBVIOUS
    <3>1. SavedOf(folder)' = SavedOf(folder) \cup {f}
      BY <1>0, <1>1, <1>2 DEF SavedOf
    <3>2. \A k \in 1..(n + 1) : k \in 1..n \/ k = n + 1
      BY <1>1
    <3>3. \A k \in 1..n : k \in 1..(n + 1)
      BY <1>1
    <3>4. n + 1 \in 1..(n + 1)
      BY <1>1
    <3> QED
      BY <1>1, <2>1, <3>1, <3>2, <3>3, <3>4
  <2> QED
    BY <2>1, <2>2, <2>3, <2>4
<1>9. \A s \in 1..NumFolders : s < folder => videos'[s] = videos[s] /\ SavedOf(s)' = SavedOf(s)
  <2>1. \A s \in 1..NumFolders : s < folder => s \in SequenceNames /\ s # folder
    BY FolderFacts
  <2> QED
    BY <1>3, <1>7, <2>1
<1> QED
  BY <1>0, <1>5, <1>6, <1>8, <1>9, FolderGoesOn

\* A frame that cannot be read is in no flawless sequence.
LEMMA InferPassesOver ==
  ASSUME InferInv, input' = input, InfUnreadable
  PROVE  InferInv'
<1>0. /\ mode' = mode /\ saving' = saving /\ showing' = showing /\ folder' = folder
      /\ writer' = writer /\ videos' = videos /\ saved' = saved
      /\ stage = "frame" /\ stage' \in {"frame", "close"} /\ next' \in {next, next + 1}
      /\ ~ Flawless(folder)
  BY DEF InfUnreadable, AtFrame, CanRead, Flawless
<1>1. InfTypeOK'
  <2>1. next' \in Nat \ {0}
    BY <1>0, FolderFacts
  <2> QED
    BY <1>0, <2>1, ListingsStay DEF InfTypeOK, InferInv
<1>2. WriterIsForFolder'
  BY <1>0 DEF WriterIsForFolder, InferInv
<1>3. SavedSoFar'
  BY <1>0, ListingsStay DEF SavedSoFar
<1>4. \A s : SavedOf(s)' = SavedOf(s)
  BY <1>0 DEF SavedOf
<1> QED
  BY <1>0, <1>1, <1>2, <1>3, <1>4, FolderGoesOn

\* Another script's step.
LEMMA InferRests ==
  ASSUME InferInv, UNCHANGED <<input, infVars>>
  PROVE  InferInv'
<1>0. /\ input' = input /\ mode' = mode /\ saving' = saving /\ showing' = showing
      /\ folder' = folder /\ next' = next /\ writer' = writer /\ videos' = videos
      /\ saved' = saved /\ stage' = stage
  BY DEF infVars
<1>s. \A s : SavedOf(s)' = SavedOf(s)
  BY <1>0 DEF SavedOf
<1>1. InfTypeOK' /\ WriterIsForFolder'
  BY <1>0, ListingsStay DEF InfTypeOK, WriterIsForFolder, InferInv
<1>2. SavedSoFar'
  BY <1>0, <1>s, ListingsStay DEF SavedSoFar, InferInv
<1>3. \A s : HoldsSequence(s) => HoldsSequence(s)'
  BY <1>0, <1>s, ListingsStay DEF HoldsSequence
<1>4. EarlierAreHeld'
  BY <1>0, <1>3, ListingsStay DEF EarlierAreHeld, InferInv
<1> QED
  BY <1>0, <1>1, <1>2, <1>4, ListingsStay DEF InferInv

LEMMA InferBegins ==
  ASSUME Init
  PROVE  InferInv
<1>1. IsDataSet(input)
  BY InputsAssumption DEF Init
<1>2. InfInit
  BY DEF Init
<1>3. 1 \in 1..NumFolders
  BY SequencesAssumption DEF NumFolders
<1>4. InfTypeOK
  BY <1>2, <1>3 DEF InfInit, InfTypeOK
<1>5. WriterIsForFolder /\ SavedSoFar
  BY <1>2 DEF InfInit, WriterIsForFolder, SavedSoFar
<1>6. EarlierAreHeld
  <2>1. folder = 1 /\ stage = "idle"
    BY <1>2 DEF InfInit
  <2>2. \A s \in 1..NumFolders : ~ (s < folder)
    BY <1>3, <2>1
  <2> QED
    BY <2>1, <2>2 DEF EarlierAreHeld
<1> QED
  BY <1>1, <1>2, <1>4, <1>5, <1>6 DEF InferInv, InfInit

LEMMA InferSteps ==
  ASSUME InferInv, [Next]_scriptVars
  PROVE  InferInv'
<1>1. CASE script = "infer" /\ InfNext
  <2>1. input' = input
    BY <1>1 DEF Next, scriptVars
  <2> QED
    BY <1>1, <2>1, InferStarts, InferFindsNothing, InferOpens, InferHandles, InferPassesOver,
       InferCloses DEF InfNext, InfVideoFrame, InfImage
<1>2. CASE UNCHANGED <<input, infVars>>
  BY <1>2, InferRests
<1> QED
  BY <1>1, <1>2 DEF Next, scriptVars

LEMMA InferInvariant == Spec => []InferInv
<1>1. Init => InferInv
  BY InferBegins
<1>2. InferInv /\ [Next]_scriptVars => InferInv'
  BY InferSteps
<1> QED
  BY <1>1, <1>2, PTL DEF Spec

\* Whatever stands before or after it in the data set, the video of a sequence without
\* faults has its images in order and no others, and so have the saved images.
THEOREM VideosAreWhole == Spec => []VideoHoldsItsSequence
<1>1. InferInv => VideoHoldsItsSequence
  <2> SUFFICES ASSUME InferInv, stage = "done", NEW s \in 1..NumFolders, Flawless(s)
               PROVE  HoldsSequence(s)
    BY DEF VideoHoldsItsSequence, HoldsSequence, Flawless, SavedOf
  <2> QED
    BY DEF InferInv, EarlierAreHeld
<1> QED
  BY <1>1, InferInvariant, PTL

\* The variables of the three scripts have their types.
THEOREM TypeCorrect == Spec => []TypeOK
<1>1. ConvertInv /\ PrepareInv /\ InferInv => TypeOK
  BY DEF ConvertInv, PrepareInv, InferInv, TypeOK
<1> QED
  BY <1>1, ConvertInvariant, PrepareInvariant, InferInvariant, PTL
===============================================================================
