------------------------------ MODULE ReidDataset ------------------------------
(***************************************************************************)
(* scripts/train_reid.py reads the crops that PrepareReid wrote: the data  *)
(* set VisDroneReID, as torchreid's training and evaluation see it.        *)
(***************************************************************************)
EXTENDS PrepareReid

\* _process_dir: an entry for each image in the identity folders of a split.
Entries(split, camid) ==
  {[crop |-> c, pid |-> c.identity, camid |-> camid] : c \in {d \in crops : d.split = split}}

Pids(split) == {folder[2] : folder \in {g \in folders : g[1] = split}}

\* relabel: the place of the identity among the folders, counted from 0.
Train ==
  {[e EXCEPT !.pid = Cardinality({p \in Pids("train") : p < e.pid})] : e \in Entries("train", 0)}

Query == Entries("query", 1)

\* Slip: the queries are taken for the gallery as they are.
QueriesAgain(queries) == queries

\* [(p, pid, 0) for p, pid, _ in query].
OtherCamera(queries) == {[q EXCEPT !.camid = 0] : q \in queries}

Gallery ==
  LET gallery == Entries("gallery", 0)
  IN  IF gallery = {} /\ Query # {} THEN OtherCamera(Query) ELSE gallery

\* _count_identities.
NumClasses == Cardinality(Pids("train"))

-------------------------------------------------------------------------------
\* Of a data set that was prepared to the end from images that can all be cut out of,
\* every query has an answer: a gallery entry of its vehicle from the other camera
\* (the evaluation leaves out those of the same), with --gallery-ratio 0 as well.
\* And every label of a training image is one of the classifier's outputs.
EveryQueryHasAMatch ==
  main = "done" =>
    /\ (\A s \in Dispatched : \A c \in plan[s] : CanBeCut(c)) =>
         \A q \in Query : \E g \in Gallery : g.pid = q.pid /\ g.camid # q.camid
    /\ \A e \in Train : e.pid < NumClasses
===============================================================================
