----------------------------- MODULE DatasetScripts -----------------------------
(***************************************************************************)
(* The three scripts over one VisDrone directory.  None of them writes to  *)
(* it and they write to different directories, so a behaviour is one of    *)
(* one script, with a data set in which that script meets its cases.       *)
(***************************************************************************)
EXTENDS ConvertDataset, ReidDataset, Inference

CONSTANTS ConvertInputs, PrepareInputs, InferInputs  \* the data sets for each

ASSUME InputsAssumption == \A d \in ConvertInputs \cup PrepareInputs \cup InferInputs : IsDataSet(d)

VARIABLE script

scriptVars == <<script, input, cvVars, prVars, infVars>>

\* Of the scripts that do not run the initial state does not matter.
Init ==
  /\ \/ script = "convert" /\ input \in ConvertInputs /\ CvInit
     \/ script = "prepare" /\ input \in PrepareInputs /\ CvIdle /\ order = <<>>
     \/ script = "infer" /\ input \in InferInputs /\ CvIdle /\ order = <<>>
  /\ PrInit /\ InfInit
  /\ script # "prepare" => galleryPercent = Min(GalleryPercents) /\ poolSize = Min(PoolSizes)
  /\ script # "infer" => mode = (CHOOSE m \in Modes : TRUE) /\ saving = {} /\ ~showing

Next ==
  \/ script = "convert" /\ CvNext /\ UNCHANGED <<script, input, prVars, infVars>>
  \/ script = "prepare" /\ PrNext /\ UNCHANGED <<script, input, cvVars, infVars>>
  \/ script = "infer" /\ InfNext /\ UNCHANGED <<script, input, cvVars, prVars>>

Spec == Init /\ [][Next]_scriptVars

TypeOK == CvTypeOK /\ PrTypeOK /\ InfTypeOK
===============================================================================
