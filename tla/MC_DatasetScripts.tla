--------------------------- MODULE MC_DatasetScripts ---------------------------
EXTENDS DatasetScripts

Box(f, t, c) ==
  [frame |-> f, target |-> t, category |-> c, tiny |-> FALSE, hidden |-> FALSE, outside |-> FALSE]

Path(t, frames) == {Box(f, t, 4) : f \in frames}

DataSet(lines, images) ==
  [lines |-> lines, images |-> images, unreadable |-> <<{}, {}, {}>>, odd |-> <<{}, {}, {}>>,
   misnamed |-> <<{}, {}, {}>>, noFile |-> {}]

\* Sequence 1 has a car on the first image and any lines on the second, which may be bad in
\* either way, sequence 2 a van on the one image it has, and sequence 3 no images.
MCConvertInputs ==
  {[DataSet(<<{Box(1, 1, 4), [Box(1, 2, 4) EXCEPT !.tiny = TRUE]} \cup more, {Box(1, 1, 5)}, {}>>,
            <<{1, 2}, images, {}>>) EXCEPT !.noFile = missing, !.unreadable[1] = bad[1], !.misnamed[1] = bad[2]] :
     more \in SUBSET {Box(2, 1, 4), Box(2, 2, 4), Box(2, 3, 5), Box(2, 4, 1)},
     images \in {{}, {1}}, missing \in {{}, {2}},
     bad \in {<<{}, {}>>, <<{2}, {}>>, <<{}, {2}>>}}

\* Sequence 1 has a vehicle seen in six frames, one seen in two and one seen in one;
\* sequence 2 one seen in four, and sequence 3 one in two.
Good ==
  DataSet(<<Path(1, 1..6) \cup Path(2, {3, 4}) \cup Path(3, {2}), Path(1, 2..5), Path(4, 1..2)>>,
          <<1..6, 1..5, 1..2>>)

MCPrepareInputs ==
  {Good,
   [Good EXCEPT !.unreadable[1] = {5, 6}],
   [Good EXCEPT !.images[2] = {2, 5}],
   [Good EXCEPT !.images[1] = {}],
   [Good EXCEPT !.misnamed[1] = {3}],
   [Good EXCEPT !.misnamed[2] = {1, 5}],
   [Good EXCEPT !.noFile = {1}],
   [Good EXCEPT !.lines[2] = {[l EXCEPT !.outside = TRUE] : l \in Path(1, {2})} \cup Path(1, 3..5)
                             \cup {[l EXCEPT !.hidden = TRUE] : l \in Path(2, 1..4)}]}

MCInferInputs ==
  {[DataSet(<<{}, {}, {}>>, <<1..first, 1..second, 1..2>>) EXCEPT !.unreadable[1] = bad, !.odd[1] = odd] :
     first \in {0, 3}, second \in {0, 2}, bad \in SUBSET {1, 2}, odd \in SUBSET {1, 3}}
================================================================================
