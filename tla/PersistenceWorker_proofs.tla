----------------------- MODULE PersistenceWorker_proofs -----------------------
(***************************************************************************)
(* Proofs about PersistenceWorker, for any sizes of batches, messages and  *)
(* queues, with a database that may fail and signals at any moment.        *)
(***************************************************************************)
EXTENDS PersistenceWorker, FiniteSetTheorems, TLAPS

-------------------------------------------------------------------------------
(* The inductive invariant.  That a flush inserts no observation twice is  *)
(* because none of the batch has been stored, which is because none of a   *)
(* message has been received when it is taken: messages wait in order.     *)

InOrderOfPublication ==
  /\ \A i \in 1..Len(inbox) : \A o \in inbox[i] :
       o < nextObs /\ \A p \in received : p < o
  /\ \A i, j \in 1..Len(inbox) : i < j => \A o \in inbox[i], p \in inbox[j] : o < p
  /\ \A p \in received : p < nextObs

MessagesAreSmall == \A i \in 1..Len(inbox) : Cardinality(inbox[i]) <= MaxPerMessage

IInv ==
  /\ TypeOK /\ AtMostOneRow /\ NothingVanishes /\ FlushedInOrder
  /\ InOrderOfPublication /\ MessagesAreSmall

LEMMA ObsAreFinite ==
  ASSUME NEW S \in SUBSET Obs
  PROVE  IsFiniteSet(S) /\ Cardinality(S) \in Nat
<1>1. IsFiniteSet(Obs)
  BY SizesAssumption, FS_Interval DEF Obs
<1> QED
  BY <1>1, FS_Subset, FS_CardinalityType

\* A message added to a batch adds at most its observations.
LEMMA ExtendedIsBounded ==
  ASSUME NEW S \in SUBSET Obs, NEW T \in SUBSET Obs
  PROVE  Cardinality(S \cup T) <= Cardinality(S) + Cardinality(T)
<1>1. /\ IsFiniteSet(S) /\ IsFiniteSet(T)
      /\ Cardinality(S) \in Nat /\ Cardinality(T) \in Nat /\ Cardinality(S \cap T) \in Nat
  BY ObsAreFinite
<1>2. Cardinality(S \cup T) = Cardinality(S) + Cardinality(T) - Cardinality(S \cap T)
  BY <1>1, FS_Union
<1> QED
  BY <1>1, <1>2

LEMMA MessageIsSmall ==
  ASSUME NEW k \in Nat, NEW n \in 0..MaxPerMessage
  PROVE  Cardinality(k .. (k + n - 1)) <= MaxPerMessage
<1> DEFINE a == k
           b == k + n - 1
<1>1. a \in Int /\ b \in Int /\ n \in Nat /\ n <= MaxPerMessage /\ b - a + 1 = n
  BY SizesAssumption
<1> HIDE DEF a, b
<1>2. Cardinality(a..b) = IF a > b THEN 0 ELSE b - a + 1
  BY <1>1, FS_Interval
<1>3. Cardinality(a..b) <= MaxPerMessage
  BY <1>1, <1>2, SizesAssumption
<1> QED
  BY <1>3 DEF a, b

\* What a flush has put into the table is what was there and the batch.
LEMMA InsertedFacts ==
  ASSUME TypeOK, AtMostOneRow, batch \cap Stored = {}
  PROVE  /\ Inserted \in [Obs -> Nat]
         /\ \A o \in Obs : Inserted[o] <= 1
         /\ {o \in Obs : Inserted[o] > 0} = Stored \cup batch
<1>1. batch \subseteq Obs /\ rows \in [Obs -> Nat]
  BY DEF TypeOK
<1>2. \A o \in Obs : Inserted[o] = IF o \in batch THEN rows[o] + 1 ELSE rows[o]
  BY DEF Inserted
<1>3. \A o \in batch : rows[o] = 0
  BY <1>1 DEF Stored
<1>4. \A o \in Obs : rows[o] \in Nat /\ rows[o] <= 1
  BY <1>1 DEF AtMostOneRow
<1>5. Inserted \in [Obs -> Nat]
  BY <1>1 DEF Inserted
<1> QED
  BY <1>1, <1>2, <1>3, <1>4, <1>5 DEF Stored

-------------------------------------------------------------------------------
(* The steps.                                                              *)

LEMMA InitHolds == Init => IInv
<1> SUFFICES ASSUME Init PROVE IInv
  OBVIOUS
<1>1. Cardinality({}) = 0
  BY FS_EmptySet
<1>2. Len(<<>>) = 0 /\ inbox = <<>>
  BY DEF Init
<1>3. TypeOK
  BY <1>1, <1>2, SizesAssumption DEF Init, TypeOK, Obs
<1>4. Stored = {}
  BY DEF Init, Stored
<1> QED
  BY <1>2, <1>3, <1>4
     DEF Init, IInv, AtMostOneRow, NothingVanishes, FlushedInOrder, InOrderOfPublication,
         MessagesAreSmall, Alive

LEMMA PublishStep ==
  ASSUME IInv, NEW n \in 0..MaxPerMessage, Publish(n)
  PROVE  IInv'
<1> DEFINE message == nextObs .. (nextObs + n - 1)
<1>1. /\ UNCHANGED <<batch, elapsed, pc, rows, received, failed, abandoned>>
      /\ nextObs' = nextObs + n
      /\ nextObs + n - 1 <= MaxObs
  BY DEF Publish
<1>2. /\ inbox \in Seq(SUBSET Obs) /\ Len(inbox) \in Nat /\ Len(inbox) <= HighWater
      /\ nextObs \in 1..(MaxObs + 1)
      /\ received \subseteq Obs
  BY DEF IInv, TypeOK
<1>3. n \in Nat /\ MaxObs \in Nat /\ HighWater \in Nat
  BY SizesAssumption
<1>4. nextObs' \in 1..(MaxObs + 1) /\ message \in SUBSET Obs
  BY <1>1, <1>2, <1>3 DEF Obs
<1>5. Cardinality(message) <= MaxPerMessage
  BY <1>2, <1>3, MessageIsSmall
<1>6. \A o \in message : o \in Int /\ nextObs <= o /\ o < nextObs'
  BY <1>1, <1>2, <1>3
<1>7. \A i \in 1..Len(inbox) : inbox[i] \subseteq Obs
  BY <1>2
<1> HIDE DEF message
<1>8. CASE inbox' = inbox
  <2>1. TypeOK'
    BY <1>1, <1>4, <1>8 DEF IInv, TypeOK
  <2>2. InOrderOfPublication'
    BY <1>1, <1>2, <1>3, <1>7, <1>8 DEF IInv, InOrderOfPublication, Obs
  <2> QED
    BY <1>1, <1>8, <2>1, <2>2
       DEF IInv, AtMostOneRow, NothingVanishes, FlushedInOrder, MessagesAreSmall, Stored, Alive
<1>9. CASE HasRoom /\ inbox' = Append(inbox, message)
  <2>1. /\ Len(inbox') = Len(inbox) + 1
        /\ inbox' \in Seq(SUBSET Obs)
        /\ \A i \in 1..Len(inbox') : inbox'[i] = IF i <= Len(inbox) THEN inbox[i] ELSE message
        /\ Len(inbox') <= HighWater
    BY <1>2, <1>3, <1>4, <1>9 DEF HasRoom
  <2>2. TypeOK'
    BY <1>1, <1>4, <2>1 DEF IInv, TypeOK
  <2>3. MessagesAreSmall'
    BY <1>2, <1>5, <2>1 DEF IInv, MessagesAreSmall
  <2>4. \A i \in 1..Len(inbox') : \A o \in inbox'[i] : o < nextObs' /\ \A p \in received' : p < o
    BY <1>1, <1>2, <1>3, <1>6, <1>7, <2>1 DEF IInv, InOrderOfPublication, Obs
  <2>5. \A i, j \in 1..Len(inbox') : i < j => \A o \in inbox'[i], p \in inbox'[j] : o < p
    BY <1>2, <1>6, <1>7, <2>1 DEF IInv, InOrderOfPublication, Obs
  <2>6. \A p \in received' : p < nextObs'
    BY <1>1, <1>2, <1>3 DEF IInv, InOrderOfPublication, Obs
  <2>7. FlushedInOrder'
    BY <1>1, <2>1, <2>4 DEF IInv, FlushedInOrder, Stored
  <2> QED
    BY <1>1, <2>2, <2>3, <2>4, <2>5, <2>6, <2>7
       DEF IInv, InOrderOfPublication, AtMostOneRow, NothingVanishes, Stored, Alive
<1> QED
  BY <1>8, <1>9 DEF Publish, message

\* Time and the timeout of recv move no observation.
LEMMA WaitingStep ==
  ASSUME IInv, Tick \/ ReceiveTimesOut
  PROVE  IInv'
<1>1. UNCHANGED <<inbox, nextObs, batch, rows, received, failed, abandoned>>
  BY DEF Tick, ReceiveTimesOut
<1>2. TypeOK'
  <2>1. elapsed' \in 0..(FlushInterval + 1)
    BY SizesAssumption DEF IInv, TypeOK, Tick, ReceiveTimesOut
  <2>2. pc' = pc \/ pc' = "flushing"
    BY DEF Tick, ReceiveTimesOut
  <2> QED
    BY <1>1, <2>1, <2>2 DEF IInv, TypeOK
<1>3. Alive
  BY DEF Tick, ReceiveTimesOut, Alive
<1> QED
  BY <1>1, <1>2, <1>3
     DEF IInv, AtMostOneRow, NothingVanishes, FlushedInOrder, InOrderOfPublication,
         MessagesAreSmall, Stored

LEMMA ReceiveStep ==
  ASSUME IInv, Receive
  PROVE  IInv'
<1> DEFINE message == Head(inbox)
<1>1. /\ pc = "receiving" /\ inbox # <<>>
      /\ inbox' = Tail(inbox)
      /\ batch' = batch \cup message
      /\ received' = received \cup message
      /\ UNCHANGED <<nextObs, rows, failed, abandoned>>
  BY DEF Receive, Extended
<1>2. /\ inbox \in Seq(SUBSET Obs) /\ Len(inbox) <= HighWater
      /\ batch \subseteq Obs /\ received \subseteq Obs /\ failed \subseteq Obs
      /\ abandoned \subseteq Obs /\ nextObs \in 1..(MaxObs + 1)
  BY DEF IInv, TypeOK
<1>3. /\ Len(inbox) \in Nat \ {0} /\ message = inbox[1] /\ message \in SUBSET Obs
      /\ inbox' \in Seq(SUBSET Obs) /\ Len(inbox') = Len(inbox) - 1
      /\ \A i \in 1..Len(inbox') : inbox'[i] = inbox[i + 1] /\ i + 1 \in 1..Len(inbox)
      /\ 1 \in 1..Len(inbox)
  BY <1>1, <1>2
<1>4. \A i \in 1..Len(inbox) : inbox[i] \subseteq Obs
  BY <1>2
<1> HIDE DEF message
<1>5. \A o \in message : o < nextObs /\ \A p \in received : p < o
  BY <1>3 DEF IInv, InOrderOfPublication
<1>6. message \cap received = {}
  BY <1>3, <1>5 DEF Obs
<1>7. TypeOK'
  <2>1. Cardinality(batch) \in Nat /\ Cardinality(message) \in Nat /\ Cardinality(batch') \in Nat
    BY <1>1, <1>2, <1>3, ObsAreFinite
  <2>2. Cardinality(batch) < BatchSize /\ Cardinality(message) <= MaxPerMessage
    BY <1>1, <1>3 DEF IInv, TypeOK, MessagesAreSmall
  <2>3. Cardinality(batch') <= Cardinality(batch) + Cardinality(message)
    BY <1>1, <1>2, <1>3, ExtendedIsBounded
  <2>4. Cardinality(batch') < BatchSize + MaxPerMessage
    BY <2>1, <2>2, <2>3, SizesAssumption
  <2>5. pc' = "receiving" => Cardinality(batch') < BatchSize
    <3>1. CASE batch' = {}
      BY <3>1, FS_EmptySet, SizesAssumption
    <3>2. CASE batch' # {}
      BY <2>1, <3>2, SizesAssumption DEF Receive, IsDue
    <3> QED
      BY <3>1, <3>2
  <2>6. elapsed' \in 0..(FlushInterval + 1) /\ pc' \in {"receiving", "flushing"}
    BY SizesAssumption DEF IInv, TypeOK, Receive
  <2> QED
    BY <1>1, <1>2, <1>3, <2>4, <2>5, <2>6, SizesAssumption DEF IInv, TypeOK
<1>8. NothingVanishes'
  <2>1. /\ received = batch \cup Stored \cup failed \cup abandoned
        /\ batch \cap (Stored \cup failed \cup abandoned) = {}
        /\ abandoned = {}
    BY <1>1 DEF IInv, NothingVanishes, Alive
  <2>2. Stored' = Stored
    BY <1>1 DEF Stored
  <2> QED
    BY <1>1, <1>6, <2>1, <2>2 DEF NothingVanishes
<1>9. InOrderOfPublication' /\ MessagesAreSmall'
  <2>1. \A i \in 1..Len(inbox') : \A o \in inbox'[i] : o < nextObs' /\ \A p \in received' : p < o
    <3> SUFFICES ASSUME NEW i \in 1..Len(inbox'), NEW o \in inbox[i + 1]
                 PROVE  o < nextObs /\ \A p \in received \cup message : p < o
      BY <1>1, <1>3
    <3>1. i + 1 \in 1..Len(inbox) /\ 1 < i + 1
      BY <1>3
    <3> QED
      BY <1>3, <3>1 DEF IInv, InOrderOfPublication
  <2>2. \A i, j \in 1..Len(inbox') : i < j => \A o \in inbox'[i], p \in inbox'[j] : o < p
    <3> SUFFICES ASSUME NEW i \in 1..Len(inbox'), NEW j \in 1..Len(inbox'), i < j
                 PROVE  \A o \in inbox[i + 1], p \in inbox[j + 1] : o < p
      BY <1>3
    <3>1. i + 1 \in 1..Len(inbox) /\ j + 1 \in 1..Len(inbox) /\ i + 1 < j + 1
      BY <1>3
    <3> QED
      BY <3>1 DEF IInv, InOrderOfPublication
  <2>3. \A p \in received' : p < nextObs'
    BY <1>1, <1>5 DEF IInv, InOrderOfPublication
  <2>4. \A i \in 1..Len(inbox') : Cardinality(inbox'[i]) <= MaxPerMessage
    BY <1>3 DEF IInv, MessagesAreSmall
  <2> QED
    BY <2>1, <2>2, <2>3, <2>4 DEF InOrderOfPublication, MessagesAreSmall
<1>10. FlushedInOrder'
  <2>1. Stored' = Stored /\ failed' = failed /\ Stored \cup failed \subseteq received
    BY <1>1 DEF IInv, NothingVanishes, Stored
  <2>2. \A o \in Stored' \cup failed', p \in batch' : o < p
    BY <1>1, <1>5, <2>1 DEF IInv, FlushedInOrder
  <2>3. \A i \in DOMAIN inbox' : \A o \in inbox'[i] : \A p \in received' : p < o
    BY <1>3, <1>9 DEF InOrderOfPublication
  <2> QED
    BY <2>2, <2>3 DEF FlushedInOrder
<1> QED
  BY <1>1, <1>7, <1>8, <1>9, <1>10 DEF IInv, AtMostOneRow

\* The batch goes: into the table, into the log, or with the worker.
LEMMA BatchLeaves ==
  ASSUME IInv,
         batch' = {}, UNCHANGED <<inbox, nextObs, received>>,
         rows' = rows \/ rows' = Inserted,
         failed' = failed \/ failed' = failed \cup batch,
         abandoned' = abandoned \/ abandoned' = batch,
         batch \subseteq Stored' \cup failed' \cup abandoned',
         elapsed' \in 0..(FlushInterval + 1),
         \/ pc' = "receiving" /\ abandoned' = abandoned
         \/ pc' \in {"stopped", "killed"},
         Alive
  PROVE  IInv'
<1>1. /\ batch \subseteq Obs /\ rows \in [Obs -> Nat]
      /\ received = batch \cup Stored \cup failed \cup abandoned
      /\ batch \cap Stored = {} /\ abandoned = {}
  BY DEF IInv, TypeOK, NothingVanishes
<1>2. /\ Inserted \in [Obs -> Nat]
      /\ \A o \in Obs : Inserted[o] <= 1
      /\ {o \in Obs : Inserted[o] > 0} = Stored \cup batch
  BY <1>1, InsertedFacts DEF IInv
<1>3. Stored' = Stored \/ Stored' = Stored \cup batch
  BY <1>2 DEF Stored
<1>4. TypeOK'
  <2>1. Cardinality(batch') = 0
    BY FS_EmptySet
  <2>2. rows' \in [Obs -> Nat]
    BY <1>1, <1>2
  <2>3. failed' \subseteq Obs /\ abandoned' \subseteq Obs
    BY <1>1 DEF IInv, TypeOK
  <2>4. pc' \in {"receiving", "flushing", "stopped", "killed"}
    OBVIOUS
  <2> QED
    BY <2>1, <2>2, <2>3, <2>4, SizesAssumption DEF IInv, TypeOK
<1>5. AtMostOneRow'
  BY <1>2 DEF IInv, AtMostOneRow
<1>6. NothingVanishes'
  BY <1>1, <1>3 DEF NothingVanishes, Alive
<1>7. FlushedInOrder' /\ InOrderOfPublication' /\ MessagesAreSmall'
  BY DEF IInv, FlushedInOrder, InOrderOfPublication, MessagesAreSmall
<1> QED
  BY <1>4, <1>5, <1>6, <1>7 DEF IInv

LEMMA FlushStep ==
  ASSUME IInv, Flush
  PROVE  IInv'
<1>1. /\ pc = "flushing" /\ pc' = "receiving" /\ batch' = {} /\ elapsed' = 0
      /\ UNCHANGED <<inbox, nextObs, received, abandoned>>
  BY DEF Flush, CommitSucceeds, CommitFails, CommitUnacknowledged, FlushReturns, EmptyBatch
<1>2. batch \cap Stored = {}
  BY DEF IInv, NothingVanishes
<1>3. {o \in Obs : Inserted[o] > 0} = Stored \cup batch
  BY <1>2, InsertedFacts DEF IInv
<1>4. /\ rows' = rows \/ rows' = Inserted
      /\ failed' = failed \/ failed' = failed \cup batch
      /\ rows' = Inserted \/ failed' = failed \cup batch
  BY DEF Flush, CommitSucceeds, CommitFails, CommitUnacknowledged
<1>5. batch \subseteq Stored' \cup failed' \cup abandoned'
  BY <1>3, <1>4 DEF Stored
<1>6. Alive /\ elapsed' \in 0..(FlushInterval + 1)
  BY <1>1, SizesAssumption DEF Alive
<1> QED
  BY <1>1, <1>4, <1>5, <1>6, BatchLeaves

LEMMA EndStep ==
  ASSUME IInv, Interrupt \/ Terminate
  PROVE  IInv'
<1>1. /\ Alive /\ pc' \in {"stopped", "killed"}
      /\ abandoned' = batch /\ batch' = {}
      /\ rows' = rows \/ rows' = Inserted
      /\ UNCHANGED <<inbox, nextObs, elapsed, received, failed>>
  BY DEF Interrupt, Terminate, End
<1>2. elapsed' \in 0..(FlushInterval + 1)
  BY <1>1 DEF IInv, TypeOK
<1> QED
  BY <1>1, <1>2, BatchLeaves

LEMMA InductiveInvariant == Spec => []IInv
<1>1. IInv /\ [Next]_vars => IInv'
  <2> SUFFICES ASSUME IInv, [Next]_vars  PROVE IInv'
    OBVIOUS
  <2>1. ASSUME NEW n \in 0..MaxPerMessage, Publish(n)  PROVE IInv'
    BY <2>1, PublishStep
  <2>2. CASE Tick \/ ReceiveTimesOut
    BY <2>2, WaitingStep
  <2>3. CASE Receive
    BY <2>3, ReceiveStep
  <2>4. CASE Flush
    BY <2>4, FlushStep
  <2>5. CASE Interrupt \/ Terminate
    BY <2>5, EndStep
  <2>6. CASE UNCHANGED vars
    BY <2>6
       DEF vars, IInv, TypeOK, AtMostOneRow, NothingVanishes, FlushedInOrder,
           InOrderOfPublication, MessagesAreSmall, Stored, Alive
  <2> QED
    BY <2>1, <2>2, <2>3, <2>4, <2>5, <2>6 DEF Next, Work
<1> QED
  BY <1>1, InitHolds, PTL DEF Spec

-------------------------------------------------------------------------------
\* The types, and that neither an empty message nor a failed flush leaves a full batch
\* waiting: between two messages the batch is short of batch_size.
THEOREM TypeCorrect == Spec => []TypeOK
<1>1. IInv => TypeOK
  BY DEF IInv
<1> QED
  BY <1>1, InductiveInvariant, PTL

\* No observation is inserted twice, though commits fail and go unacknowledged and the
\* worker is stopped with one on its way.
THEOREM NothingIsStoredTwice == Spec => []AtMostOneRow
<1>1. IInv => AtMostOneRow
  BY DEF IInv
<1> QED
  BY <1>1, InductiveInvariant, PTL

\* Each observation received is in the batch, in the table, in the log of a failed flush
\* or in the batch the worker ended with.
THEOREM ObservationsAreAccountedFor == Spec => []NothingVanishes
<1>1. IInv => NothingVanishes
  BY DEF IInv
<1> QED
  BY <1>1, InductiveInvariant, PTL

\* The table gets observations in the order of their publication.
THEOREM OrderIsKept == Spec => []FlushedInOrder
<1>1. IInv => FlushedInOrder
  BY DEF IInv
<1> QED
  BY <1>1, InductiveInvariant, PTL

-------------------------------------------------------------------------------
(* The worker implements OrderedDelivery.                                  *)

\* A message taken from the queue waits as before; one that is added waits at its end.
LEMMA QueueFacts ==
  ASSUME NEW q \in Seq(SUBSET Obs), NEW m \in SUBSET Obs
  PROVE  /\ q # <<>> => UNION {q[i] : i \in DOMAIN q}
                          = Head(q) \cup UNION {Tail(q)[i] : i \in DOMAIN Tail(q)}
         /\ UNION {Append(q, m)[i] : i \in DOMAIN Append(q, m)}
              = m \cup UNION {q[i] : i \in DOMAIN q}
<1>1. ASSUME q # <<>>
      PROVE  UNION {q[i] : i \in DOMAIN q} = Head(q) \cup UNION {Tail(q)[i] : i \in DOMAIN Tail(q)}
  <2>1. /\ Len(q) \in Nat \ {0} /\ DOMAIN q = 1..Len(q) /\ Head(q) = q[1]
        /\ DOMAIN Tail(q) = 1..(Len(q) - 1)
        /\ \A i \in 1..(Len(q) - 1) : Tail(q)[i] = q[i + 1]
    BY <1>1
  <2>2. \A i \in DOMAIN q : i = 1 \/ (i - 1 \in 1..(Len(q) - 1) /\ Tail(q)[i - 1] = q[i])
    BY <2>1
  <2>3. \A i \in DOMAIN Tail(q) : i + 1 \in DOMAIN q /\ Tail(q)[i] = q[i + 1]
    BY <2>1
  <2>4. 1 \in DOMAIN q
    BY <2>1
  <2>5. ASSUME NEW o, \E i \in DOMAIN q : o \in q[i]
        PROVE  o \in Head(q) \/ \E i \in DOMAIN Tail(q) : o \in Tail(q)[i]
    BY <2>1, <2>2, <2>5
  <2>6. ASSUME NEW o, o \in Head(q) \/ \E i \in DOMAIN Tail(q) : o \in Tail(q)[i]
        PROVE  \E i \in DOMAIN q : o \in q[i]
    BY <2>1, <2>3, <2>4, <2>6
  <2> QED
    BY <2>5, <2>6
<1>2. UNION {Append(q, m)[i] : i \in DOMAIN Append(q, m)} = m \cup UNION {q[i] : i \in DOMAIN q}
  <2>1. /\ Len(q) \in Nat /\ DOMAIN q = 1..Len(q) /\ DOMAIN Append(q, m) = 1..(Len(q) + 1)
        /\ \A i \in 1..Len(q) : Append(q, m)[i] = q[i]
        /\ Append(q, m)[Len(q) + 1] = m
    OBVIOUS
  <2>2. /\ \A i \in DOMAIN Append(q, m) : i = Len(q) + 1 \/ i \in DOMAIN q
        /\ \A i \in DOMAIN q : i \in DOMAIN Append(q, m)
        /\ Len(q) + 1 \in DOMAIN Append(q, m)
    BY <2>1
  <2>3. ASSUME NEW o, \E i \in DOMAIN Append(q, m) : o \in Append(q, m)[i]
        PROVE  o \in m \/ \E i \in DOMAIN q : o \in q[i]
    BY <2>1, <2>2, <2>3
  <2>4. ASSUME NEW o, o \in m \/ \E i \in DOMAIN q : o \in q[i]
        PROVE  \E i \in DOMAIN Append(q, m) : o \in Append(q, m)[i]
    BY <2>1, <2>2, <2>4
  <2> QED
    BY <2>3, <2>4
<1> QED
  BY <1>1, <1>2

\* The batch is the oldest of what is unsettled, and the rest is in the queue.
LEMMA BatchIsOldest ==
  ASSUME IInv, Alive
  PROVE  /\ batch \subseteq Unsettled
         /\ Unsettled \ batch = UNION {inbox[i] : i \in DOMAIN inbox}
         /\ Delivery!AreOldest(batch)
<1>1. \A o \in batch, p \in UNION {inbox[i] : i \in DOMAIN inbox} : o < p
  BY DEF IInv, NothingVanishes, FlushedInOrder
<1>2. \A o \in batch : ~(o < o)
  BY DEF IInv, TypeOK, Obs
<1> QED
  BY <1>1, <1>2 DEF Unsettled, Delivery!AreOldest

LEMMA PublishOffers ==
  ASSUME IInv, NEW n \in 0..MaxPerMessage, Publish(n)
  PROVE  Delivery!Offer
<1>1. /\ UNCHANGED <<batch, pc, rows, failed>>
      /\ nextObs' = nextObs + n /\ nextObs + n - 1 <= MaxObs
      /\ inbox' = inbox \/ inbox' = Append(inbox, nextObs .. (nextObs + n - 1))
  BY DEF Publish
<1>2. inbox \in Seq(SUBSET Obs) /\ nextObs \in Nat \ {0} /\ n \in Nat
  BY SizesAssumption DEF IInv, TypeOK
<1>3. nextObs' >= nextObs /\ nextObs' - 1 = nextObs + n - 1
  BY <1>1, <1>2
<1>4. nextObs .. (nextObs + n - 1) \in SUBSET Obs
  BY <1>1, <1>2, SizesAssumption DEF Obs
<1>5. Alive' = Alive
  BY <1>1 DEF Alive
<1>6. Unsettled' = Unsettled \/ (Alive /\ Unsettled' = Unsettled \cup nextObs .. (nextObs' - 1))
  <2>1. CASE inbox' = inbox
    BY <1>1, <1>5, <2>1 DEF Unsettled
  <2>2. CASE inbox' = Append(inbox, nextObs .. (nextObs + n - 1))
    <3> DEFINE waits == UNION {inbox[i] : i \in DOMAIN inbox}
               more == nextObs .. (nextObs + n - 1)
    <3>1. UNION {inbox'[i] : i \in DOMAIN inbox'} = more \cup waits
      BY <1>2, <1>4, <2>2, QueueFacts
    <3>2. Unsettled = (IF Alive THEN batch \cup waits ELSE {})
      BY DEF Unsettled
    <3>3. Unsettled' = (IF Alive THEN batch \cup (more \cup waits) ELSE {})
      BY <1>1, <1>5, <3>1 DEF Unsettled
    <3>4. nextObs .. (nextObs' - 1) = more
      BY <1>3
    <3> HIDE DEF waits, more
    <3> QED
      BY <3>2, <3>3, <3>4
  <2> QED
    BY <1>1, <2>1, <2>2
<1> QED
  BY <1>1, <1>3, <1>5, <1>6 DEF Delivery!Offer

LEMMA ReceivingIsUnseen ==
  ASSUME IInv, Tick \/ Work
  PROVE  UNCHANGED Delivery!deliveryVars
<1>1. UNCHANGED <<nextObs, rows, failed>> /\ Alive /\ Alive'
  BY DEF Tick, Work, Receive, ReceiveTimesOut, Alive
<1>2. CASE Tick \/ ReceiveTimesOut
  BY <1>1, <1>2 DEF Tick, ReceiveTimesOut, Unsettled, Delivery!deliveryVars
<1>3. CASE Receive
  <2>1. inbox \in Seq(SUBSET Obs) /\ {} \in SUBSET Obs
    BY DEF IInv, TypeOK
  <2>2. inbox # <<>> /\ inbox' = Tail(inbox) /\ batch' = batch \cup Head(inbox)
    BY <1>3 DEF Receive, Extended
  <2>3. UNION {inbox[i] : i \in DOMAIN inbox} = Head(inbox) \cup UNION {inbox'[i] : i \in DOMAIN inbox'}
    <3>1. UNION {inbox[i] : i \in DOMAIN inbox}
            = Head(inbox) \cup UNION {Tail(inbox)[i] : i \in DOMAIN Tail(inbox)}
      BY <2>1, <2>2, QueueFacts
    <3> QED
      BY <2>2, <3>1
  <2>4. Unsettled' = Unsettled
    BY <1>1, <2>2, <2>3 DEF Unsettled
  <2> QED
    BY <1>1, <2>4 DEF Delivery!deliveryVars
<1> QED
  BY <1>2, <1>3 DEF Work

\* Whatever the commit comes to, the batch is settled.
LEMMA FlushSettles ==
  ASSUME IInv, Flush
  PROVE  Delivery!Settle(batch)
<1>1. /\ Alive /\ Alive' /\ batch' = {} /\ UNCHANGED <<inbox, nextObs>>
  BY DEF Flush, CommitSucceeds, CommitFails, CommitUnacknowledged, FlushReturns, EmptyBatch, Alive
<1>2. \/ rows' = Inserted /\ failed' \in {failed, failed \cup batch}
      \/ rows' = rows /\ failed' = failed \cup batch
  BY DEF Flush, CommitSucceeds, CommitFails, CommitUnacknowledged
<1>3. Delivery!AreOldest(batch) /\ Unsettled \ batch = UNION {inbox[i] : i \in DOMAIN inbox}
  BY <1>1, BatchIsOldest
<1>4. Unsettled' = Unsettled \ batch
  BY <1>1, <1>3 DEF Unsettled
<1>5. Inserted = Delivery!With(batch)
  BY DEF Inserted, Delivery!With
<1> QED
  BY <1>1, <1>2, <1>3, <1>4, <1>5 DEF Delivery!Settle

LEMMA EndCloses ==
  ASSUME IInv, Interrupt \/ Terminate
  PROVE  Delivery!Close
<1>1. /\ Alive /\ Alive' = FALSE /\ UNCHANGED <<nextObs, failed>>
      /\ rows' = rows \/ rows' = Inserted
  BY DEF Interrupt, Terminate, End, Alive
<1>2. Unsettled' = {}
  BY <1>1 DEF Unsettled
<1>3. batch \in SUBSET Unsettled /\ Delivery!AreOldest(batch) /\ Inserted = Delivery!With(batch)
  BY <1>1, BatchIsOldest DEF Inserted, Delivery!With
<1>4. {} \in SUBSET Unsettled /\ Delivery!AreOldest({}) /\ rows = Delivery!With({})
  <2>1. rows \in [Obs -> Nat]
    BY DEF IInv, TypeOK
  <2> QED
    BY <2>1 DEF Delivery!AreOldest, Delivery!With
<1>5. \E some \in SUBSET Unsettled : Delivery!AreOldest(some) /\ rows' = Delivery!With(some)
  BY <1>1, <1>3, <1>4
<1> QED
  BY <1>1, <1>2, <1>5 DEF Delivery!Close

\* The worker is an ordered delivery: a batch is settled as one, oldest first and once,
\* and what is not stored is reported, unless the worker was ended.
THEOREM WorkerDeliversInOrder == Spec => ImplementsOrderedDelivery
<1>1. Init => Delivery!DeliveryInit
  BY DEF Init, Delivery!DeliveryInit, Unsettled, Alive
<1>2. IInv /\ [Next]_vars => [Delivery!DeliveryNext]_(Delivery!deliveryVars)
  <2> SUFFICES ASSUME IInv, [Next]_vars
               PROVE  [Delivery!DeliveryNext]_(Delivery!deliveryVars)
    OBVIOUS
  <2>1. CASE \E n \in 0..MaxPerMessage : Publish(n)
    BY <2>1, PublishOffers DEF Delivery!DeliveryNext
  <2>2. CASE Tick \/ Work
    BY <2>2, ReceivingIsUnseen
  <2>3. CASE Flush
    <3>1. Alive
      BY <2>3 DEF Flush, CommitSucceeds, CommitFails, CommitUnacknowledged, FlushReturns, Alive
    <3>2. batch \in SUBSET Unsettled
      BY <3>1, BatchIsOldest
    <3> QED
      BY <2>3, <3>2, FlushSettles DEF Delivery!DeliveryNext
  <2>4. CASE Interrupt \/ Terminate
    BY <2>4, EndCloses DEF Delivery!DeliveryNext
  <2>5. CASE UNCHANGED vars
    BY <2>5 DEF vars, Unsettled, Alive, Delivery!deliveryVars
  <2> QED
    BY <2>1, <2>2, <2>3, <2>4, <2>5 DEF Next
<1> QED
  BY <1>1, <1>2, InductiveInvariant, PTL DEF Spec, ImplementsOrderedDelivery, Delivery!DeliverySpec
===============================================================================
