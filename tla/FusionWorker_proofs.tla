-------------------------- MODULE FusionWorker_proofs --------------------------
(***************************************************************************)
(* Proofs about FusionWorker, for any set of drones (two or more), of      *)
(* track ids and timestamps, whatever ZeroMQ loses and however the streams *)
(* drift apart.                                                            *)
(***************************************************************************)
EXTENDS FusionWorker, DataTheorems, SequenceTheorems

-------------------------------------------------------------------------------
(* Dictionaries: pending and latest, with the entries in order.            *)

LEMMA MessageFacts ==
  ASSUME NEW m \in Messages
  PROVE  /\ m.drone \in Drones /\ m.frame \in 1..MaxFrames /\ m.stamp \in 0..MaxStamp
         /\ m.frame \in Nat /\ m.stamp \in Nat
         /\ m.tracks \in SUBSET LocalIds
BY DEF Messages

\* A dictionary of messages by drone.
IsDict(s) ==
  /\ s \in Seq(Messages)
  /\ \A i, j \in DOMAIN s : s[i].drone = s[j].drone => i = j

Dicts == {s \in Seq(Messages) : IsDict(s)}

\* What a dictionary holds once m is put into it.
Replaced(S, m) == {x \in S : x.drone # m.drone} \cup {m}

\* dict[m.drone] = m replaces what the dictionary holds for that drone, and nothing else.
LEMMA PutFacts ==
  ASSUME NEW dict, IsDict(dict), NEW m \in Messages
  PROVE  /\ IsDict(Put(dict, m))
         /\ Range(Put(dict, m)) = Replaced(Range(dict), m)
<1>1. dict \in Seq(Messages) /\ DOMAIN dict = 1..Len(dict) /\ Len(dict) \in Nat
  BY DEF IsDict
<1>2. CASE \E i \in DOMAIN dict : dict[i].drone = m.drone
  <2>1. PICK k \in DOMAIN dict : dict[k].drone = m.drone
    BY <1>2
  <2>2. \A i \in DOMAIN dict : dict[i].drone = m.drone <=> i = k
    BY <2>1 DEF IsDict
  <2>3. PICK new : /\ new = Put(dict, m)
                   /\ new = [i \in DOMAIN dict |-> IF dict[i].drone = m.drone THEN m ELSE dict[i]]
    BY <1>2 DEF Put
  <2>4. DOMAIN new = DOMAIN dict /\ \A i \in DOMAIN dict : new[i] = IF i = k THEN m ELSE dict[i]
    BY <2>2, <2>3
  <2>5. new \in Seq(Messages)
    <3>1. new \in [1..Len(dict) -> Messages]
      BY <1>1, <2>3
    <3> QED
      BY <1>1, <3>1
  <2>6. \A i, j \in DOMAIN new : new[i].drone = new[j].drone => i = j
    BY <2>1, <2>4 DEF IsDict
  <2>7. Range(new) = Replaced(Range(dict), m)
    BY <2>1, <2>2, <2>4 DEF Range, Replaced
  <2> QED
    BY <2>3, <2>5, <2>6, <2>7 DEF IsDict
<1>3. CASE ~ \E i \in DOMAIN dict : dict[i].drone = m.drone
  <2>1. PICK new : new = Put(dict, m) /\ new = Append(dict, m)
    BY <1>3 DEF Put
  <2>2. /\ new \in Seq(Messages)
        /\ DOMAIN new = 1..(Len(dict) + 1)
        /\ new[Len(dict) + 1] = m
        /\ \A i \in DOMAIN dict : new[i] = dict[i]
    BY <1>1, <2>1
  <2>3. \A i, j \in DOMAIN new : new[i].drone = new[j].drone => i = j
    BY <1>1, <1>3, <2>2 DEF IsDict
  <2>4. Range(new) = Replaced(Range(dict), m)
    <3>1. \A x \in Range(dict) : x.drone # m.drone
      BY <1>3 DEF Range
    <3>2. Range(new) = Range(dict) \cup {m}
      BY <1>1, <2>2 DEF Range
    <3> QED
      BY <3>1, <3>2 DEF Replaced
  <2> QED
    BY <2>1, <2>2, <2>3, <2>4 DEF IsDict
<1> QED
  BY <1>2, <1>3

\* add() of every message in turn: upTo[n] is _latest after the first n of them.
LEMMA LatestUnfolds ==
  ASSUME IsDict(latest), NEW messages, IsDict(messages)
  PROVE  \E upTo :
           /\ upTo[0] = latest
           /\ \A n \in 1..Len(messages) : upTo[n] = Put(upTo[n - 1], messages[n])
           /\ Latest(messages) = upTo[Len(messages)]
<1> DEFINE D == DOMAIN messages
           ch == [s \in SUBSET D |-> Max(s)]
           F == [xv \in D \X Dicts |-> Put(xv[2], messages[xv[1]])]
           Adds(g) == g = [s \in SUBSET D |->
                             IF s = {} THEN latest ELSE Put(g[s \ {Max(s)}], messages[Max(s)])]
<1>1. /\ messages \in Seq(Messages) /\ D = 1..Len(messages) /\ Len(messages) \in Nat
      /\ \A i \in D : messages[i] \in Messages
  BY DEF IsDict
<1>2. latest \in Dicts
  BY DEF Dicts, IsDict
<1>3. IsFiniteSet(D)
  BY <1>1, FS_Interval
<1>4. \A s \in SUBSET D : s # {} => Max(s) \in s /\ \A x \in s : x <= Max(s)
  BY <1>1, MaxOfIndices
<1>5. Chooses(ch, D)
  BY <1>4 DEF Chooses
<1>6. \A x \in D, v \in Dicts : F[<<x, v>>] = Put(v, messages[x])
  OBVIOUS
<1>7. MapsInto(F, D, Dicts)
  <2> SUFFICES ASSUME NEW x \in D, NEW v \in Dicts  PROVE F[<<x, v>>] \in Dicts
    BY DEF MapsInto
  <2>1. IsDict(v) /\ messages[x] \in Messages
    BY <1>1 DEF Dicts
  <2>2. IsDict(Put(v, messages[x]))
    BY <2>1, PutFacts
  <2> HIDE DEF F
  <2> QED
    BY <1>6, <2>2 DEF Dicts, IsDict
<1>8. \E g : Adds(g)
  <2> HIDE DEF F
  <2>1. PICK it \in [SUBSET D -> Dicts] : IsFold(it, D, latest, ch, F)
    <3> HIDE DEF D, ch
    <3> QED
      BY <1>2, <1>3, <1>5, <1>7, FoldExists
  <2>2. ASSUME NEW s \in SUBSET D
        PROVE  it[s] = IF s = {} THEN latest ELSE Put(it[s \ {Max(s)}], messages[Max(s)])
    <3>1. it[s] = IF s = {} THEN latest ELSE F[<<Max(s), it[s \ {Max(s)}]>>]
      BY <2>1 DEF IsFold
    <3>2. s # {} => Max(s) \in D /\ it[s \ {Max(s)}] \in Dicts
      BY <1>4
    <3> QED
      BY <1>6, <3>1, <3>2
  <2>3. it = [s \in SUBSET D |-> it[s]]
    OBVIOUS
  <2>4. Adds(it)
    BY <2>2, <2>3
  <2> QED
    BY <2>4
<1>9. Latest(messages) = (CHOOSE g : Adds(g))[D]
  BY DEF Latest, FoldLeft, MapThenFoldSet
<1>10. PICK g : g = (CHOOSE e : Adds(e)) /\ Adds(g)
  <2> HIDE DEF Adds
  <2> QED
    BY <1>8
<1> DEFINE upTo == [n \in 0..Len(messages) |-> g[1..n]]
<1>11. upTo[0] = latest
  <2>1. 1..0 = {} /\ {} \in SUBSET D
    OBVIOUS
  <2>2. g[{}] = latest
    BY <1>10, <2>1
  <2> QED
    BY <1>1, <2>1, <2>2
<1>12. ASSUME NEW n \in 1..Len(messages)
       PROVE  upTo[n] = Put(upTo[n - 1], messages[n])
  <2>0. PICK last \in Nat : last = Len(messages) /\ n \in 1..last
    BY <1>1
  <2>1. 1..n \in SUBSET D /\ 1..n # {} /\ n - 1 \in 0..Len(messages) /\ n \in 0..Len(messages)
    <3>1. n \in 1..n /\ \A i \in 1..n : i \in 1..last
      BY <2>0
    <3>2. n - 1 \in 0..last /\ n \in 0..last
      BY <2>0
    <3> HIDE DEF D
    <3> QED
      BY <1>1, <2>0, <3>1, <3>2
  <2>2. Max(1..n) = n
    <3>1. PICK k : k = Max(1..n) /\ k \in 1..n /\ \A x \in 1..n : x <= k
      BY <1>4, <2>1
    <3>2. n \in 1..n
      BY <2>0
    <3> QED
      BY <3>1, <3>2
  <2>3. (1..n) \ {n} = 1..(n - 1)
    OBVIOUS
  <2>4. g[1..n] = Put(g[(1..n) \ {Max(1..n)}], messages[Max(1..n)])
    BY <1>10, <2>1
  <2> QED
    BY <2>1, <2>2, <2>3, <2>4
<1>13. Latest(messages) = upTo[Len(messages)]
  BY <1>1, <1>9, <1>10
<1> HIDE DEF upTo
<1> QED
  BY <1>11, <1>12, <1>13

\* So afterwards _latest holds every one of these messages, and what it held for the
\* other drones.
LEMMA LatestFacts ==
  ASSUME IsDict(latest), NEW messages, IsDict(messages)
  PROVE  /\ IsDict(Latest(messages))
         /\ Range(Latest(messages)) =
              Range(messages)
                \cup {x \in Range(latest) : \A y \in Range(messages) : x.drone # y.drone}
<1>1. PICK upTo : /\ upTo[0] = latest
                  /\ \A n \in 1..Len(messages) : upTo[n] = Put(upTo[n - 1], messages[n])
                  /\ Latest(messages) = upTo[Len(messages)]
  BY LatestUnfolds
<1>2. /\ messages \in Seq(Messages) /\ DOMAIN messages = 1..Len(messages)
      /\ Len(messages) \in Nat
      /\ \A i \in 1..Len(messages) : messages[i] \in Messages
      /\ \A i, j \in 1..Len(messages) : messages[i].drone = messages[j].drone => i = j
  BY DEF IsDict
<1> DEFINE first(n) == {messages[i] : i \in 1..n}
           kept(n) == {x \in Range(latest) : \A y \in first(n) : x.drone # y.drone}
           Correct == {n \in Nat : n <= Len(messages) =>
                         IsDict(upTo[n]) /\ Range(upTo[n]) = first(n) \cup kept(n)}
<1>3. 0 \in Correct
  BY <1>1
<1>4. ASSUME NEW n \in Nat, n \in Correct
      PROVE  n + 1 \in Correct
  <2> SUFFICES ASSUME n + 1 <= Len(messages)
               PROVE  /\ IsDict(upTo[n + 1])
                      /\ Range(upTo[n + 1]) = first(n + 1) \cup kept(n + 1)
    OBVIOUS
  <2>1. IsDict(upTo[n]) /\ Range(upTo[n]) = first(n) \cup kept(n)
    BY <1>2, <1>4
  <2>2. n + 1 \in 1..Len(messages) /\ (n + 1) - 1 = n
    BY <1>2
  <2>3. PICK m \in Messages : m = messages[n + 1] /\ upTo[n + 1] = Put(upTo[n], m)
    BY <1>1, <1>2, <2>2
  <2>4. IsDict(upTo[n + 1]) /\ Range(upTo[n + 1]) = Replaced(Range(upTo[n]), m)
    BY <2>1, <2>3, PutFacts
  <2>5. first(n + 1) = first(n) \cup {m}
    <3>1. 1..(n + 1) = (1..n) \cup {n + 1}
      OBVIOUS
    <3> QED
      BY <2>3, <3>1
  <2>6. \A x \in first(n) : x.drone # m.drone
    <3> SUFFICES ASSUME NEW i \in 1..n  PROVE messages[i].drone # m.drone
      OBVIOUS
    <3>1. i \in 1..Len(messages) /\ i # n + 1
      BY <1>2, <2>2
    <3> QED
      BY <1>2, <2>2, <2>3, <3>1
  <2> HIDE DEF first
  <2>7. kept(n + 1) = {x \in kept(n) : x.drone # m.drone}
    BY <2>5
  <2> HIDE DEF kept
  <2>8. Replaced(first(n) \cup kept(n), m) = first(n + 1) \cup kept(n + 1)
    BY <2>5, <2>6, <2>7 DEF Replaced
  <2> QED
    BY <2>1, <2>4, <2>8
<1>5. Len(messages) \in Correct
  <2> HIDE DEF Correct
  <2>1. Nat \subseteq Correct
    BY <1>3, <1>4, NaturalInduction
  <2> QED
    BY <1>2, <2>1
<1>6. first(Len(messages)) = Range(messages)
  BY <1>2 DEF Range
<1> HIDE DEF first
<1> QED
  BY <1>1, <1>2, <1>5, <1>6

\* Oldest(dict) is an entry of it.
LEMMA OldestExists ==
  ASSUME NEW dict \in Seq(Messages), dict # <<>>
  PROVE  Oldest(dict) \in DOMAIN dict
<1>1. /\ DOMAIN dict = 1..Len(dict) /\ Len(dict) \in Nat /\ 1 \in DOMAIN dict
      /\ \A i \in DOMAIN dict : dict[i].stamp \in Nat
  <2>1. DOMAIN dict = 1..Len(dict) /\ Len(dict) \in Nat /\ 1 \in DOMAIN dict
    OBVIOUS
  <2>2. \A i \in DOMAIN dict : dict[i] \in Messages
    OBVIOUS
  <2> QED
    BY <2>1, <2>2, MessageFacts
<1>2. PICK least \in {dict[i].stamp : i \in DOMAIN dict} :
        \A stamp \in {dict[i].stamp : i \in DOMAIN dict} : least <= stamp
  <2>1. {dict[i].stamp : i \in DOMAIN dict} \in SUBSET Nat
    BY <1>1
  <2>2. {dict[i].stamp : i \in DOMAIN dict} # {}
    BY <1>1
  <2> QED
    BY <2>1, <2>2, LeastNatural
<1> DEFINE Least == {i \in DOMAIN dict : dict[i].stamp = least}
<1>3. PICK k \in Least : \A i \in Least : k <= i
  <2>1. Least \in SUBSET Nat /\ Least # {}
    BY <1>1, <1>2
  <2> HIDE DEF Least
  <2> QED
    BY <2>1, LeastNatural
<1>4. k \in DOMAIN dict /\ \A j \in DOMAIN dict : dict[k].stamp <= dict[j].stamp
  BY <1>2, <1>3
<1>5. ASSUME NEW j \in 1..(k - 1)
      PROVE  dict[k].stamp < dict[j].stamp
  <2>1. j \in DOMAIN dict /\ ~ (k <= j)
    BY <1>1, <1>4
  <2>2. j \notin Least
    BY <1>3, <2>1
  <2>3. dict[j].stamp # dict[k].stamp
    BY <1>3, <2>1, <2>2
  <2> QED
    BY <1>1, <1>4, <2>1, <2>3
<1> QED
  BY <1>4, <1>5 DEF Oldest

\* Without its oldest entry a dictionary is one, and holds nothing new.
LEMMA DropFacts ==
  ASSUME NEW dict, IsDict(dict), dict # <<>>
  PROVE  /\ IsDict(RemoveAt(dict, Oldest(dict)))
         /\ Range(RemoveAt(dict, Oldest(dict))) \subseteq Range(dict)
<1>1. dict \in Seq(Messages) /\ DOMAIN dict = 1..Len(dict) /\ Len(dict) \in Nat
  BY DEF IsDict
<1>2. PICK k \in 1..Len(dict) : k = Oldest(dict)
  BY <1>1, OldestExists
<1>3. PICK new : new = RemoveAt(dict, k)
  OBVIOUS
<1>4. /\ new \in Seq(Messages) /\ DOMAIN new = 1..(Len(dict) - 1)
      /\ \A j \in 1..(Len(dict) - 1) : new[j] = IF j < k THEN dict[j] ELSE dict[j + 1]
  <2>1. PICK s, t : s = SubSeq(dict, 1, k - 1) /\ t = SubSeq(dict, k + 1, Len(dict))
    OBVIOUS
  <2>2. /\ s \in Seq(Messages) /\ Len(s) = k - 1
        /\ \A j \in 1..(k - 1) : s[j] = dict[j]
    BY <1>1, <2>1
  <2>3. /\ t \in Seq(Messages) /\ Len(t) = Len(dict) - k
        /\ \A j \in 1..(Len(dict) - k) : t[j] = dict[k + j]
    <3>1. k + 1 \in Int /\ Len(dict) \in Int /\ \A i \in (k + 1)..Len(dict) : dict[i] \in Messages
      BY <1>1
    <3>2. PICK u : u = SubSeq(dict, k + 1, Len(dict))
      OBVIOUS
    <3>3. /\ u \in Seq(Messages)
          /\ Len(u) = IF k + 1 <= Len(dict) THEN Len(dict) - (k + 1) + 1 ELSE 0
          /\ \A i \in 1..(Len(dict) - (k + 1) + 1) : u[i] = dict[(k + 1) + i - 1]
      BY <3>1, <3>2, SubSeqProperties
    <3>4. t \in Seq(Messages)
      BY <2>1, <3>2, <3>3
    <3>5. Len(t) = Len(dict) - k
      <4>1. PICK n \in Nat : n = Len(dict)
        BY <1>1
      <4>2. Len(t) = IF k + 1 <= n THEN n - (k + 1) + 1 ELSE 0
        BY <2>1, <3>2, <3>3, <4>1
      <4>3. k \in 1..n
        BY <4>1
      <4> QED
        BY <4>1, <4>2, <4>3
    <3>6. ASSUME NEW j \in 1..(Len(dict) - k)  PROVE t[j] = dict[k + j]
      <4>1. j \in 1..(Len(dict) - (k + 1) + 1) /\ (k + 1) + j - 1 = k + j
        BY <1>1
      <4> QED
        BY <2>1, <3>2, <3>3, <4>1
    <3> QED
      BY <3>4, <3>5, <3>6
  <2>4. new = s \o t
    BY <1>3, <2>1 DEF RemoveAt
  <2>5. new \in Seq(Messages) /\ Len(new) = Len(dict) - 1
    <3>1. s \o t \in Seq(Messages) /\ Len(s \o t) = Len(s) + Len(t)
      BY <2>2, <2>3, ConcatProperties
    <3> QED
      BY <1>1, <2>2, <2>3, <2>4, <3>1
  <2>6. ASSUME NEW j \in 1..(Len(dict) - 1)
        PROVE  new[j] = IF j < k THEN dict[j] ELSE dict[j + 1]
    <3>1. CASE j < k
      BY <1>1, <2>2, <2>3, <2>4, <3>1
    <3>2. CASE j >= k
      <4>1. new[j] = t[j - (k - 1)]
        BY <1>1, <2>2, <2>3, <2>4, <3>2
      <4>2. j - (k - 1) \in 1..(Len(dict) - k) /\ k + (j - (k - 1)) = j + 1
        BY <1>1, <3>2
      <4> QED
        BY <2>3, <3>2, <4>1, <4>2
    <3> QED
      BY <1>1, <3>1, <3>2
  <2> QED
    BY <1>1, <2>5, <2>6
<1>5. \A j \in 1..(Len(dict) - 1) : j \in DOMAIN dict /\ j + 1 \in DOMAIN dict
  BY <1>1
<1>6. \A i, j \in DOMAIN new : new[i].drone = new[j].drone => i = j
  <2> SUFFICES ASSUME NEW i \in DOMAIN new, NEW j \in DOMAIN new, new[i].drone = new[j].drone
               PROVE  i = j
    OBVIOUS
  <2>1. PICK p, q \in DOMAIN dict : /\ p = (IF i < k THEN i ELSE i + 1)
                                   /\ q = (IF j < k THEN j ELSE j + 1)
    BY <1>4, <1>5
  <2>2. p = q
    BY <1>4, <2>1 DEF IsDict
  <2> QED
    BY <1>1, <1>4, <2>1, <2>2
<1>7. Range(new) \subseteq Range(dict)
  BY <1>4, <1>5 DEF Range
<1> QED
  BY <1>2, <1>3, <1>4, <1>6, <1>7 DEF IsDict

\* A dictionary with an entry for each stream lists every drone once.
LEMMA FullDict ==
  ASSUME NEW dict, IsDict(dict), Len(dict) >= Cardinality(Drones)
  PROVE  /\ Len(dict) = Cardinality(Drones)
         /\ \A d \in Drones : \E i \in DOMAIN dict : dict[i].drone = d
<1>1. /\ dict \in Seq(Messages) /\ DOMAIN dict = 1..Len(dict) /\ Len(dict) \in Nat
      /\ \A i \in DOMAIN dict : dict[i].drone \in Drones
  <2>1. dict \in Seq(Messages) /\ DOMAIN dict = 1..Len(dict) /\ Len(dict) \in Nat
    BY DEF IsDict
  <2>2. \A i \in DOMAIN dict : dict[i] \in Messages
    BY <2>1
  <2> QED
    BY <2>1, <2>2, MessageFacts
<1> DEFINE f == [i \in 1..Len(dict) |-> dict[i].drone]
<1>2. f \in Injection(1..Len(dict), Drones)
  BY <1>1 DEF IsDict, Injection, IsInjective
<1>3. IsFiniteSet(1..Len(dict)) /\ Cardinality(1..Len(dict)) = Len(dict)
  <2>1. 0 + 1 = 1 /\ 1 \in Int /\ Len(dict) \in Int /\ (1 > Len(dict) => Len(dict) = 0)
    BY <1>1
  <2> QED
    BY <2>1, FS_Interval
<1>4. Cardinality(Drones) \in Nat
  BY FusionAssumption, FS_CardinalityType
<1> HIDE DEF f
<1>5. /\ Cardinality(1..Len(dict)) <= Cardinality(Drones)
      /\ Cardinality(1..Len(dict)) = Cardinality(Drones) => f \in Surjection(1..Len(dict), Drones)
  BY <1>2, FusionAssumption, FS_Injection
<1>6. Len(dict) = Cardinality(Drones)
  BY <1>1, <1>3, <1>4, <1>5
<1>7. f \in Surjection(1..Len(dict), Drones)
  BY <1>3, <1>5, <1>6
<1>8. \A d \in Drones : \E i \in 1..Len(dict) : f[i] = d
  BY <1>7 DEF Surjection
<1> QED
  BY <1>1, <1>6, <1>8 DEF f

-------------------------------------------------------------------------------
(* The inductive invariant.                                                *)

\* The orders in which a full dictionary may list the drones.
Listings == {o \in [1..Cardinality(Drones) -> Drones] :
               \A i, j \in DOMAIN o : o[i] = o[j] => i = j}

\* The resolver with everything that is proved about it.
Proved == INSTANCE ConflictResolver_proofs WITH Sources <- Drones, Orders <- Listings

\* The telemetry of a drone arrives in order, and what the worker has received of it is
\* older than what ZeroMQ holds.
ArrivesInOrder ==
  /\ \A d \in Drones : \A i \in DOMAIN inbox[d] :
       /\ inbox[d][i].drone = d /\ inbox[d][i].frame <= frameId[d]
       /\ \A j \in DOMAIN inbox[d] : i < j => inbox[d][i].frame < inbox[d][j].frame
       /\ \A m \in taken : m.drone = d => m.frame < inbox[d][i].frame
  /\ \A m \in taken : m.frame <= frameId[m.drone]

\* Both dictionaries hold received messages, one for a drone.
HoldsReceived ==
  /\ IsDict(pending) /\ IsDict(latest)
  /\ Range(pending) \subseteq taken /\ Range(latest) \subseteq taken

\* The messages of a drone are older in S than in T.
Behind(S, T) == \A m \in S, n \in T : m.drone = n.drone => m.frame < n.frame

\* For each drone, what was fused is older than what the buffer keeps, and that is older
\* than what is pending.
StoresGoForward ==
  /\ Behind(spent, Range(latest)) /\ Behind(spent, Range(pending))
  /\ Behind(Range(latest), Range(pending))

\* What the worker holds, the resolver aside.
StoresOK ==
  /\ inbox \in [Drones -> Seq(Messages)]
  /\ frameId \in [Drones -> 0..MaxFrames]
  /\ clock \in [Drones -> 0..MaxStamp]
  /\ buffered \in [Drones -> Nat]
  /\ fused \subseteq Messages /\ spent \subseteq taken /\ taken \subseteq Messages
  /\ ArrivesInOrder /\ HoldsReceived /\ StoresGoForward

Inductive == StoresOK /\ FusedTogetherBelongTogether /\ Proved!IInv

-------------------------------------------------------------------------------
(* The resolver inside the worker.                                         *)

\* Its assumptions are met.
LEMMA ResolverAssumptions == Proved!KeysAssumption /\ Proved!OrdersAssumption
<1>1. Proved!KeysAssumption
  BY FusionAssumption, TracksAssumption DEF Proved!KeysAssumption, IsFiniteSet, Proved!IsFiniteSet
<1>2. Proved!OrdersAssumption
  BY FusionAssumption, FS_CardinalityType DEF Proved!OrdersAssumption, Listings
<1> QED
  BY <1>1, <1>2

\* A call of resolve is a call of the resolver that the proofs are about.
LEMMA SameResolver ==
  ASSUME NEW order, NEW tracks, Resolver!ResolvePair(order, tracks)
  PROVE  Proved!ResolvePair(order, tracks)
BY DEF Resolver!ResolvePair, Proved!ResolvePair,
       Resolver!NewIds, Resolver!Numberings, Resolver!NewKeys, Resolver!IsNew,
       Resolver!LooksUp, Resolver!Unmatched, Resolver!TracksOf, Resolver!Partners,
       Resolver!Merged, Resolver!Rank, Resolver!WithIds, Resolver!TakeOverId, Resolver!Answer,
       Resolver!Singles, Resolver!Entry, Resolver!Advance, Resolver!Keys, Resolver!NoId,
       Resolver!Matchings, Resolver!Injection, Resolver!IsInjective, Resolver!Cardinality,
       Resolver!IsFiniteSet,
       Proved!NewIds, Proved!Numberings, Proved!NewKeys, Proved!IsNew,
       Proved!LooksUp, Proved!Unmatched, Proved!TracksOf, Proved!Partners,
       Proved!Merged, Proved!Rank, Proved!WithIds, Proved!TakeOverId, Proved!Answer,
       Proved!Singles, Proved!Entry, Proved!Advance, Proved!Keys, Proved!NoId,
       Proved!Matchings, Proved!Injection, Proved!IsInjective, Proved!Cardinality,
       Proved!IsFiniteSet

\* It starts with the invariant of the resolver, and keeps it if it is not called: a
\* failed flush answers with no tracks and leaves the ids alone.
LEMMA ResolverStarts == Resolver!Init => Proved!IInv
<1>1. Resolver!Init => Proved!Init
  BY DEF Resolver!Init, Proved!Init, Resolver!Keys, Proved!Keys, Resolver!NoId, Proved!NoId
<1> QED
  BY <1>1, Proved!InitIInv, ResolverAssumptions

NotCalled ==
  /\ UNCHANGED <<globalTrackMap, nextGlobalId, followers>>
  /\ \/ UNCHANGED <<presented, result>>
     \/ presented' = {} /\ result' = {}

LEMMA ResolverStays == Proved!IInv /\ NotCalled => Proved!IInv'
BY DEF NotCalled, Proved!IInv, Proved!TypeOK, Proved!LeaderIdsDistinct, Proved!ResultAgreesWithMap

LEMMA ResolverTypes == Proved!IInv => Resolver!TypeOK
BY DEF Proved!IInv, Proved!TypeOK, Resolver!TypeOK, Resolver!Keys, Proved!Keys,
       Resolver!Entries, Proved!Entries

\* The tracks of a full dictionary, as the engine hands them to the resolver.
OrderOf(dict) == [i \in DOMAIN dict |-> dict[i].drone]
TracksIn(messages) == [d \in Drones |-> UNION {m.tracks : m \in {n \in messages : n.drone = d}}]

LEMMA ResolverIsCalledWell ==
  ASSUME NEW dict, IsDict(dict), Len(dict) = Cardinality(Drones)
  PROVE  OrderOf(dict) \in Listings /\ TracksIn(Range(dict)) \in [Drones -> SUBSET LocalIds]
<1>1. /\ DOMAIN dict = 1..Cardinality(Drones)
      /\ \A i \in DOMAIN dict : dict[i] \in Messages
  BY DEF IsDict
<1>2. \A i \in DOMAIN dict : dict[i].drone \in Drones
  BY <1>1, MessageFacts
<1>3. OrderOf(dict) \in Listings
  BY <1>1, <1>2 DEF OrderOf, Listings, IsDict
<1>4. \A m \in Range(dict) : m.tracks \subseteq LocalIds
  BY <1>1, MessageFacts DEF Range
<1>5. TracksIn(Range(dict)) \in [Drones -> SUBSET LocalIds]
  BY <1>4 DEF TracksIn
<1> QED
  BY <1>3, <1>5

-------------------------------------------------------------------------------
(* What one step does.                                                     *)

LEMMA InitInductive == Init => Inductive
<1> SUFFICES ASSUME Init PROVE Inductive
  OBVIOUS
<1>1. /\ inbox = [d \in Drones |-> <<>>] /\ frameId = [d \in Drones |-> 0]
      /\ clock = [d \in Drones |-> 0] /\ buffered = [d \in Drones |-> 0]
      /\ pending = <<>> /\ latest = <<>> /\ fused = {} /\ taken = {} /\ spent = {}
  BY DEF Init
<1>2. <<>> \in Seq(Messages) /\ DOMAIN <<>> = {} /\ Range(<<>>) = {}
  BY DEF Range
<1>3. /\ inbox \in [Drones -> Seq(Messages)]
      /\ frameId \in [Drones -> 0..MaxFrames] /\ clock \in [Drones -> 0..MaxStamp]
      /\ buffered \in [Drones -> Nat]
  BY <1>1, <1>2, BoundsAssumption
<1>4. ArrivesInOrder
  BY <1>1, <1>2 DEF ArrivesInOrder
<1>5. HoldsReceived /\ StoresGoForward
  BY <1>1, <1>2 DEF HoldsReceived, IsDict, StoresGoForward, Behind
<1>6. FusedTogetherBelongTogether
  BY <1>1 DEF FusedTogetherBelongTogether
<1>7. Proved!IInv
  BY ResolverStarts DEF Init
<1> QED
  BY <1>1, <1>3, <1>4, <1>5, <1>6, <1>7 DEF Inductive, StoresOK

\* A new frame goes to the end of the drone's inbox, or is lost.
LEMMA PublishStep ==
  ASSUME Inductive, NEW d \in Drones, Publish(d)
  PROVE  Inductive'
<1>1. /\ StoresOK /\ FusedTogetherBelongTogether /\ Proved!IInv
      /\ UNCHANGED <<pending, latest, buffered, fused, taken, spent, resolver>>
      /\ frameId[d] < MaxFrames
  BY DEF Inductive, Publish
<1>2. PICK stamp \in clock[d]..MaxStamp, tracks \in SUBSET LocalIds :
        /\ frameId' = [frameId EXCEPT ![d] = frameId[d] + 1]
        /\ clock' = [clock EXCEPT ![d] = stamp]
        /\ \/ inbox' = [inbox EXCEPT
                          ![d] = Append(inbox[d], Message(d, frameId[d] + 1, stamp, tracks))]
           \/ inbox' = inbox
  BY DEF Publish, Message
<1>3. /\ inbox \in [Drones -> Seq(Messages)] /\ frameId \in [Drones -> 0..MaxFrames]
      /\ clock \in [Drones -> 0..MaxStamp] /\ ArrivesInOrder
  BY <1>1 DEF StoresOK
<1>4. PICK f \in Nat : f = frameId[d] /\ f + 1 \in 1..MaxFrames /\ f + 1 \in 0..MaxFrames
  BY <1>1, <1>3, BoundsAssumption
<1>5. stamp \in 0..MaxStamp
  BY <1>2, <1>3, BoundsAssumption
<1>6. PICK m \in Messages : /\ m = Message(d, f + 1, stamp, tracks)
                            /\ m.drone = d /\ m.frame = f + 1
  BY <1>2, <1>4, <1>5 DEF Message, Messages
<1>7. frameId' \in [Drones -> 0..MaxFrames] /\ clock' \in [Drones -> 0..MaxStamp]
  BY <1>2, <1>3, <1>4, <1>5
<1>8. \A e \in Drones : frameId'[e] = IF e = d THEN f + 1 ELSE frameId[e]
  BY <1>2, <1>3, <1>4
<1>9. \A e \in Drones : frameId[e] \in Nat
  BY <1>3
<1>10. \A x \in taken : x.drone \in Drones /\ x.frame \in Nat /\ x.frame <= frameId[x.drone]
  BY <1>1, <1>3, MessageFacts DEF StoresOK, ArrivesInOrder
<1>11. inbox' \in [Drones -> Seq(Messages)] /\ ArrivesInOrder'
  <2>1. CASE inbox' = inbox
    <3>1. \A e \in Drones : \A i \in DOMAIN inbox[e] : inbox[e][i].frame \in Nat
      BY <1>3, MessageFacts
    <3>2. \A e \in Drones : frameId[e] <= frameId'[e]
      BY <1>4, <1>8, <1>9
    <3>3. \A e \in Drones : \A i \in DOMAIN inbox[e] : inbox[e][i].frame <= frameId'[e]
      BY <1>3, <1>7, <1>9, <3>1, <3>2 DEF ArrivesInOrder
    <3>4. \A x \in taken : x.frame <= frameId'[x.drone]
      BY <1>7, <1>9, <1>10, <3>2
    <3> QED
      BY <1>1, <1>3, <2>1, <3>3, <3>4 DEF ArrivesInOrder
  <2>2. CASE inbox' = [inbox EXCEPT ![d] = Append(inbox[d], m)]
    <3>1. inbox' \in [Drones -> Seq(Messages)]
      BY <1>3, <2>2
    <3>2. \A e \in Drones : e # d => inbox'[e] = inbox[e] /\ frameId'[e] = frameId[e]
      BY <1>3, <1>8, <2>2
    <3>3. PICK q \in Seq(Messages) : q = inbox[d]
      BY <1>3
    <3>4. PICK r \in Seq(Messages) : r = inbox'[d] /\ r = Append(q, m)
      <4>1. Append(q, m) \in Seq(Messages)
        OBVIOUS
      <4>2. inbox'[d] = Append(q, m)
        BY <1>3, <2>2, <3>3
      <4> QED
        BY <4>1, <4>2
    <3>5. /\ DOMAIN q = 1..Len(q) /\ Len(q) \in Nat
          /\ DOMAIN r = 1..(Len(q) + 1) /\ r[Len(q) + 1] = m
          /\ \A i \in DOMAIN q : r[i] = q[i]
      BY <3>4
    <3>6. \A i \in DOMAIN q : /\ q[i].drone = d /\ q[i].frame \in Nat /\ q[i].frame <= f
                              /\ \A j \in DOMAIN q : i < j => q[i].frame < q[j].frame
                              /\ \A x \in taken : x.drone = d => x.frame < q[i].frame
      BY <1>3, <1>4, <3>3, MessageFacts DEF ArrivesInOrder
    <3>7. \A i \in DOMAIN r : /\ r[i].drone = d /\ r[i].frame <= f + 1
                              /\ \A j \in DOMAIN r : i < j => r[i].frame < r[j].frame
                              /\ \A x \in taken : x.drone = d => x.frame < r[i].frame
      <4> SUFFICES ASSUME NEW i \in DOMAIN r
                   PROVE  /\ r[i].drone = d /\ r[i].frame <= f + 1
                          /\ \A j \in DOMAIN r : i < j => r[i].frame < r[j].frame
                          /\ \A x \in taken : x.drone = d => x.frame < r[i].frame
        OBVIOUS
      <4>1. CASE i \in DOMAIN q
        <5>1. r[i] = q[i] /\ \A j \in DOMAIN r : j \in DOMAIN q \/ r[j] = m
          BY <3>5, <4>1
        <5>2. \A j \in DOMAIN r : i < j => r[i].frame < r[j].frame
          BY <1>6, <3>5, <3>6, <4>1, <5>1
        <5> QED
          BY <3>6, <4>1, <5>1, <5>2
      <4>2. CASE i = Len(q) + 1
        <5>1. r[i] = m /\ \A j \in DOMAIN r : ~ (i < j)
          BY <3>5, <4>2
        <5>2. \A x \in taken : x.drone = d => x.frame < f + 1
          BY <1>4, <1>10
        <5> QED
          BY <1>6, <5>1, <5>2
      <4> QED
        BY <3>5, <4>1, <4>2
    <3>8. \A x \in taken : x.frame <= frameId'[x.drone]
      BY <1>4, <1>8, <1>10
    <3>9. frameId'[d] = f + 1
      BY <1>8
    <3>10. ASSUME NEW e \in Drones, NEW i \in DOMAIN inbox'[e]
           PROVE  /\ inbox'[e][i].drone = e /\ inbox'[e][i].frame <= frameId'[e]
                  /\ \A j \in DOMAIN inbox'[e] : i < j => inbox'[e][i].frame < inbox'[e][j].frame
                  /\ \A x \in taken : x.drone = e => x.frame < inbox'[e][i].frame
      <4>1. CASE e = d
        BY <3>4, <3>7, <3>9, <3>10, <4>1
      <4>2. CASE e # d
        BY <1>3, <3>2, <3>10, <4>2 DEF ArrivesInOrder
      <4> QED
        BY <4>1, <4>2
    <3> QED
      BY <1>1, <3>1, <3>8, <3>10 DEF ArrivesInOrder
  <2> QED
    BY <1>2, <1>4, <1>6, <2>1, <2>2
<1>12. HoldsReceived' /\ StoresGoForward'
  BY <1>1 DEF StoresOK, HoldsReceived, IsDict, StoresGoForward, Behind
<1>13. StoresOK'
  BY <1>1, <1>7, <1>11, <1>12 DEF StoresOK
<1>14. FusedTogetherBelongTogether'
  BY <1>1 DEF FusedTogetherBelongTogether
<1>15. Proved!IInv'
  <2>1. NotCalled
    BY <1>1 DEF resolver, NotCalled
  <2> QED
    BY <1>1, <2>1, ResolverStays
<1> QED
  BY <1>13, <1>14, <1>15 DEF Inductive

\* What the worker knows of the message it has just taken from ZeroMQ: it is newer than
\* all that it received from that drone, so pending holds the newest of each drone.
LEMMA TakeFacts ==
  ASSUME StoresOK, NEW d \in Drones, inbox[d] # <<>>,
         inbox' = [inbox EXCEPT ![d] = Tail(inbox[d])],
         taken' = taken \cup {Head(inbox[d])},
         UNCHANGED <<frameId, clock>>,
         NEW messages, messages = Put(pending, Head(inbox[d]))
  PROVE  /\ inbox' \in [Drones -> Seq(Messages)]
         /\ taken' \subseteq Messages /\ taken \subseteq taken'
         /\ ArrivesInOrder'
         /\ IsDict(messages) /\ Range(messages) \subseteq taken'
         /\ Behind(spent, Range(messages)) /\ Behind(Range(latest), Range(messages))
<1>1. /\ inbox \in [Drones -> Seq(Messages)] /\ frameId \in [Drones -> 0..MaxFrames]
      /\ taken \subseteq Messages /\ spent \subseteq taken
      /\ ArrivesInOrder /\ HoldsReceived /\ StoresGoForward
  BY DEF StoresOK
<1>2. PICK q \in Seq(Messages) : q = inbox[d] /\ q # <<>>
  BY <1>1
<1>3. PICK m, r : m = Head(q) /\ r = Tail(q)
  OBVIOUS
<1>4. /\ m \in Messages /\ r \in Seq(Messages)
      /\ DOMAIN q = 1..Len(q) /\ Len(q) \in Nat /\ 1 \in DOMAIN q /\ m = q[1]
      /\ DOMAIN r = 1..(Len(q) - 1)
      /\ \A i \in DOMAIN r : i + 1 \in DOMAIN q /\ r[i] = q[i + 1]
  <2>1. /\ m \in Messages /\ r \in Seq(Messages) /\ Len(r) = Len(q) - 1
        /\ \A i \in 1..Len(r) : r[i] = q[i + 1]
    BY <1>2, <1>3, HeadTailProperties
  <2>2. DOMAIN q = 1..Len(q) /\ Len(q) \in Nat /\ 1 \in DOMAIN q /\ m = q[1]
    BY <1>2, <1>3
  <2> QED
    BY <2>1, <2>2
<1>5. \A i \in DOMAIN q : /\ q[i].drone = d /\ q[i].frame \in Nat /\ q[i].frame <= frameId[d]
                          /\ \A j \in DOMAIN q : i < j => q[i].frame < q[j].frame
                          /\ \A x \in taken : x.drone = d => x.frame < q[i].frame
  BY <1>1, <1>2, MessageFacts DEF ArrivesInOrder
<1>6. m.drone = d /\ \A x \in taken : x.drone = d => x.frame < m.frame
  BY <1>4, <1>5
<1>7. inbox' \in [Drones -> Seq(Messages)] /\ inbox'[d] = r
      /\ \A e \in Drones : e # d => inbox'[e] = inbox[e]
  BY <1>1, <1>2, <1>3, <1>4
<1>8. taken' = taken \cup {m} /\ taken' \subseteq Messages
  BY <1>1, <1>2, <1>3, <1>4
<1>9. ArrivesInOrder'
  <2>1. ASSUME NEW e \in Drones, NEW i \in DOMAIN inbox'[e]
        PROVE  /\ inbox'[e][i].drone = e /\ inbox'[e][i].frame <= frameId[e]
               /\ \A j \in DOMAIN inbox'[e] : i < j => inbox'[e][i].frame < inbox'[e][j].frame
               /\ \A x \in taken' : x.drone = e => x.frame < inbox'[e][i].frame
    <3>1. CASE e = d
      <4>1. i \in 1..(Len(q) - 1) /\ i + 1 \in DOMAIN q /\ inbox'[e][i] = q[i + 1]
        BY <1>4, <1>7, <2>1, <3>1
      <4>2. \A j \in DOMAIN r : i < j => q[i + 1].frame < q[j + 1].frame
        <5> SUFFICES ASSUME NEW j \in DOMAIN r, i < j  PROVE q[i + 1].frame < q[j + 1].frame
          OBVIOUS
        <5>1. j + 1 \in DOMAIN q /\ i + 1 < j + 1
          BY <1>4, <4>1
        <5> QED
          BY <1>5, <4>1, <5>1
      <4>3. \A x \in taken' : x.drone = d => x.frame < q[i + 1].frame
        <5>1. m.frame < q[i + 1].frame
          <6>1. 1 < i + 1
            BY <4>1, <1>4
          <6> QED
            BY <1>4, <1>5, <4>1, <6>1
        <5> QED
          BY <1>5, <1>8, <4>1, <5>1
      <4>4. inbox'[e][i].drone = e /\ inbox'[e][i].frame <= frameId[e]
        BY <1>5, <3>1, <4>1
      <4>5. \A j \in DOMAIN inbox'[e] : i < j => inbox'[e][i].frame < inbox'[e][j].frame
        BY <1>4, <1>7, <3>1, <4>1, <4>2
      <4> QED
        BY <3>1, <4>1, <4>3, <4>4, <4>5
    <3>2. CASE e # d
      <4>1. inbox'[e] = inbox[e] /\ i \in DOMAIN inbox[e]
        BY <1>7, <2>1, <3>2
      <4>2. \A x \in taken' : x.drone = e => x \in taken
        BY <1>6, <1>8, <3>2
      <4> QED
        BY <1>1, <4>1, <4>2 DEF ArrivesInOrder
    <3> QED
      BY <3>1, <3>2
  <2>2. \A x \in taken' : x.frame <= frameId[x.drone]
    BY <1>1, <1>4, <1>5, <1>6, <1>8 DEF ArrivesInOrder
  <2> QED
    BY <2>1, <2>2 DEF ArrivesInOrder
<1>10. IsDict(messages) /\ Range(messages) = Replaced(Range(pending), m)
  BY <1>1, <1>2, <1>3, <1>4, PutFacts DEF HoldsReceived
<1>11. Range(messages) \subseteq taken'
  BY <1>1, <1>8, <1>10 DEF HoldsReceived, Replaced
<1>12. ASSUME NEW S, S \subseteq taken, Behind(S, Range(pending))
       PROVE  Behind(S, Range(messages))
  BY <1>6, <1>10, <1>12 DEF Behind, Replaced
<1>13. Behind(spent, Range(messages)) /\ Behind(Range(latest), Range(messages))
  BY <1>1, <1>12 DEF StoresGoForward, HoldsReceived
<1> QED
  BY <1>7, <1>8, <1>9, <1>10, <1>11, <1>13

\* Once every stream has a message pending, what _latest holds is that batch: it replaces
\* all that a failed flush has left.
LEMMA BatchReplacesAll ==
  ASSUME IsDict(latest), NEW messages, IsDict(messages), Len(messages) >= Cardinality(Drones)
  PROVE  /\ IsDict(Latest(messages))
         /\ Range(Latest(messages)) = Range(messages)
         /\ Len(Latest(messages)) = Cardinality(Drones)
<1>1. \A d \in Drones : \E y \in Range(messages) : y.drone = d
  BY FullDict DEF Range
<1>2. \A x \in Range(latest) : x.drone \in Drones
  <2>1. \A x \in Range(latest) : x \in Messages
    BY DEF IsDict, Range
  <2> QED
    BY <2>1, MessageFacts
<1>3. IsDict(Latest(messages)) /\ Range(Latest(messages)) = Range(messages)
  BY <1>1, <1>2, LatestFacts
<1>4. PICK dict : dict = Latest(messages)
  OBVIOUS
<1>5. /\ DOMAIN dict = 1..Len(dict) /\ Len(dict) \in Nat
      /\ DOMAIN messages = 1..Len(messages) /\ Len(messages) \in Nat
      /\ \A i \in DOMAIN messages : messages[i].drone \in Drones
      /\ \A i \in DOMAIN dict : dict[i].drone \in Drones
  BY <1>3, <1>4, MessageFacts DEF IsDict
<1>6. Len(dict) >= Cardinality(Drones)
  <2> SUFFICES ASSUME ~ (Len(dict) >= Cardinality(Drones))
               PROVE  FALSE
    OBVIOUS
  <2>1. Cardinality(Drones) \in Nat /\ IsFiniteSet(Drones)
    BY FusionAssumption, FS_CardinalityType
  <2>2. \A d \in Drones : \E i \in 1..Len(dict) : dict[i].drone = d
    <3>1. \A y \in Range(messages) : \E i \in 1..Len(dict) : dict[i] = y
      BY <1>3, <1>4, <1>5 DEF Range
    <3> QED
      BY <1>1, <3>1
  <2> DEFINE f == [i \in 1..Len(dict) |-> dict[i].drone]
  <2>3. f \in Surjection(1..Len(dict), Drones)
    BY <1>5, <2>2 DEF Surjection
  <2>4. ExistsSurjection(1..Len(dict), Drones)
    BY <2>3 DEF ExistsSurjection
  <2>5. Cardinality(Drones) <= Len(dict)
    BY <1>5, <2>4, FS_SurjCardinalityBound
  <2> QED
    BY <1>5, <2>1, <2>5
<1>7. Len(dict) = Cardinality(Drones)
  BY <1>3, <1>4, <1>6, FullDict
<1> QED
  BY <1>3, <1>4, <1>7

\* The loop only waits for more: the message is pending.
LEMMA WaitStep ==
  ASSUME Inductive, NEW d \in Drones, inbox[d] # <<>>,
         inbox' = [inbox EXCEPT ![d] = Tail(inbox[d])],
         taken' = taken \cup {Head(inbox[d])},
         pending' = Put(pending, Head(inbox[d])),
         UNCHANGED <<frameId, clock, latest, buffered, fused, spent, resolver>>
  PROVE  Inductive'
<1>1. StoresOK /\ FusedTogetherBelongTogether /\ Proved!IInv
  BY DEF Inductive
<1>2. /\ inbox' \in [Drones -> Seq(Messages)]
      /\ taken' \subseteq Messages /\ taken \subseteq taken'
      /\ ArrivesInOrder'
      /\ IsDict(pending') /\ Range(pending') \subseteq taken'
      /\ Behind(spent, Range(pending')) /\ Behind(Range(latest), Range(pending'))
  BY <1>1, TakeFacts
<1>3. HoldsReceived' /\ StoresGoForward'
  BY <1>1, <1>2 DEF StoresOK, HoldsReceived, StoresGoForward, IsDict, Behind
<1>4. StoresOK'
  BY <1>1, <1>2, <1>3 DEF StoresOK
<1>5. FusedTogetherBelongTogether'
  BY <1>1 DEF FusedTogetherBelongTogether
<1>6. NotCalled
  BY DEF NotCalled, resolver
<1> QED
  BY <1>1, <1>4, <1>5, <1>6, ResolverStays DEF Inductive

\* What process(pending) starts from: a message of every drone, newer than all that was
\* fused, in _latest and nothing else there.
BatchReady(dict) ==
  /\ IsDict(dict) /\ Len(dict) = Cardinality(Drones)
  /\ Range(dict) \subseteq taken' /\ Behind(spent, Range(dict))

LEMMA BatchIsReady ==
  ASSUME StoresOK, NEW d \in Drones, inbox[d] # <<>>,
         inbox' = [inbox EXCEPT ![d] = Tail(inbox[d])],
         taken' = taken \cup {Head(inbox[d])},
         UNCHANGED <<frameId, clock>>,
         NEW messages, messages = Put(pending, Head(inbox[d])),
         Len(messages) >= Cardinality(Drones)
  PROVE  BatchReady(Latest(messages))
<1>1. /\ IsDict(messages) /\ Range(messages) \subseteq taken'
      /\ Behind(spent, Range(messages))
  BY TakeFacts
<1>2. IsDict(latest)
  BY DEF StoresOK, HoldsReceived
<1>3. /\ IsDict(Latest(messages)) /\ Range(Latest(messages)) = Range(messages)
      /\ Len(Latest(messages)) = Cardinality(Drones)
  BY <1>1, <1>2, BatchReplacesAll
<1> QED
  BY <1>1, <1>3 DEF BatchReady

\* try_flush fails: the oldest message is dropped, the others stay for the next batch.
LEMMA NoFlushStep ==
  ASSUME Proved!IInv, NEW dict, BatchReady(dict), NoFlush(dict), pending' = <<>>
  PROVE  /\ HoldsReceived' /\ StoresGoForward' /\ fused' = {} /\ spent' = spent
         /\ FusedTogetherBelongTogether' /\ Proved!IInv'
<1>1. /\ latest' = RemoveAt(dict, Oldest(dict)) /\ fused' = {} /\ spent' = spent
      /\ IsDict(dict) /\ dict # <<>>
      /\ Range(dict) \subseteq taken' /\ Behind(spent, Range(dict))
  BY DEF NoFlush, BatchReady, SourcesExpected
<1>2. IsDict(latest') /\ Range(latest') \subseteq Range(dict)
  BY <1>1, DropFacts
<1>3. IsDict(pending') /\ Range(pending') = {}
  BY DEF IsDict, Range
<1>4. HoldsReceived'
  BY <1>1, <1>2, <1>3 DEF HoldsReceived, IsDict
<1>5. StoresGoForward'
  BY <1>1, <1>2, <1>3 DEF StoresGoForward, Behind
<1>6. FusedTogetherBelongTogether'
  BY <1>1 DEF FusedTogetherBelongTogether
<1>7. NotCalled
  BY DEF NoFlush, NotCalled
<1> QED
  BY <1>1, <1>4, <1>5, <1>6, <1>7, ResolverStays

\* try_flush succeeds: one message of every drone, close enough, goes to the resolver.
LEMMA FlushStep ==
  ASSUME Proved!IInv, NEW dict, BatchReady(dict), Flush(dict), pending' = <<>>,
         spent \subseteq taken'
  PROVE  /\ HoldsReceived' /\ StoresGoForward' /\ fused' = Range(dict)
         /\ spent' = spent \cup Range(dict)
         /\ FusedTogetherBelongTogether' /\ Proved!IInv'
<1>1. /\ latest' = <<>> /\ fused' = Range(dict) /\ spent' = spent \cup Range(dict)
      /\ IsAligned(dict) /\ IsDict(dict) /\ Len(dict) = Cardinality(Drones)
      /\ Range(dict) \subseteq taken'
  BY DEF Flush, BatchReady
<1>2. \A s : s = <<>> => IsDict(s) /\ Range(s) = {}
  BY DEF IsDict, Range
<1>3. IsDict(pending') /\ Range(pending') = {} /\ IsDict(latest') /\ Range(latest') = {}
  BY <1>1, <1>2
<1>4. HoldsReceived' /\ StoresGoForward'
  BY <1>3 DEF HoldsReceived, StoresGoForward, Behind, IsDict
<1>5. FusedTogetherBelongTogether'
  <2>1. {m.drone : m \in Range(dict)} = Drones
    <3>1. \A m \in Range(dict) : m \in Messages
      BY <1>1 DEF IsDict, Range
    <3>2. {m.drone : m \in Range(dict)} \subseteq Drones
      BY <3>1, MessageFacts
    <3>3. Cardinality(Drones) \in Nat
      BY FusionAssumption, FS_CardinalityType
    <3>4. \A d \in Drones : \E i \in DOMAIN dict : dict[i].drone = d
      BY <1>1, <3>3, FullDict
    <3> QED
      BY <3>2, <3>4 DEF Range
  <2>2. \A m, n \in Range(dict) : m.drone = n.drone => m = n
    BY <1>1 DEF IsDict, Range
  <2>3. \A m, n \in Range(dict) : m.stamp - n.stamp <= MaxDiff
    BY <1>1 DEF IsAligned, Range
  <2> QED
    BY <1>1, <2>1, <2>2, <2>3 DEF FusedTogetherBelongTogether
<1>6. Proved!IInv'
  <2>1. Resolver!ResolvePair(OrderOf(dict), TracksIn(Range(dict)))
    BY <1>1 DEF Flush, OrderOf, TracksIn
  <2>2. Proved!ResolvePair(OrderOf(dict), TracksIn(Range(dict)))
    BY <2>1, SameResolver
  <2>3. OrderOf(dict) \in Listings /\ TracksIn(Range(dict)) \in [Drones -> SUBSET LocalIds]
    BY <1>1, ResolverIsCalledWell
  <2> QED
    BY <2>2, <2>3, ResolverAssumptions, Proved!ResolvePairPreserves
<1> QED
  BY <1>1, <1>4, <1>5, <1>6

\* The batch is processed.
LEMMA ProcessStep ==
  ASSUME Inductive, NEW d \in Drones, inbox[d] # <<>>,
         inbox' = [inbox EXCEPT ![d] = Tail(inbox[d])],
         taken' = taken \cup {Head(inbox[d])},
         UNCHANGED <<frameId, clock>>,
         NEW messages, messages = Put(pending, Head(inbox[d])),
         Len(messages) >= Cardinality(Drones),
         Process(messages), pending' = <<>>
  PROVE  Inductive' /\ Behind(spent, fused')
<1>1. StoresOK /\ Proved!IInv /\ spent \subseteq taken
  BY DEF Inductive, StoresOK
<1>2. /\ inbox' \in [Drones -> Seq(Messages)]
      /\ taken' \subseteq Messages /\ taken \subseteq taken'
      /\ ArrivesInOrder'
      /\ IsDict(messages) /\ Range(messages) \subseteq taken'
      /\ Behind(spent, Range(messages))
  BY <1>1, TakeFacts
<1>3. PICK dict : dict = Latest(messages) /\ BatchReady(dict)
  BY <1>1, BatchIsReady
<1>4. /\ HoldsReceived' /\ StoresGoForward'
      /\ fused' \subseteq taken' /\ spent' \subseteq taken' /\ Behind(spent, fused')
      /\ FusedTogetherBelongTogether' /\ Proved!IInv'
  <2>1. CASE NoFlush(dict)
    BY <1>1, <1>2, <1>3, <2>1, NoFlushStep DEF Behind
  <2>2. CASE Flush(dict)
    <3>1. /\ HoldsReceived' /\ StoresGoForward' /\ fused' = Range(dict)
          /\ spent' = spent \cup Range(dict)
          /\ FusedTogetherBelongTogether' /\ Proved!IInv'
      BY <1>1, <1>2, <1>3, <2>2, FlushStep
    <3> QED
      BY <1>1, <1>2, <1>3, <3>1 DEF BatchReady
  <2> QED
    BY <1>3, <2>1, <2>2 DEF Process
<1>5. buffered' \in [Drones -> Nat]
  <2>1. \A e \in Drones : Cardinality({i \in DOMAIN messages : messages[i].drone = e}) \in Nat
    <3>1. IsFiniteSet(DOMAIN messages)
      <4>1. DOMAIN messages = 1..Len(messages) /\ Len(messages) \in Nat
        BY <1>2 DEF IsDict
      <4> QED
        BY <4>1, FS_Interval
    <3> QED
      BY <3>1, FS_Subset, FS_CardinalityType
  <2>2. buffered \in [Drones -> Nat]
    BY <1>1 DEF StoresOK
  <2> QED
    BY <2>1, <2>2 DEF Process
<1>6. StoresOK'
  BY <1>1, <1>2, <1>4, <1>5 DEF StoresOK
<1> QED
  BY <1>4, <1>6 DEF Inductive

LEMMA ReceiveStep ==
  ASSUME Inductive, NEW d \in Drones, Receive(d)
  PROVE  Inductive' /\ (UNCHANGED buffered \/ Behind(spent, fused'))
<1>1. /\ inbox[d] # <<>> /\ inbox' = [inbox EXCEPT ![d] = Tail(inbox[d])]
      /\ taken' = taken \cup {Head(inbox[d])} /\ UNCHANGED <<frameId, clock>>
  BY DEF Receive
<1>2. PICK messages : messages = Put(pending, Head(inbox[d]))
  OBVIOUS
<1>3. \/ /\ pending' = messages
         /\ UNCHANGED <<latest, buffered, fused, spent, resolver>>
      \/ /\ Len(messages) >= Cardinality(Drones)
         /\ Process(messages) /\ pending' = <<>>
  BY <1>2 DEF Receive, AfterProcess
<1>4. CASE pending' = messages /\ UNCHANGED <<latest, buffered, fused, spent, resolver>>
  BY <1>1, <1>2, <1>4, WaitStep
<1>5. CASE Len(messages) >= Cardinality(Drones) /\ Process(messages) /\ pending' = <<>>
  BY <1>1, <1>2, <1>5, ProcessStep
<1> QED
  BY <1>3, <1>4, <1>5

LEMMA NextInductive == Inductive /\ [Next]_vars => Inductive'
<1> SUFFICES ASSUME Inductive, [Next]_vars PROVE Inductive'
  OBVIOUS
<1>1. CASE Next
  BY <1>1, PublishStep, ReceiveStep DEF Next
<1>2. CASE UNCHANGED vars
  <2>1. /\ UNCHANGED <<inbox, frameId, clock, pending, latest, buffered, fused, taken, spent>>
        /\ UNCHANGED resolver
    BY <1>2 DEF vars, transport
  <2>2. NotCalled
    BY <2>1 DEF NotCalled, resolver
  <2>3. StoresOK'
    BY <2>1 DEF Inductive, StoresOK, ArrivesInOrder, HoldsReceived, IsDict, StoresGoForward, Behind
  <2>4. FusedTogetherBelongTogether'
    BY <2>1 DEF Inductive, FusedTogetherBelongTogether
  <2> QED
    BY <2>2, <2>3, <2>4, ResolverStays DEF Inductive
<1> QED
  BY <1>1, <1>2

LEMMA WorkerInvariant == Spec => []Inductive
BY InitInductive, NextInductive, PTL DEF Spec

-------------------------------------------------------------------------------
(* The theorems.                                                           *)

\* The variables of the worker, its engine and its resolver keep their types.
THEOREM TypeCorrect == Spec => []TypeOK
<1>1. Inductive => TypeOK
  BY ResolverTypes DEF Inductive, StoresOK, HoldsReceived, IsDict, TypeOK
<1> QED
  BY <1>1, WorkerInvariant, PTL

\* What try_flush hands over is one message of every stream, within max_time_sync_diff.
THEOREM FusesWhatBelongsTogether == Spec => []FusedTogetherBelongTogether
<1>1. Inductive => FusedTogetherBelongTogether
  BY DEF Inductive
<1> QED
  BY <1>1, WorkerInvariant, PTL

\* A message that a failed flush leaves in the buffer is never newer than one pending for
\* its drone, so add() of the next batch replaces it.
THEOREM LeftoversAreReplaced == Spec => []KeptOverIsOlder
<1>1. Inductive => KeptOverIsOlder
  <2> SUFFICES ASSUME Inductive, NEW i \in DOMAIN latest, NEW j \in DOMAIN pending,
                      latest[i].drone = pending[j].drone
               PROVE  latest[i].frame < pending[j].frame
    BY DEF KeptOverIsOlder
  <2>1. latest[i] \in Range(latest) /\ pending[j] \in Range(pending)
    BY DEF Range
  <2> QED
    BY <2>1 DEF Inductive, StoresOK, StoresGoForward, Behind
<1> QED
  BY <1>1, WorkerInvariant, PTL

\* The frames of a drone are fused in the order it published them, and none twice,
\* whatever was lost, kept over or dropped in between.
THEOREM FusionGoesForward == Spec => FramesFuseForward
<1>1. Inductive /\ [Next]_vars =>
        [buffered' # buffered =>
           \A m \in spent, n \in fused' : m.drone = n.drone => m.frame < n.frame]_vars
  <2> SUFFICES ASSUME Inductive, [Next]_vars, buffered' # buffered
               PROVE  \A m \in spent, n \in fused' : m.drone = n.drone => m.frame < n.frame
    OBVIOUS
  <2>1. PICK d \in Drones : Publish(d) \/ Receive(d)
    BY DEF Next, vars
  <2>2. ~ Publish(d)
    BY DEF Publish
  <2> QED
    BY <2>1, <2>2, ReceiveStep DEF Behind
<1> QED
  BY <1>1, WorkerInvariant, PTL DEF Spec, FramesFuseForward

-------------------------------------------------------------------------------
(* What the worker makes of the resolver's promises.                       *)

\* A step calls resolve with a batch, or leaves the ids alone; then the answer stays as it
\* is or has no tracks.
LEMMA CalledOrNot ==
  ASSUME Inductive, [Next]_vars
  PROVE  \/ NotCalled /\ UNCHANGED <<fused, result>>
         \/ NotCalled /\ fused' = {} /\ result' = {}
         \/ \E dict : BatchReady(dict) /\ Flush(dict)
<1>1. CASE UNCHANGED <<fused, resolver>>
  BY <1>1 DEF NotCalled, resolver
<1>2. ASSUME NEW d \in Drones, Receive(d), ~ UNCHANGED <<fused, resolver>>
      PROVE  \/ NotCalled /\ fused' = {} /\ result' = {}
             \/ \E dict : BatchReady(dict) /\ Flush(dict)
  <2>1. /\ inbox[d] # <<>> /\ inbox' = [inbox EXCEPT ![d] = Tail(inbox[d])]
        /\ taken' = taken \cup {Head(inbox[d])} /\ UNCHANGED <<frameId, clock>>
    BY <1>2 DEF Receive
  <2>2. PICK messages : messages = Put(pending, Head(inbox[d]))
    OBVIOUS
  <2>3. Len(messages) >= Cardinality(Drones) /\ Process(messages)
    BY <1>2, <2>2 DEF Receive
  <2>4. StoresOK
    BY DEF Inductive
  <2>5. PICK dict : dict = Latest(messages) /\ BatchReady(dict)
    BY <2>1, <2>2, <2>3, <2>4, BatchIsReady
  <2>6. NoFlush(dict) => NotCalled /\ fused' = {} /\ result' = {}
    BY DEF NoFlush, NotCalled
  <2> QED
    BY <2>3, <2>5, <2>6 DEF Process
<1>3. \A d \in Drones : Publish(d) => UNCHANGED <<fused, resolver>>
  BY DEF Publish
<1>4. UNCHANGED vars => UNCHANGED <<fused, resolver>>
  BY DEF vars
<1> QED
  BY <1>1, <1>2, <1>3, <1>4 DEF Next

\* A call with a batch is a call of resolve as it is proved about.
LEMMA BatchIsResolved ==
  ASSUME NEW dict, BatchReady(dict), Flush(dict)
  PROVE  /\ OrderOf(dict) \in Listings /\ TracksIn(Range(dict)) \in [Drones -> SUBSET LocalIds]
         /\ Proved!ResolvePair(OrderOf(dict), TracksIn(Range(dict)))
         /\ Proved!Resolve(OrderOf(dict), TracksIn(Range(dict)))
<1>1. IsDict(dict) /\ Len(dict) = Cardinality(Drones) /\ fused' = Range(dict)
  BY DEF Flush, BatchReady
<1>2. Resolver!ResolvePair(OrderOf(dict), TracksIn(Range(dict)))
  BY <1>1 DEF Flush, OrderOf, TracksIn
<1> QED
  BY <1>1, <1>2, SameResolver, ResolverIsCalledWell DEF Proved!Resolve

\* The identities last in the worker as they do in the resolver alone: whatever is lost or
\* comes too late, a track's global id changes only by a merge that the fused answer shows.
THEOREM IdentitiesLastWhileFusing == Spec => Resolver!IdentityChangesOnlyByMerge
<1>1. Inductive /\ [Next]_vars => Proved!IsByMerge
  <2> SUFFICES ASSUME Inductive, [Next]_vars PROVE Proved!IsByMerge
    OBVIOUS
  <2>1. NotCalled => Proved!IsByMerge
    BY DEF NotCalled, Proved!IsByMerge
  <2>2. ASSUME NEW dict, BatchReady(dict), Flush(dict)
        PROVE  Proved!IsByMerge
    <3>1. /\ OrderOf(dict) \in Listings
          /\ TracksIn(Range(dict)) \in [Drones -> SUBSET LocalIds]
          /\ Proved!Resolve(OrderOf(dict), TracksIn(Range(dict)))
      BY <2>2, BatchIsResolved
    <3>2. Proved!IInv
      BY DEF Inductive
    <3> QED
      BY <3>1, <3>2, ResolverAssumptions, Proved!ResolveIsByMerge
  <2> QED
    BY <2>1, <2>2, CalledOrNot
<1>2. Proved!IsByMerge =>
        [globalTrackMap' = [k \in Resolver!Keys |-> Resolver!NoId] \/
         \A k \in Resolver!Keys :
           globalTrackMap[k] \notin {Resolver!NoId, globalTrackMap'[k]} =>
             \E e \in result' :
               /\ k \in e.members /\ e.gid = globalTrackMap'[k]
               /\ \E l \in e.members : l[1] # k[1]]_(Resolver!vars)
  BY DEF Proved!IsByMerge, Proved!Keys, Resolver!Keys, Proved!NoId, Resolver!NoId
<1> QED
  BY <1>1, <1>2, WorkerInvariant, PTL DEF Spec, Resolver!IdentityChangesOnlyByMerge

\* With two streams the fused answer has every track of the fused messages.  (With three
\* the resolver never looks at those of the third.)
THEOREM TwoStreamsLoseNoTrack ==
  ASSUME Cardinality(Drones) = 2
  PROVE  Spec => []FusedTracksAreReported
<1>1. Init => FusedTracksAreReported
  BY DEF Init, Resolver!Init, FusedTracksAreReported
<1>2. Inductive /\ FusedTracksAreReported /\ [Next]_vars => FusedTracksAreReported'
  <2> SUFFICES ASSUME Inductive, FusedTracksAreReported, [Next]_vars
               PROVE  FusedTracksAreReported'
    OBVIOUS
  <2>1. CASE UNCHANGED <<fused, result>> \/ (fused' = {} /\ result' = {})
    BY <2>1 DEF FusedTracksAreReported
  <2>2. ASSUME NEW dict, BatchReady(dict), Flush(dict)
        PROVE  FusedTracksAreReported'
    <3>1. PICK order, tracks :
            /\ order = OrderOf(dict) /\ tracks = TracksIn(Range(dict))
            /\ order \in Listings /\ tracks \in [Drones -> SUBSET LocalIds]
            /\ Proved!ResolvePair(order, tracks) /\ Proved!Resolve(order, tracks)
      BY <2>2, BatchIsResolved
    <3>2. UNION {e.members : e \in result'} = presented'
      <4>1. Proved!IInv
        BY DEF Inductive
      <4>2. Proved!EveryTrackInOneEntry'
        BY <3>1, <4>1, ResolverAssumptions, Proved!ResolvePartitions
      <4> QED
        BY <4>2 DEF Proved!EveryTrackInOneEntry
    <3>3. presented' = ({order[1]} \X tracks[order[1]]) \cup ({order[2]} \X tracks[order[2]])
      BY <3>1 DEF Proved!ResolvePair, Proved!TracksOf
    <3>4. /\ fused' = Range(dict) /\ IsDict(dict) /\ DOMAIN dict = 1..2
          /\ \A i \in 1..2 : dict[i].drone = order[i] /\ order[i] \in Drones
      <4>1. fused' = Range(dict) /\ IsDict(dict) /\ Len(dict) = 2
        BY <2>2 DEF Flush, BatchReady
      <4>2. DOMAIN dict = 1..2
        BY <4>1 DEF IsDict
      <4>3. \A i \in 1..2 : order[i] = dict[i].drone
        BY <3>1, <4>2 DEF OrderOf
      <4> QED
        BY <3>1, <4>1, <4>2, <4>3 DEF Listings
    <3>5. Range(dict) = {dict[1], dict[2]}
      <4>1. 1..2 = {1, 2}
        OBVIOUS
      <4> QED
        BY <3>4, <4>1 DEF Range
    <3>6. ASSUME NEW i \in 1..2  PROVE tracks[order[i]] = dict[i].tracks
      <4>1. {n \in Range(dict) : n.drone = order[i]} = {dict[i]}
        BY <3>4 DEF Range, IsDict
      <4>2. tracks[order[i]] = UNION {m.tracks : m \in {dict[i]}}
        BY <3>1, <3>4, <4>1 DEF TracksIn
      <4> QED
        BY <4>2
    <3>7. UNION {{m.drone} \X m.tracks : m \in Range(dict)}
            = ({dict[1].drone} \X dict[1].tracks) \cup ({dict[2].drone} \X dict[2].tracks)
      BY <3>5
    <3>8. 1 \in 1..2 /\ 2 \in 1..2
      OBVIOUS
    <3> QED
      BY <3>2, <3>3, <3>4, <3>6, <3>7, <3>8 DEF FusedTracksAreReported
  <2> QED
    BY <2>1, <2>2, CalledOrNot
<1> QED
  BY <1>1, <1>2, WorkerInvariant, PTL DEF Spec
===============================================================================
