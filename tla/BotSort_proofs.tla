---------------------------- MODULE BotSort_proofs ----------------------------
(***************************************************************************)
(* Proofs about BotSort, for any thresholds, max_age, min_hits, detections *)
(* and any matchings that the geometry may lead to.                        *)
(***************************************************************************)
EXTENDS BotSort, DataTheorems

-------------------------------------------------------------------------------
(* One frame.                                                              *)

LEMMA FrameFacts ==
  ASSUME NEW dets \in Frames
  PROVE  /\ IsFiniteSet(DOMAIN dets)
         /\ \A i \in DOMAIN dets : dets[i].feat \in BOOLEAN /\ dets[i].conf \in Nat
<1>1. PICK n \in 0..MaxDets : dets \in [1..n -> Detections]
  BY DEF Frames
<1>2. IsFiniteSet(1..n) /\ DOMAIN dets = 1..n
  BY <1>1, FS_Interval
<1>3. ASSUME NEW d \in Detections  PROVE d.feat \in BOOLEAN /\ d.conf \in Nat
  <2>1. d.feat \in (IF ReidReady THEN BOOLEAN ELSE {FALSE}) /\ d.conf \in Confidences
    BY DEF Detections
  <2>2. d.feat \in BOOLEAN
    BY <2>1, Zenon
  <2> QED
    BY <2>1, <2>2, ThresholdsAssumption
<1> QED
  BY <1>1, <1>2, <1>3

\* The ids of new tracks are exactly those that the counter passes over, one for each.
LEMMA NewIdsFacts ==
  ASSUME nextId \in Nat \ {0}, NEW dets, NEW born, IsFiniteSet(born), NEW f \in NewIds(dets, born)
  PROVE  /\ DOMAIN f = born /\ Advance(born) \in Nat /\ nextId <= Advance(born)
         /\ \A i \in born : f[i] \in Nat /\ nextId <= f[i] /\ f[i] < Advance(born)
         /\ \A i, j \in born : f[i] = f[j] => i = j
         /\ \A k \in nextId .. (Advance(born) - 1) : \E i \in born : f[i] = k
<1> DEFINE n == Cardinality(born)
           ids == nextId .. (nextId + n - 1)
<1>1. n \in Nat
  BY FS_CardinalityType
<1>2. f \in Injection(born, ids)
  BY DEF NewIds
<1>3. IsFiniteSet(ids) /\ Cardinality(ids) = n
  <2> DEFINE a == nextId
             b == nextId + n - 1
  <2>1. a \in Int /\ b \in Int /\ b - a + 1 = n
    BY <1>1
  <2> HIDE DEF a, b, n
  <2>2. IsFiniteSet(a..b) /\ Cardinality(a..b) = IF a > b THEN 0 ELSE b - a + 1
    BY <2>1, FS_Interval
  <2>3. IsFiniteSet(a..b) /\ Cardinality(a..b) = n
    BY <1>1, <2>1, <2>2
  <2> QED
    BY <2>3 DEF a, b
<1>4. Advance(born) = nextId + n
  BY DEF Advance
<1> HIDE DEF n
<1>5. f \in Surjection(born, ids)
  <2> HIDE DEF ids
  <2> QED
    BY <1>2, <1>3, FS_Injection DEF n
<1>6. f \in [born -> ids] /\ IsInjective(f) /\ \A k \in ids : \E i \in born : f[i] = k
  BY <1>2, <1>5 DEF Injection, Surjection
<1> QED
  BY <1>1, <1>4, <1>6 DEF IsInjective

\* A prediction ages the track and counts a miss until a stage takes it back.
LEMMA PredictedFacts ==
  ASSUME NEW t \in Tracks
  PROVE  LET p == Predicted(t)
         IN  p \in Tracks /\ p.id = t.id /\ p.age = t.age + 1 /\ p.hits = t.hits /\ p.tsu = t.tsu + 1
<1>1. PICK n \in Nat \ {0}, a \in Nat, h \in Nat \ {0}, s \in Nat, g \in BOOLEAN :
        t = [id |-> n, age |-> a, hits |-> h, tsu |-> s, feat |-> g]
  BY Zenon DEF Tracks
<1>2. t.age = a /\ t.tsu = s
  BY <1>1
<1>3. Predicted(t) = [t EXCEPT !.age = a + 1, !.tsu = s + 1]
  BY <1>2 DEF Predicted
<1>4. Predicted(t) = [id |-> n, age |-> a + 1, hits |-> h, tsu |-> s + 1, feat |-> g]
  BY <1>1, <1>3
<1>5. a + 1 \in Nat /\ s + 1 \in Nat
  OBVIOUS
<1> QED
  BY <1>1, <1>4, <1>5 DEF Tracks

\* What the two stages do to a track: it is hit once or missed.
LEMMA AfterFrameFacts ==
  ASSUME NEW dets \in Frames, NEW t \in tracks, tracks \subseteq Tracks,
         NEW first \in Matchings(Ids, High(dets)),
         NEW second \in Matchings(LeftOver(first), Low(dets))
  PROVE  LET u == AfterFrame(t, dets, first, second)
             hit == t.id \in DOMAIN first \/ t.id \in DOMAIN second
         IN  /\ u \in Tracks /\ u.id = t.id /\ u.age = t.age + 1
             /\ hit => u.hits = t.hits + 1 /\ u.tsu = 0
             /\ ~hit => u.hits = t.hits /\ u.tsu = t.tsu + 1
<1> DEFINE p == Predicted(t)
           q == AfterStage(p, dets, first)
           u == AfterStage(q, dets, second)
<1>1. t \in Tracks
  OBVIOUS
<1>2. p \in Tracks /\ p.id = t.id /\ p.age = t.age + 1 /\ p.hits = t.hits /\ p.tsu = t.tsu + 1
  BY <1>1, PredictedFacts
<1>3. /\ DOMAIN first \subseteq Ids /\ \A r \in DOMAIN first : first[r] \in DOMAIN dets
      /\ DOMAIN second \subseteq LeftOver(first) /\ \A r \in DOMAIN second : second[r] \in DOMAIN dets
  <2>1. first \in [DOMAIN first -> High(dets)] /\ DOMAIN first \subseteq Ids
    BY MatchingIsInjective
  <2>2. second \in [DOMAIN second -> Low(dets)] /\ DOMAIN second \subseteq LeftOver(first)
    BY MatchingIsInjective
  <2>3. High(dets) \subseteq DOMAIN dets /\ Low(dets) \subseteq DOMAIN dets
    BY DEF High, Low
  <2> QED
    BY <2>1, <2>2, <2>3
<1>4. ASSUME NEW v \in Tracks, NEW i \in DOMAIN dets
      PROVE  LET w == Updated(v, dets[i])
             IN  w \in Tracks /\ w.id = v.id /\ w.age = v.age /\ w.hits = v.hits + 1 /\ w.tsu = 0
  <2> DEFINE g == v.feat \/ dets[i].feat
  <2>1. g \in BOOLEAN
    BY Zenon
  <2>2. Updated(v, dets[i]) = [v EXCEPT !.hits = @ + 1, !.tsu = 0, !.feat = g]
    BY DEF Updated
  <2> HIDE DEF g
  <2>3. /\ v.id \in Nat \ {0} /\ v.age \in Nat /\ v.hits \in Nat \ {0} /\ v.tsu \in Nat
        /\ v = [id |-> v.id, age |-> v.age, hits |-> v.hits, tsu |-> v.tsu, feat |-> v.feat]
    BY DEF Tracks
  <2>4. Updated(v, dets[i]) =
          [id |-> v.id, age |-> v.age, hits |-> v.hits + 1, tsu |-> 0, feat |-> g]
    BY <2>2, <2>3
  <2>5. v.hits + 1 \in Nat \ {0}
    BY <2>3
  <2> QED
    BY <2>1, <2>3, <2>4, <2>5 DEF Tracks
<1> HIDE DEF p
<1>5. /\ q \in Tracks /\ q.id = t.id /\ q.age = t.age + 1
      /\ t.id \in DOMAIN first => q.hits = t.hits + 1 /\ q.tsu = 0
      /\ t.id \notin DOMAIN first => q.hits = t.hits /\ q.tsu = t.tsu + 1
  BY <1>2, <1>3, <1>4 DEF AfterStage
<1> HIDE DEF q
<1>6. /\ u \in Tracks /\ u.id = t.id /\ u.age = t.age + 1
      /\ t.id \in DOMAIN second => u.hits = q.hits + 1 /\ u.tsu = 0
      /\ t.id \notin DOMAIN second => u.hits = q.hits /\ u.tsu = q.tsu
  BY <1>3, <1>4, <1>5 DEF AfterStage
<1>7. t.id \in DOMAIN second => t.id \notin DOMAIN first
  BY <1>3 DEF LeftOver
<1>8. u = AfterFrame(t, dets, first, second)
  BY DEF AfterFrame, p, q
<1> HIDE DEF u
<1> QED
  BY <1>5, <1>6, <1>7, <1>8

-------------------------------------------------------------------------------
(* One call of update.                                                     *)

\* The track that u becomes: hit once or missed.
Follows(o, u) ==
  /\ u \in Tracks /\ u.id = o.id /\ u.age = o.age + 1
  /\ \/ u.hits = o.hits + 1 /\ u.tsu = 0
     \/ u.hits = o.hits /\ u.tsu = o.tsu + 1

\* A track that the call creates.
IsNew(u) ==
  u \in Tracks /\ u.age = 0 /\ u.hits = 1 /\ u.tsu = 0

LEMMA NewTrackFacts ==
  ASSUME NEW dets \in Frames, NEW i \in DOMAIN dets, NEW n \in Nat \ {0}
  PROVE  IsNew(NewTrack(n, dets[i])) /\ NewTrack(n, dets[i]).id = n
<1>1. dets[i].feat \in BOOLEAN
  BY FrameFacts
<1>2. PICK g \in BOOLEAN : dets[i].feat = g
  BY <1>1, Zenon
<1>3. NewTrack(n, dets[i]) = [id |-> n, age |-> 0, hits |-> 1, tsu |-> 0, feat |-> g]
  BY <1>2 DEF NewTrack
<1> QED
  BY <1>3 DEF IsNew, Tracks

\* The tracks after a call: those before it, hit or missed, less those missed too often,
\* and one new track for each id that the counter passes over.
IsOutcome(dets, first, second, f, born, next, after) ==
  /\ IsFiniteSet(after) /\ next \in Nat /\ nextId <= next
  /\ \A u \in after : /\ u.tsu <= MaxAge
                      /\ \/ \E o \in tracks : u = AfterFrame(o, dets, first, second)
                         \/ \E i \in born : u = NewTrack(f[i], dets[i])
  /\ \A o \in tracks : LET u == AfterFrame(o, dets, first, second)
                       IN  Follows(o, u) /\ (u.tsu <= MaxAge => u \in after)
  /\ \A i \in born : LET u == NewTrack(f[i], dets[i])
                     IN  /\ IsNew(u) /\ u \in after
                         /\ u.id = f[i] /\ nextId <= u.id /\ u.id < next
  /\ \A i, j \in born : f[i] = f[j] => i = j
  /\ \A k \in nextId .. (next - 1) : \E i \in born : f[i] = k

Remaining(dets, first, second, f, born) ==
  {t \in {AfterFrame(u, dets, first, second) : u \in tracks}
           \cup {NewTrack(f[i], dets[i]) : i \in born} : IsKept(t)}

LEMMA UpdateFacts ==
  ASSUME tracks \subseteq Tracks, IsFiniteSet(tracks), UniqueIds, nextId \in Nat \ {0},
         MaxAge \in Nat, NEW dets \in Frames,
         NEW first \in Matchings(Ids, High(dets)),
         NEW second \in Matchings(LeftOver(first), Low(dets)),
         NEW f \in NewIds(dets, Unclaimed(dets, first, second))
  PROVE  LET all == Unclaimed(dets, first, second)
         IN  IsOutcome(dets, first, second, f, all, Advance(all),
                       Remaining(dets, first, second, f, all))
<1> DEFINE born == Unclaimed(dets, first, second)
           next == Advance(born)
           Old == {AfterFrame(u, dets, first, second) : u \in tracks}
           New == {NewTrack(f[i], dets[i]) : i \in born}
           after == Remaining(dets, first, second, f, born)
<1>1. born \subseteq DOMAIN dets
  BY DEF Unclaimed, Strong
<1>2. IsFiniteSet(born)
  BY <1>1, FrameFacts, FS_Subset
<1>3. /\ DOMAIN f = born /\ next \in Nat /\ nextId <= next
      /\ \A i \in born : f[i] \in Nat /\ nextId <= f[i] /\ f[i] < next
      /\ \A i, j \in born : f[i] = f[j] => i = j
      /\ \A k \in nextId .. (next - 1) : \E i \in born : f[i] = k
  <2> HIDE DEF born
  <2>1. f \in NewIds(dets, born)
    BY DEF born
  <2> QED
    BY <1>2, <2>1, NewIdsFacts
<1>4. after = {t \in Old \cup New : IsKept(t)}
  BY DEF Remaining
<1>5. IsFiniteSet(Old)
  <2> DEFINE g == [u \in tracks |-> AfterFrame(u, dets, first, second)]
  <2>1. g \in Surjection(tracks, Old)
    BY DEF Surjection
  <2> QED
    BY <2>1, FS_Surjection
<1>6. IsFiniteSet(New)
  <2> DEFINE g == [i \in born |-> NewTrack(f[i], dets[i])]
  <2>1. g \in Surjection(born, New)
    BY DEF Surjection
  <2> QED
    BY <1>2, <2>1, FS_Surjection
<1> HIDE DEF born, next, after
<1>7. IsFiniteSet(after)
  <2> HIDE DEF Old, New
  <2>1. IsFiniteSet(Old \cup New)
    BY <1>5, <1>6, FS_Union
  <2> QED
    BY <1>4, <2>1, FS_Subset
<1>8. ASSUME NEW o \in tracks
      PROVE  LET u == AfterFrame(o, dets, first, second)
             IN  Follows(o, u) /\ (u.tsu <= MaxAge => u \in after)
  <2> DEFINE u == AfterFrame(o, dets, first, second)
  <2>1. Follows(o, u)
    <3> HIDE DEF u
    <3> QED
      BY AfterFrameFacts DEF Follows, u
  <2>2. u \in Old
    OBVIOUS
  <2> HIDE DEF u, Old, New
  <2>3. u.tsu <= MaxAge => u \in after
    BY <1>4, <2>2 DEF IsKept
  <2> QED
    BY <2>1, <2>3 DEF u
<1>9. ASSUME NEW i \in born
      PROVE  LET u == NewTrack(f[i], dets[i])
             IN  /\ IsNew(u) /\ u \in after
                 /\ u.id = f[i] /\ nextId <= u.id /\ u.id < next
  <2> DEFINE u == NewTrack(f[i], dets[i])
  <2>1. f[i] \in Nat \ {0} /\ nextId <= f[i] /\ f[i] < next
    BY <1>3
  <2>2. IsNew(u) /\ u.id = f[i]
    BY <1>1, <2>1, NewTrackFacts
  <2>3. u \in New
    OBVIOUS
  <2> HIDE DEF u, Old, New
  <2>4. u \in after
    BY <1>4, <2>2, <2>3 DEF IsKept, IsNew
  <2> QED
    BY <2>1, <2>2, <2>4 DEF u
<1>10. ASSUME NEW u \in after
       PROVE  /\ u.tsu <= MaxAge
              /\ \/ \E o \in tracks : u = AfterFrame(o, dets, first, second)
                 \/ \E i \in born : u = NewTrack(f[i], dets[i])
  BY <1>4 DEF IsKept
<1>11. IsOutcome(dets, first, second, f, born, next, after)
  BY <1>3, <1>7, <1>8, <1>9, <1>10 DEF IsOutcome
<1> QED
  BY <1>11 DEF born, next, after

\* What a call does to the variables, in the terms of UpdateFacts: each track after it
\* follows one before it, or is new with an id that the counter passed over.
LEMMA UpdateStep ==
  ASSUME TypeOK, IsFiniteSet(tracks), UniqueIds, NEW dets \in Frames, Update(dets)
  PROVE  /\ IsFiniteSet(tracks') /\ nextId' \in Nat /\ nextId <= nextId'
         /\ \A u \in tracks' :
              /\ u.tsu <= MaxAge
              /\ \/ \E o \in tracks : Follows(o, u)
                 \/ IsNew(u) /\ nextId <= u.id /\ u.id < nextId'
         /\ \A u, v \in tracks' : u.id = v.id => u = v
         /\ \A o \in tracks : \E u \in Tracks : Follows(o, u) /\ (u.tsu <= MaxAge => u \in tracks')
         /\ \A k \in nextId .. (nextId' - 1) : \E u \in tracks' : u.id = k
         /\ strong' <= Cardinality({t \in tracks' : t.tsu = 0})
         /\ strong' \in Nat
<1>1. tracks \subseteq Tracks /\ nextId \in Nat \ {0} /\ MaxAge \in Nat
  BY ThresholdsAssumption DEF TypeOK
<1>a. PICK first \in Matchings(Ids, High(dets)) :
        \E second \in Matchings(LeftOver(first), Low(dets)) :
          /\ \E f \in NewIds(dets, Unclaimed(dets, first, second)) :
               tracks' = Remaining(dets, first, second, f, Unclaimed(dets, first, second))
          /\ nextId' = Advance(Unclaimed(dets, first, second))
  BY DEF Update, Remaining
<1>b. PICK second \in Matchings(LeftOver(first), Low(dets)) :
          /\ \E f \in NewIds(dets, Unclaimed(dets, first, second)) :
               tracks' = Remaining(dets, first, second, f, Unclaimed(dets, first, second))
          /\ nextId' = Advance(Unclaimed(dets, first, second))
  BY <1>a
<1>2. PICK f \in NewIds(dets, Unclaimed(dets, first, second)) :
        /\ tracks' = Remaining(dets, first, second, f, Unclaimed(dets, first, second))
        /\ nextId' = Advance(Unclaimed(dets, first, second))
  BY <1>b
<1> DEFINE After(o) == AfterFrame(o, dets, first, second)
           Born(i) == NewTrack(f[i], dets[i])
<1>3. PICK born : born = Unclaimed(dets, first, second)
  OBVIOUS
<1>4. /\ IsFiniteSet(tracks') /\ nextId' \in Nat /\ nextId <= nextId'
      /\ \A u \in tracks' : /\ u.tsu <= MaxAge
                            /\ (\E o \in tracks : u = After(o)) \/ (\E i \in born : u = Born(i))
      /\ \A o \in tracks : Follows(o, After(o)) /\ (After(o).tsu <= MaxAge => After(o) \in tracks')
      /\ \A i \in born : /\ IsNew(Born(i)) /\ Born(i) \in tracks'
                         /\ Born(i).id = f[i] /\ nextId <= Born(i).id /\ Born(i).id < nextId'
      /\ \A i, j \in born : f[i] = f[j] => i = j
      /\ \A k \in nextId .. (nextId' - 1) : \E i \in born : f[i] = k
  <2>1. IsOutcome(dets, first, second, f, Unclaimed(dets, first, second),
                  Advance(Unclaimed(dets, first, second)),
                  Remaining(dets, first, second, f, Unclaimed(dets, first, second)))
    BY <1>1, UpdateFacts
  <2>2. IsOutcome(dets, first, second, f, born, nextId', tracks')
    BY <1>2, <1>3, <2>1, Zenon
  <2> QED
    BY <2>2 DEF IsOutcome
<1>5. \A o \in tracks : o.id \in Nat /\ o.id < nextId
  BY <1>1 DEF UniqueIds, Tracks
<1>6. \A o \in tracks : After(o).id = o.id /\ After(o) \in Tracks
  BY <1>4 DEF Follows
<1>7. \A u, v \in tracks' : u.id = v.id => u = v
  <2> SUFFICES ASSUME NEW u \in tracks', NEW v \in tracks', u.id = v.id  PROVE u = v
    OBVIOUS
  <2> HIDE DEF After, Born
  <2>1. CASE \E o \in tracks, n \in tracks : u = After(o) /\ v = After(n)
    <3>1. PICK o \in tracks, n \in tracks : u = After(o) /\ v = After(n)
      BY <2>1
    <3>2. o = n
      BY <1>6, <3>1 DEF UniqueIds
    <3> QED
      BY <3>1, <3>2
  <2>2. CASE \E o \in tracks, i \in born : u = After(o) /\ v = Born(i)
    <3>1. PICK o \in tracks, i \in born : u = After(o) /\ v = Born(i)
      BY <2>2
    <3>2. o.id = Born(i).id /\ o.id \in Nat /\ o.id < nextId /\ nextId <= Born(i).id
      BY <1>4, <1>5, <1>6, <3>1
    <3> QED
      BY <1>1, <3>2
  <2>3. CASE \E o \in tracks, i \in born : v = After(o) /\ u = Born(i)
    <3>1. PICK o \in tracks, i \in born : v = After(o) /\ u = Born(i)
      BY <2>3
    <3>2. o.id = Born(i).id /\ o.id \in Nat /\ o.id < nextId /\ nextId <= Born(i).id
      BY <1>4, <1>5, <1>6, <3>1
    <3> QED
      BY <1>1, <3>2
  <2>4. CASE \E i \in born, j \in born : u = Born(i) /\ v = Born(j)
    <3>1. PICK i \in born, j \in born : u = Born(i) /\ v = Born(j)
      BY <2>4
    <3>2. f[i] = f[j]
      BY <1>4, <3>1
    <3>3. i = j
      BY <1>4, <3>2
    <3> QED
      BY <3>1, <3>3
  <2> QED
    BY <1>4, <2>1, <2>2, <2>3, <2>4
<1>8. \A u \in tracks' : \/ \E o \in tracks : Follows(o, u)
                         \/ IsNew(u) /\ nextId <= u.id /\ u.id < nextId'
  <2> HIDE DEF After, Born
  <2> QED
    BY <1>4
<1>9. \A o \in tracks : \E u \in Tracks : Follows(o, u) /\ (u.tsu <= MaxAge => u \in tracks')
  <2> HIDE DEF After, Born
  <2> QED
    BY <1>4, <1>6
<1>10. \A k \in nextId .. (nextId' - 1) : \E u \in tracks' : u.id = k
  <2> HIDE DEF After, Born
  <2> QED
    BY <1>4
<1>11. strong' \in Nat /\ strong' <= Cardinality({t \in tracks' : t.tsu = 0})
  <2> DEFINE Fresh == {t \in tracks' : t.tsu = 0}
             Owns(u, i) == \/ \E o \in tracks : /\ u = After(o)
                                               /\ \/ o.id \in DOMAIN first /\ i = first[o.id]
                                                  \/ o.id \in DOMAIN second /\ i = second[o.id]
                           \/ i \in born /\ u = Born(i)
             Owners == {u \in Fresh : \E i \in Strong(dets) : Owns(u, i)}
             owned == [u \in Owners |-> CHOOSE i \in Strong(dets) : Owns(u, i)]
  <2>1. strong' = Cardinality(Strong(dets))
    BY DEF Update
  <2>2. DOMAIN first \subseteq Ids /\ DOMAIN second \subseteq Ids \ DOMAIN first
    BY MatchingIsInjective DEF LeftOver
  <2>3. ASSUME NEW i \in Strong(dets)  PROVE \E u \in Fresh : Owns(u, i)
    <3>1. CASE i \in born
      BY <1>4, <3>1 DEF IsNew
    <3>2. CASE i \notin born
      <4>1. PICK r \in DOMAIN first \cup DOMAIN second :
              \/ r \in DOMAIN first /\ i = first[r]
              \/ r \in DOMAIN second /\ i = second[r]
        BY <1>3, <3>2 DEF Unclaimed, Range
      <4>2. PICK o \in tracks : o.id = r
        BY <2>2, <4>1 DEF Ids
      <4>3. After(o).tsu = 0
        BY <1>1, <4>1, <4>2, AfterFrameFacts
      <4>4. After(o) \in Fresh
        <5> HIDE DEF After
        <5> QED
          BY <1>1, <1>4, <4>3
      <4> QED
        BY <4>1, <4>2, <4>4
    <3> QED
      BY <3>1, <3>2
  <2>4. ASSUME NEW u \in Fresh, NEW i, NEW j, Owns(u, i), Owns(u, j)  PROVE i = j
    <3> HIDE DEF After, Born
    <3>1. CASE \E o \in tracks : u = After(o)
      <4>1. PICK o \in tracks : u = After(o)
        BY <3>1
      <4>2. u.id = o.id /\ u.id < nextId
        BY <1>5, <1>6, <4>1
      <4>3. \A k \in born : u # Born(k)
        BY <1>1, <1>4, <1>5, <4>2
      <4>4. \A n \in tracks : u = After(n) => n.id = o.id
        BY <1>6, <4>2
      <4> QED
        BY <2>2, <2>4, <4>3, <4>4
    <3>2. CASE ~ \E o \in tracks : u = After(o)
      <4>1. i \in born /\ j \in born /\ u = Born(i) /\ u = Born(j)
        BY <2>4, <3>2
      <4>2. Born(i).id = f[i] /\ Born(j).id = f[j] /\ Born(i) = Born(j)
        BY <1>4, <4>1
      <4>3. f[i] = f[j]
        BY <4>2
      <4> QED
        BY <1>4, <4>1, <4>3
    <3> QED
      BY <3>1, <3>2
  <2> HIDE DEF Owns, Fresh
  <2>5. owned \in Surjection(Owners, Strong(dets))
    <3>1. ASSUME NEW u \in Owners  PROVE owned[u] \in Strong(dets) /\ Owns(u, owned[u])
      OBVIOUS
    <3>2. ASSUME NEW i \in Strong(dets)  PROVE \E u \in Owners : owned[u] = i
      <4>1. PICK u \in Fresh : Owns(u, i)
        BY <2>3
      <4>2. u \in Owners
        BY <4>1
      <4>3. owned[u] = i
        BY <2>4, <3>1, <4>1, <4>2
      <4> QED
        BY <4>2, <4>3
    <3>3. owned \in [Owners -> Strong(dets)]
      BY <3>1
    <3> HIDE DEF owned, Owners
    <3> QED
      BY <3>2, <3>3 DEF Surjection
  <2>6. IsFiniteSet(Fresh) /\ Cardinality(Fresh) \in Nat
    BY <1>4, FS_Subset, FS_CardinalityType DEF Fresh
  <2>7. IsFiniteSet(Owners) /\ Cardinality(Owners) \in Nat /\ Cardinality(Owners) <= Cardinality(Fresh)
    BY <2>6, FS_Subset, FS_CardinalityType
  <2> HIDE DEF owned, Owners
  <2>8. IsFiniteSet(Strong(dets)) /\ Cardinality(Strong(dets)) <= Cardinality(Owners)
    BY <2>5, <2>7, FS_Surjection
  <2>9. Cardinality(Strong(dets)) \in Nat
    BY <2>8, FS_CardinalityType
  <2>10. strong' <= Cardinality(Fresh) /\ strong' \in Nat
    BY <2>1, <2>6, <2>7, <2>8, <2>9
  <2> QED
    BY <2>10 DEF Fresh
<1> QED
  <2> HIDE DEF After, Born
  <2> QED
    BY <1>4, <1>7, <1>8, <1>9, <1>10, <1>11

-------------------------------------------------------------------------------
(* The invariants.                                                         *)

\* One inductive invariant: ids must stay below the counter for new tracks to differ from
\* old ones, types must hold for the counters to be numbers, and only finitely many tracks
\* can be counted.
IInv ==
  /\ TypeOK
  /\ IsFiniteSet(tracks)
  /\ UniqueIds
  /\ CountersAgree
  /\ NoStrongDetectionLost

LEMMA RaisesFacts ==
  ASSUME IInv, NEW dets \in Frames, UpdateRaises(dets)
  PROVE  /\ IsFiniteSet(tracks')
         /\ \A u \in tracks' : \E t \in tracks : u = Predicted(t) /\ u \in Tracks
         /\ \A t \in tracks : Predicted(t) \in tracks' /\ Predicted(t).id = t.id
<1>1. tracks' = {Predicted(t) : t \in tracks} /\ tracks \subseteq Tracks
  BY DEF UpdateRaises, IInv, TypeOK
<1>2. \A t \in tracks : Predicted(t) \in Tracks /\ Predicted(t).id = t.id
  BY <1>1, PredictedFacts
<1>3. IsFiniteSet(tracks')
  <2> DEFINE g == [t \in tracks |-> Predicted(t)]
  <2>1. g \in Surjection(tracks, tracks')
    BY <1>1 DEF Surjection
  <2> QED
    BY <2>1, FS_Surjection DEF IInv
<1> QED
  BY <1>1, <1>2, <1>3

LEMMA InitIsSound == Init => IInv
<1> SUFFICES ASSUME Init PROVE IInv
  OBVIOUS
<1>1. TypeOK
  BY BoundsAssumption DEF Init, TypeOK
<1>2. IsFiniteSet(tracks) /\ UniqueIds /\ CountersAgree
  BY FS_EmptySet DEF Init, UniqueIds, CountersAgree
<1>3. NoStrongDetectionLost
  <2>1. {t \in tracks : t.tsu = 0} = {} /\ strong = 0
    BY DEF Init
  <2> QED
    BY <2>1, FS_EmptySet DEF NoStrongDetectionLost
<1> QED
  BY <1>1, <1>2, <1>3 DEF IInv

LEMMA UpdateIsSound ==
  ASSUME IInv, NEW dets \in Frames, Update(dets)
  PROVE  IInv'
<1>1. /\ TypeOK /\ IsFiniteSet(tracks) /\ UniqueIds /\ CountersAgree
      /\ tracks \subseteq Tracks /\ nextId \in Nat \ {0}
  BY DEF IInv, TypeOK
<1>2. /\ IsFiniteSet(tracks') /\ nextId' \in Nat /\ nextId <= nextId'
      /\ \A u \in tracks' :
           /\ u.tsu <= MaxAge
           /\ \/ \E o \in tracks : Follows(o, u)
              \/ IsNew(u) /\ nextId <= u.id /\ u.id < nextId'
      /\ \A u, v \in tracks' : u.id = v.id => u = v
      /\ strong' <= Cardinality({t \in tracks' : t.tsu = 0})
      /\ strong' \in Nat
  BY <1>1, UpdateStep
<1>3. /\ frameCount \in Nat /\ frameCount < MaxFrames /\ frameCount' = frameCount + 1
      /\ newThresh' = newThresh /\ running' = running
      /\ returned' = {t.id : t \in {u \in tracks' : IsConfirmed(u, frameCount')}}
  BY BoundsAssumption, <1>1 DEF Update, TypeOK
<1>4. tracks' \subseteq Tracks
  BY <1>2 DEF Follows, IsNew
<1>5. TypeOK'
  <2>1. returned' \subseteq Nat \ {0}
    BY <1>3, <1>4 DEF Tracks
  <2>2. nextId' \in Nat \ {0} /\ frameCount' \in 0..MaxFrames
    BY <1>1, <1>2, <1>3, BoundsAssumption
  <2>3. newThresh' \in NewThresholds /\ running' \in BOOLEAN
    BY <1>1, <1>3, Zenon DEF TypeOK
  <2> QED
    BY <1>2, <1>4, <2>1, <2>2, <2>3 DEF TypeOK
<1>6. UniqueIds'
  <2>1. ASSUME NEW u \in tracks'  PROVE u.id < nextId'
    <3>1. CASE \E o \in tracks : Follows(o, u)
      <4>1. PICK o \in tracks : Follows(o, u)
        BY <3>1
      <4>2. u.id = o.id /\ o.id < nextId /\ o.id \in Nat
        BY <1>1, <4>1 DEF Follows, UniqueIds, Tracks
      <4> QED
        BY <1>1, <1>2, <4>2
    <3>2. CASE IsNew(u) /\ nextId <= u.id /\ u.id < nextId'
      BY <3>2
    <3> QED
      BY <1>2, <3>1, <3>2
  <2> QED
    BY <1>2, <2>1 DEF UniqueIds
<1>7. CountersAgree'
  <2> SUFFICES ASSUME NEW u \in tracks'
               PROVE  /\ u.hits + u.tsu <= u.age + 1
                      /\ u.hits = 1 => u.tsu = u.age
                      /\ u.age <= frameCount'
    BY DEF CountersAgree
  <2>1. CASE \E o \in tracks : Follows(o, u)
    <3>1. PICK o \in tracks : Follows(o, u)
      BY <2>1
    <3>2. /\ o.hits \in Nat \ {0} /\ o.tsu \in Nat /\ o.age \in Nat
          /\ o.hits + o.tsu <= o.age + 1 /\ o.age <= frameCount
          /\ o.hits = 1 => o.tsu = o.age
      BY <1>1 DEF CountersAgree, Tracks
    <3>3. /\ u.age = o.age + 1
          /\ \/ u.hits = o.hits + 1 /\ u.tsu = 0
             \/ u.hits = o.hits /\ u.tsu = o.tsu + 1
      BY <3>1 DEF Follows
    <3> QED
      BY <1>3, <3>2, <3>3
  <2>2. CASE IsNew(u)
    BY <1>3, <2>2 DEF IsNew
  <2> QED
    BY <1>2, <2>1, <2>2
<1>8. NoStrongDetectionLost'
  BY <1>2 DEF NoStrongDetectionLost
<1> QED
  BY <1>2, <1>5, <1>6, <1>7, <1>8 DEF IInv

LEMMA RaisesIsSound ==
  ASSUME IInv, NEW dets \in Frames, UpdateRaises(dets)
  PROVE  IInv'
<1>1. /\ IsFiniteSet(tracks')
      /\ \A u \in tracks' : \E t \in tracks : u = Predicted(t) /\ u \in Tracks
  BY RaisesFacts
<1>2. /\ frameCount' = frameCount + 1 /\ frameCount < MaxFrames /\ running' = FALSE
      /\ strong' = 0 /\ returned' = {} /\ newThresh' = newThresh /\ nextId' = nextId
  BY DEF UpdateRaises
<1>3. /\ tracks \subseteq Tracks /\ frameCount \in 0..MaxFrames /\ nextId \in Nat \ {0}
      /\ newThresh \in NewThresholds
      /\ UniqueIds /\ CountersAgree
  BY DEF IInv, TypeOK
<1>4. TypeOK'
  <2>1. tracks' \subseteq Tracks
    BY <1>1
  <2>2. frameCount' \in 0..MaxFrames
    BY <1>2, <1>3, BoundsAssumption
  <2> QED
    BY <1>2, <1>3, <2>1, <2>2 DEF TypeOK
<1>5. ASSUME NEW t \in tracks
      PROVE  LET p == Predicted(t)
             IN  p.id = t.id /\ p.age = t.age + 1 /\ p.hits = t.hits /\ p.tsu = t.tsu + 1
  BY <1>3, PredictedFacts
<1>6. UniqueIds'
  BY <1>1, <1>2, <1>3, <1>5 DEF UniqueIds
<1>7. CountersAgree'
  <2> SUFFICES ASSUME NEW u \in tracks'
               PROVE  /\ u.hits + u.tsu <= u.age + 1
                      /\ u.hits = 1 => u.tsu = u.age
                      /\ u.age <= frameCount'
    BY DEF CountersAgree
  <2>1. PICK t \in tracks : u = Predicted(t)
    BY <1>1
  <2>2. /\ t.hits \in Nat \ {0} /\ t.tsu \in Nat /\ t.age \in Nat
        /\ t.hits + t.tsu <= t.age + 1 /\ t.age <= frameCount
        /\ t.hits = 1 => t.tsu = t.age
    BY <1>3 DEF CountersAgree, Tracks
  <2>3. u.age = t.age + 1 /\ u.hits = t.hits /\ u.tsu = t.tsu + 1
    BY <1>5, <2>1
  <2> QED
    BY <1>2, <1>3, <2>2, <2>3
<1>8. NoStrongDetectionLost'
  BY <1>2 DEF NoStrongDetectionLost
<1> QED
  BY <1>1, <1>4, <1>6, <1>7, <1>8 DEF IInv

LEMMA ResetIsSound ==
  ASSUME IInv, Reset
  PROVE  IInv'
<1>1. /\ tracks' = {} /\ nextId' = 1 /\ frameCount' = 0 /\ strong' = 0 /\ returned' = {}
      /\ newThresh' = newThresh /\ running' = running
  BY DEF Reset
<1>2. newThresh \in NewThresholds /\ running \in BOOLEAN
  BY DEF IInv, TypeOK
<1>3. TypeOK'
  <2>1. newThresh' \in NewThresholds /\ running' \in BOOLEAN
    BY <1>1, <1>2, Zenon
  <2> QED
    BY <1>1, <2>1, BoundsAssumption DEF TypeOK
<1>4. IsFiniteSet(tracks') /\ UniqueIds' /\ CountersAgree'
  BY <1>1, FS_EmptySet DEF UniqueIds, CountersAgree
<1>5. NoStrongDetectionLost'
  <2>1. {t \in tracks' : t.tsu = 0} = {}
    BY <1>1
  <2> QED
    BY <1>1, <2>1, FS_EmptySet DEF NoStrongDetectionLost
<1> QED
  BY <1>3, <1>4, <1>5 DEF IInv

LEMMA InvariantHolds == Spec => []IInv
<1>1. IInv /\ [Next]_vars => IInv'
  <2> SUFFICES ASSUME IInv, [Next]_vars PROVE IInv'
    OBVIOUS
  <2>1. CASE \E dets \in Frames : Update(dets)
    BY <2>1, UpdateIsSound
  <2>2. CASE \E dets \in Frames : UpdateRaises(dets)
    BY <2>2, RaisesIsSound
  <2>3. CASE Reset
    BY <2>3, ResetIsSound
  <2>4. CASE UNCHANGED vars
    BY <2>4 DEF vars, IInv, TypeOK, UniqueIds, CountersAgree, NoStrongDetectionLost
  <2> QED
    BY <2>1, <2>2, <2>3, <2>4 DEF Next
<1> QED
  BY InitIsSound, <1>1, PTL DEF Spec

\* Every variable has a value of its type, and while update has not raised no track has been
\* missed for more than max_age frames.
THEOREM TypeCorrect == Spec => []TypeOK
<1>1. IInv => TypeOK
  BY DEF IInv
<1> QED
  BY InvariantHolds, <1>1, PTL

\* Within a tracker no two tracks share an id, and the counter is ahead of them all.
THEOREM IdsAreUnique == Spec => []UniqueIds
<1>1. IInv => UniqueIds
  BY DEF IInv
<1> QED
  BY InvariantHolds, <1>1, PTL

\* However the two stages match, age, hits and time_since_update of a track tell one story:
\* no frame counts as two hits, or as a hit and a miss.
THEOREM CountersTellOneStory == Spec => []CountersAgree
<1>1. IInv => CountersAgree
  BY DEF IInv
<1> QED
  BY InvariantHolds, <1>1, PTL

\* A frame updates or starts at least as many tracks as it has detections of at least
\* new_track_thresh, whether or not they are high detections and however they were matched.
THEOREM StrongDetectionsCount == Spec => []NoStrongDetectionLost
<1>1. IInv => NoStrongDetectionLost
  BY DEF IInv
<1> QED
  BY InvariantHolds, <1>1, PTL

\* A track that has been confirmed is returned by every update until the one that drops it.
THEOREM ConfirmedTracksStay == Spec => ConfirmedUntilMissed
<1> DEFINE Stay == running' /\ frameCount' > frameCount =>
                     \A t \in tracks : t.hits >= MinHits /\ t.id \notin returned' => t.tsu = MaxAge
<1>1. IInv /\ [Next]_vars => [Stay]_vars
  <2> SUFFICES ASSUME IInv, Next, running', frameCount' > frameCount,
                      NEW t \in tracks, t.hits >= MinHits, t.id \notin returned'
               PROVE  t.tsu = MaxAge
    OBVIOUS
  <2>1. PICK dets \in Frames : Update(dets)
    <3>1. ASSUME NEW dets \in Frames, UpdateRaises(dets)  PROVE FALSE
      BY <3>1 DEF UpdateRaises
    <3>2. ASSUME Reset  PROVE FALSE
      BY <3>2 DEF Reset, IInv, TypeOK
    <3> QED
      BY <3>1, <3>2 DEF Next
  <2>2. TypeOK /\ IsFiniteSet(tracks) /\ UniqueIds /\ running
    BY <2>1 DEF IInv, Update
  <2>3. t \in Tracks /\ t.tsu <= MaxAge
    BY <2>2 DEF TypeOK
  <2>4. PICK u \in Tracks : Follows(t, u) /\ (u.tsu <= MaxAge => u \in tracks')
    BY <2>1, <2>2, UpdateStep
  <2>5. /\ t.hits \in Nat /\ t.tsu \in Nat /\ MaxAge \in Nat /\ MinHits \in Nat
        /\ u.id = t.id
        /\ \/ u.hits = t.hits + 1 /\ u.tsu = 0
           \/ u.hits = t.hits /\ u.tsu = t.tsu + 1
    BY <2>3, <2>4, ThresholdsAssumption DEF Follows, Tracks
  <2>6. u \notin tracks'
    <3>1. u.hits >= MinHits
      BY <2>5
    <3>2. u \in tracks' => u.id \in returned'
      BY <2>1, <3>1 DEF Update, IsConfirmed
    <3> QED
      BY <2>5, <3>2
  <2> QED
    BY <2>3, <2>4, <2>5, <2>6
<1>2. Spec => [][Stay]_vars
  BY InvariantHolds, <1>1, PTL DEF Spec
<1> QED
  BY <1>2 DEF ConfirmedUntilMissed

\* The tracks that appear in a frame carry exactly the ids that the counter passed over: the
\* id of a track that was dropped never comes back.
THEOREM IdsAreFresh == Spec => FreshIdsOnly
<1> DEFINE Fresh == frameCount' > frameCount =>
                      {t.id : t \in tracks'} \ Ids = nextId .. (nextId' - 1)
<1>1. IInv /\ [Next]_vars => [Fresh]_vars
  <2> SUFFICES ASSUME IInv, Next, frameCount' > frameCount
               PROVE  {t.id : t \in tracks'} \ Ids = nextId .. (nextId' - 1)
    OBVIOUS
  <2>1. TypeOK /\ IsFiniteSet(tracks) /\ UniqueIds /\ nextId \in Nat \ {0} /\ tracks \subseteq Tracks
    BY DEF IInv, TypeOK
  <2>2. ASSUME NEW t \in tracks  PROVE t.id \in Nat /\ t.id < nextId
    BY <2>1 DEF UniqueIds, Tracks
  <2>3. CASE \E dets \in Frames : Update(dets)
    <3>1. /\ nextId' \in Nat
          /\ \A u \in tracks' : \/ \E o \in tracks : Follows(o, u)
                                \/ IsNew(u) /\ nextId <= u.id /\ u.id < nextId'
          /\ \A k \in nextId .. (nextId' - 1) : \E u \in tracks' : u.id = k
      BY <2>1, <2>3, UpdateStep
    <3>2. ASSUME NEW u \in tracks', u.id \notin Ids  PROVE u.id \in nextId .. (nextId' - 1)
      <4>1. ~ \E o \in tracks : Follows(o, u)
        BY <3>2 DEF Follows, Ids
      <4>2. u \in Tracks /\ nextId <= u.id /\ u.id < nextId'
        BY <3>1, <4>1 DEF IsNew
      <4>3. u.id \in Nat
        BY <4>2 DEF Tracks
      <4> QED
        BY <2>1, <3>1, <4>2, <4>3
    <3>3. ASSUME NEW k \in nextId .. (nextId' - 1)
          PROVE  k \in {t.id : t \in tracks'} /\ k \notin Ids
      <4>1. k \in Int /\ nextId <= k
        BY <2>1, <3>1
      <4> QED
        BY <2>1, <2>2, <3>1, <4>1 DEF Ids
    <3> QED
      BY <3>2, <3>3
  <2>4. CASE \E dets \in Frames : UpdateRaises(dets)
    <3>1. PICK dets \in Frames : UpdateRaises(dets)
      BY <2>4
    <3>2. nextId' = nextId
      BY <3>1 DEF UpdateRaises
    <3>3. \A u \in tracks' : u.id \in Ids
      BY <3>1, RaisesFacts DEF Ids
    <3>4. nextId .. (nextId' - 1) = {}
      BY <2>1, <3>2
    <3> QED
      BY <3>3, <3>4
  <2>5. CASE Reset
    BY <2>5 DEF Reset, IInv, TypeOK
  <2> QED
    BY <2>3, <2>4, <2>5 DEF Next
<1> QED
  BY InvariantHolds, <1>1, PTL DEF Spec, FreshIdsOnly
===============================================================================
