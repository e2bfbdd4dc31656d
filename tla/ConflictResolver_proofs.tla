------------------------ MODULE ConflictResolver_proofs ------------------------
(***************************************************************************)
(* Proofs about ConflictResolver, for any set of drones, of track ids and  *)
(* of orders in which the drones may be listed.                            *)
(***************************************************************************)
EXTENDS ConflictResolver, DataTheorems

-------------------------------------------------------------------------------
(* The ids that one call creates.                                          *)

LEMMA KeysFinite == IsFiniteSet(Keys)
BY KeysAssumption, FS_Product DEF Keys

\* New ids are one-to-one, not below the old counter and below the new one.
LEMMA NumberingFacts ==
  ASSUME TypeOK, NEW K \in SUBSET Keys, NEW f \in Numberings(K)
  PROVE  /\ DOMAIN f = NewKeys(K)
         /\ \A k \in DOMAIN f : f[k] \in Nat /\ nextGlobalId <= f[k] /\ f[k] < Advance(f)
         /\ \A k, l \in DOMAIN f : f[k] = f[l] => k = l
         /\ Advance(f) \in Nat /\ nextGlobalId <= Advance(f)
<1> DEFINE n == Cardinality(NewKeys(K))
<1>1. n \in Nat
  <2>1. IsFiniteSet(NewKeys(K))
    BY KeysFinite, FS_Subset DEF NewKeys
  <2> QED
    BY <2>1, FS_CardinalityType
<1>2. f \in [NewKeys(K) -> nextGlobalId .. (nextGlobalId + n - 1)] /\ IsInjective(f)
  BY DEF Numberings, Injection
<1>3. nextGlobalId \in Nat
  BY DEF TypeOK
<1>4. DOMAIN f = NewKeys(K)
  BY <1>2
<1>5. Advance(f) = nextGlobalId + n
  BY <1>4 DEF Advance
<1> HIDE DEF n
<1> QED
  BY <1>1, <1>2, <1>3, <1>4, <1>5 DEF IsInjective

\* The map with the new ids: every key looked up has an id, every key that had one keeps
\* it, no id reaches the new counter, and a new id is shared with no other key.
LEMMA WithIdsFacts ==
  ASSUME TypeOK, NEW K \in SUBSET Keys, NEW f \in Numberings(K)
  PROVE  /\ WithIds(f) \in [Keys -> Nat]
         /\ \A k \in Keys : WithIds(f)[k] < Advance(f)
         /\ \A k \in K : WithIds(f)[k] # NoId
         /\ \A k \in Keys : globalTrackMap[k] # NoId => WithIds(f)[k] = globalTrackMap[k]
         /\ \A k, l \in Keys :
              /\ globalTrackMap[k] = NoId
              /\ WithIds(f)[k] # NoId
              /\ WithIds(f)[k] = WithIds(f)[l]
              => k = l
<1>1. /\ DOMAIN f = NewKeys(K)
      /\ \A k \in DOMAIN f : f[k] \in Nat /\ nextGlobalId <= f[k] /\ f[k] < Advance(f)
      /\ \A k, l \in DOMAIN f : f[k] = f[l] => k = l
      /\ Advance(f) \in Nat /\ nextGlobalId <= Advance(f)
  BY NumberingFacts
<1>2. /\ nextGlobalId \in Nat \ {0}
      /\ globalTrackMap \in [Keys -> Nat]
      /\ \A k \in Keys : globalTrackMap[k] < nextGlobalId
  BY DEF TypeOK
<1>3. \A k \in Keys : WithIds(f)[k] = IF k \in NewKeys(K) THEN f[k] ELSE globalTrackMap[k]
  BY <1>1 DEF WithIds
<1>4. WithIds(f) \in [Keys -> Nat]
  BY <1>1, <1>2 DEF WithIds
<1>5. \A k \in K : k \notin NewKeys(K) => globalTrackMap[k] # NoId
  BY DEF NewKeys, IsNew
<1>6. \A k \in NewKeys(K) : k \in Keys /\ globalTrackMap[k] = NoId
  BY DEF NewKeys, IsNew
<1> QED
  BY <1>1, <1>2, <1>3, <1>4, <1>5, <1>6 DEF NoId

-------------------------------------------------------------------------------
(* The two branches of resolve, as the proofs use them.                    *)

\* What a call with at most one source does.
LEMMA ResolveOneStep ==
  ASSUME NEW order \in Orders, NEW tracks \in [Sources -> SUBSET LocalIds],
         ResolveOne(order, tracks)
  PROVE  \E K \in SUBSET Keys : \E f \in Numberings(K) :
           /\ globalTrackMap' = WithIds(f)
           /\ nextGlobalId' = Advance(f)
           /\ followers' = followers
           /\ presented' = K
           /\ result' = Singles(K, WithIds(f))
<1> DEFINE K == UNION {TracksOf(order[i], tracks) : i \in DOMAIN order}
<1>1. K \in SUBSET Keys
  <2> SUFFICES ASSUME NEW i \in DOMAIN order  PROVE TracksOf(order[i], tracks) \subseteq Keys
    OBVIOUS
  <2>1. order[i] \in Sources
    BY OrdersAssumption
  <2> QED
    BY <2>1 DEF TracksOf, Keys
<1>2. PICK f \in NewIds(K, [k \in K |-> 0]) :
        /\ globalTrackMap' = WithIds(f)
        /\ nextGlobalId' = Advance(f)
        /\ result' = Singles(K, WithIds(f))
  BY DEF ResolveOne
<1>3. f \in Numberings(K)
  BY DEF NewIds
<1>4. presented' = K /\ followers' = followers
  BY DEF ResolveOne
<1> QED
  BY <1>1, <1>2, <1>3, <1>4

\* What a call with two sources or more does, for some matching m of the first two.
LEMMA ResolvePairStep ==
  ASSUME NEW order \in Orders, NEW tracks \in [Sources -> SUBSET LocalIds],
         ResolvePair(order, tracks)
  PROVE  \E a, b \in Sources :
         \E m \in Matchings(tracks[b], tracks[a]) :
         \E f \in Numberings(LooksUp(a, b, m, tracks)) :
           /\ a # b
           /\ globalTrackMap' = TakeOverId(a, b, m, WithIds(f))
           /\ nextGlobalId' = Advance(f)
           /\ followers' = followers \cup {b}
           /\ presented' = TracksOf(a, tracks) \cup TracksOf(b, tracks)
           /\ result' = Answer(a, b, m, tracks, WithIds(f))
<1> DEFINE a == order[1]
           b == order[2]
<1>1. order \in Seq(Sources) /\ \A i, j \in DOMAIN order : order[i] = order[j] => i = j
  BY OrdersAssumption
<1>2. Len(order) \in Nat /\ Len(order) >= 2 /\ DOMAIN order = 1..Len(order)
  BY <1>1 DEF ResolvePair
<1>3. a \in Sources /\ b \in Sources /\ a # b
  <2>1. 1 \in DOMAIN order /\ 2 \in DOMAIN order
    BY <1>2
  <2>2. a \in Sources /\ b \in Sources
    BY <1>1, <1>2, <2>1
  <2> QED
    BY <1>1, <2>1, <2>2
<1>4. PICK m \in Matchings(tracks[b], tracks[a]) :
        \E f \in NewIds(LooksUp(a, b, m, tracks), Rank(a, m)) :
          /\ globalTrackMap' = TakeOverId(a, b, m, WithIds(f))
          /\ nextGlobalId' = Advance(f)
          /\ result' = Answer(a, b, m, tracks, WithIds(f))
  BY DEF ResolvePair
<1>5. PICK f \in NewIds(LooksUp(a, b, m, tracks), Rank(a, m)) :
        /\ globalTrackMap' = TakeOverId(a, b, m, WithIds(f))
        /\ nextGlobalId' = Advance(f)
        /\ result' = Answer(a, b, m, tracks, WithIds(f))
  BY <1>4
<1>6. f \in Numberings(LooksUp(a, b, m, tracks))
  BY DEF NewIds
<1>7. presented' = TracksOf(a, tracks) \cup TracksOf(b, tracks) /\ followers' = followers \cup {b}
  BY DEF ResolvePair
<1> QED
  BY <1>3, <1>5, <1>6, <1>7

\* The map after a merge: with the id of its partner for each matched track of b.
LEMMA TakeOverFacts ==
  ASSUME NEW a \in Sources, NEW b \in Sources, a # b,
         NEW tracks \in [Sources -> SUBSET LocalIds],
         NEW m \in Matchings(tracks[b], tracks[a]),
         NEW ids \in [Keys -> Nat]
  PROVE  /\ TakeOverId(a, b, m, ids) \in [Keys -> Nat]
         /\ \A k \in Keys \ Merged(b, m) : TakeOverId(a, b, m, ids)[k] = ids[k]
         /\ \A y \in DOMAIN m :
              /\ <<b, y>> \in Keys /\ <<a, m[y]>> \in Keys
              /\ <<b, y>> \in TracksOf(b, tracks) /\ <<a, m[y]>> \in TracksOf(a, tracks)
              /\ TakeOverId(a, b, m, ids)[<<b, y>>] = ids[<<a, m[y]>>]
              /\ TakeOverId(a, b, m, ids)[<<a, m[y]>>] = ids[<<a, m[y]>>]
         /\ Merged(b, m) \subseteq Keys /\ \A k \in Merged(b, m) : k[1] = b
         /\ LooksUp(a, b, m, tracks) \subseteq Keys
         /\ Unmatched(a, b, m, tracks) \subseteq LooksUp(a, b, m, tracks) \ Merged(b, m)
         /\ Partners(a, m) \subseteq LooksUp(a, b, m, tracks)
<1>1. /\ m \in [DOMAIN m -> tracks[a]]
      /\ DOMAIN m \subseteq tracks[b]
  BY MatchingIsInjective
<1>2. tracks[a] \subseteq LocalIds /\ tracks[b] \subseteq LocalIds
  OBVIOUS
<1>3. \A y \in DOMAIN m : y \in LocalIds /\ m[y] \in LocalIds /\ y \in tracks[b] /\ m[y] \in tracks[a]
  BY <1>1, <1>2
<1>4. \A y \in DOMAIN m : /\ <<b, y>> \in Keys /\ <<a, m[y]>> \in Keys
                         /\ <<b, y>> \in TracksOf(b, tracks) /\ <<a, m[y]>> \in TracksOf(a, tracks)
  BY <1>3 DEF Keys, TracksOf
<1>5. Merged(b, m) \subseteq Keys /\ \A k \in Merged(b, m) : k[1] = b
  <2> SUFFICES ASSUME NEW k \in Merged(b, m)  PROVE k \in Keys /\ k[1] = b
    OBVIOUS
  <2>1. PICK y \in DOMAIN m : k = <<b, y>>
    BY DEF Merged
  <2> QED
    BY <1>4, <2>1
<1>6. \A k \in Merged(b, m) : k[2] \in DOMAIN m /\ ids[<<a, m[k[2]]>>] \in Nat
  BY <1>4 DEF Merged
<1>7. TakeOverId(a, b, m, ids) \in [Keys -> Nat]
  BY <1>6 DEF TakeOverId
<1>8. \A k \in Keys \ Merged(b, m) : TakeOverId(a, b, m, ids)[k] = ids[k]
  BY DEF TakeOverId
<1>9. ASSUME NEW y \in DOMAIN m
      PROVE  /\ TakeOverId(a, b, m, ids)[<<b, y>>] = ids[<<a, m[y]>>]
             /\ TakeOverId(a, b, m, ids)[<<a, m[y]>>] = ids[<<a, m[y]>>]
  <2>1. <<b, y>> \in Merged(b, m) /\ <<b, y>> \in Keys /\ <<b, y>>[2] = y
    BY <1>4 DEF Merged
  <2>2. <<a, m[y]>> \in Keys /\ <<a, m[y]>> \notin Merged(b, m)
    BY <1>4 DEF Merged
  <2>3. TakeOverId(a, b, m, ids)[<<b, y>>] = ids[<<a, m[y]>>]
    BY <2>1 DEF TakeOverId
  <2> QED
    BY <2>2, <2>3, <1>8
<1>10. TracksOf(a, tracks) \subseteq Keys /\ TracksOf(b, tracks) \subseteq Keys
  BY <1>2 DEF TracksOf, Keys
<1>11. LooksUp(a, b, m, tracks) \subseteq Keys
  BY <1>10 DEF LooksUp, Unmatched
<1>12. Unmatched(a, b, m, tracks) \subseteq LooksUp(a, b, m, tracks) \ Merged(b, m)
  BY <1>5 DEF LooksUp, Unmatched, TracksOf
<1>13. Partners(a, m) \subseteq LooksUp(a, b, m, tracks)
  BY <1>4 DEF LooksUp, Partners
<1> QED
  BY <1>4, <1>5, <1>7, <1>8, <1>9, <1>11, <1>12, <1>13

-------------------------------------------------------------------------------
(* The invariants.                                                         *)

\* The induction needs that no id in use reaches the counter: only then is an id that
\* is created different from all others, and it is known where each answer's ids are.
IInv == TypeOK /\ LeaderIdsDistinct /\ ResultAgreesWithMap

\* Before the first call nothing has an id.
LEMMA InitIInv == Init => IInv
BY DEF Init, IInv, TypeOK, LeaderIdsDistinct, ResultAgreesWithMap, NoId, Keys

\* Entries are built from a gid and a set of keys.
LEMMA EntryFacts ==
  ASSUME NEW gid \in Nat \ {0}, NEW M \in SUBSET Keys
  PROVE  Entry(gid, M) \in Entries /\ Entry(gid, M).gid = gid /\ Entry(gid, M).members = M
BY DEF Entry, Entries

\* A call with at most one source keeps the invariants: it only creates ids.
LEMMA ResolveOnePreserves ==
  ASSUME IInv, NEW order \in Orders, NEW tracks \in [Sources -> SUBSET LocalIds],
         ResolveOne(order, tracks)
  PROVE  IInv'
<1>0. PICK K \in SUBSET Keys : \E f \in Numberings(K) :
        /\ globalTrackMap' = WithIds(f)
        /\ nextGlobalId' = Advance(f)
        /\ followers' = followers
        /\ presented' = K
        /\ result' = Singles(K, WithIds(f))
  BY ResolveOneStep
<1>1. PICK f \in Numberings(K) :
        /\ globalTrackMap' = WithIds(f)
        /\ nextGlobalId' = Advance(f)
        /\ followers' = followers
        /\ presented' = K
        /\ result' = Singles(K, WithIds(f))
  BY <1>0
<1>2. TypeOK /\ LeaderIdsDistinct
  BY DEF IInv
<1>3. /\ WithIds(f) \in [Keys -> Nat]
      /\ \A k \in Keys : WithIds(f)[k] < Advance(f)
      /\ \A k \in K : WithIds(f)[k] # NoId
      /\ \A k \in Keys : globalTrackMap[k] # NoId => WithIds(f)[k] = globalTrackMap[k]
      /\ \A k, l \in Keys : /\ globalTrackMap[k] = NoId
                            /\ WithIds(f)[k] # NoId
                            /\ WithIds(f)[k] = WithIds(f)[l]
                            => k = l
  BY <1>2, WithIdsFacts
<1>4. Advance(f) \in Nat \ {0}
  BY <1>2, NumberingFacts DEF TypeOK
<1>5. \A k \in K : /\ Entry(WithIds(f)[k], {k}) \in Entries
                   /\ Entry(WithIds(f)[k], {k}).gid = WithIds(f)[k]
                   /\ Entry(WithIds(f)[k], {k}).members = {k}
  BY <1>3, EntryFacts DEF NoId
<1>6. ASSUME NEW e \in result'
      PROVE  \E k \in K : e = Entry(WithIds(f)[k], {k})
  BY <1>1 DEF Singles
<1>7. TypeOK'
  <2>1. result' \subseteq Entries
    BY <1>5, <1>6
  <2>2. nextGlobalId' \in Nat \ {0} /\ globalTrackMap' \in [Keys -> 0 .. (nextGlobalId' - 1)]
    BY <1>1, <1>3, <1>4
  <2> QED
    BY <1>1, <1>2, <2>1, <2>2 DEF TypeOK
<1>9. LeaderIdsDistinct'
  <2> SUFFICES ASSUME NEW s \in Sources \ followers, NEW x \in LocalIds, NEW y \in LocalIds,
                      WithIds(f)[<<s, x>>] = WithIds(f)[<<s, y>>],
                      WithIds(f)[<<s, x>>] # NoId
               PROVE  x = y
    BY <1>1 DEF LeaderIdsDistinct
  <2>1. <<s, x>> \in Keys /\ <<s, y>> \in Keys
    BY DEF Keys
  <2>2. CASE globalTrackMap[<<s, x>>] = NoId
    BY <2>1, <2>2, <1>3
  <2>3. CASE globalTrackMap[<<s, y>>] = NoId
    BY <2>1, <2>3, <1>3
  <2>4. CASE globalTrackMap[<<s, x>>] # NoId /\ globalTrackMap[<<s, y>>] # NoId
    BY <2>1, <2>4, <1>2, <1>3 DEF LeaderIdsDistinct
  <2> QED
    BY <2>2, <2>3, <2>4
<1>10. ResultAgreesWithMap'
  <2> SUFFICES ASSUME NEW e \in result', NEW k \in e.members
               PROVE  WithIds(f)[k] = e.gid
    BY <1>1 DEF ResultAgreesWithMap
  <2>1. PICK l \in K : e = Entry(WithIds(f)[l], {l})
    BY <1>6
  <2>2. e.members = {l} /\ e.gid = WithIds(f)[l]
    BY <1>5, <2>1
  <2> QED
    BY <2>2
<1> QED
  BY <1>7, <1>9, <1>10 DEF IInv

\* What every entry of an answer to two sources is: a pair or a single track.
LEMMA AnswerFacts ==
  ASSUME NEW a \in Sources, NEW b \in Sources, a # b,
         NEW tracks \in [Sources -> SUBSET LocalIds],
         NEW m \in Matchings(tracks[b], tracks[a]),
         NEW ids \in [Keys -> Nat],
         \A k \in LooksUp(a, b, m, tracks) : ids[k] # NoId
  PROVE  \A e \in Answer(a, b, m, tracks, ids) :
           /\ e \in Entries
           /\ \/ \E y \in DOMAIN m : e.gid = ids[<<a, m[y]>>]
                                   /\ e.members = {<<a, m[y]>>, <<b, y>>}
              \/ \E k \in Unmatched(a, b, m, tracks) : e.gid = ids[k] /\ e.members = {k}
<1>1. ASSUME NEW y \in DOMAIN m
      PROVE  /\ ids[<<a, m[y]>>] \in Nat \ {0}
             /\ {<<a, m[y]>>, <<b, y>>} \in SUBSET Keys
  BY TakeOverFacts DEF NoId, Partners
<1>2. ASSUME NEW k \in Unmatched(a, b, m, tracks)
      PROVE  ids[k] \in Nat \ {0} /\ {k} \in SUBSET Keys
  BY TakeOverFacts DEF NoId
<1> SUFFICES ASSUME NEW e \in Answer(a, b, m, tracks, ids)
             PROVE  /\ e \in Entries
                    /\ \/ \E y \in DOMAIN m : e.gid = ids[<<a, m[y]>>]
                                            /\ e.members = {<<a, m[y]>>, <<b, y>>}
                       \/ \E k \in Unmatched(a, b, m, tracks) : e.gid = ids[k] /\ e.members = {k}
  OBVIOUS
<1>3. \/ \E y \in DOMAIN m : e = Entry(ids[<<a, m[y]>>], {<<a, m[y]>>, <<b, y>>})
      \/ \E k \in Unmatched(a, b, m, tracks) : e = Entry(ids[k], {k})
  BY DEF Answer, Singles
<1>4. CASE \E y \in DOMAIN m : e = Entry(ids[<<a, m[y]>>], {<<a, m[y]>>, <<b, y>>})
  <2>1. PICK y \in DOMAIN m : e = Entry(ids[<<a, m[y]>>], {<<a, m[y]>>, <<b, y>>})
    BY <1>4
  <2> DEFINE gid == ids[<<a, m[y]>>]
             M == {<<a, m[y]>>, <<b, y>>}
  <2>2. gid \in Nat \ {0} /\ M \in SUBSET Keys
    BY <1>1
  <2>3. e \in Entries /\ e.gid = gid /\ e.members = M
    <3> HIDE DEF gid, M
    <3> QED
      BY <2>1, <2>2, EntryFacts DEF gid, M
  <2> QED
    BY <2>3
<1>5. CASE \E k \in Unmatched(a, b, m, tracks) : e = Entry(ids[k], {k})
  <2>1. PICK k \in Unmatched(a, b, m, tracks) : e = Entry(ids[k], {k})
    BY <1>5
  <2> QED
    BY <1>2, <2>1, EntryFacts
<1> QED
  BY <1>3, <1>4, <1>5

\* A call with two sources keeps the invariants.  No key of the second source stays
\* distinct of necessity, which is why it counts among the followers from now on.
LEMMA ResolvePairPreserves ==
  ASSUME IInv, NEW order \in Orders, NEW tracks \in [Sources -> SUBSET LocalIds],
         ResolvePair(order, tracks)
  PROVE  IInv'
<1>1. PICK a \in Sources, b \in Sources : \E m \in Matchings(tracks[b], tracks[a]) :
        \E f \in Numberings(LooksUp(a, b, m, tracks)) :
          /\ a # b
          /\ globalTrackMap' = TakeOverId(a, b, m, WithIds(f))
          /\ nextGlobalId' = Advance(f)
          /\ followers' = followers \cup {b}
          /\ presented' = TracksOf(a, tracks) \cup TracksOf(b, tracks)
          /\ result' = Answer(a, b, m, tracks, WithIds(f))
  BY ResolvePairStep
<1>2. PICK m \in Matchings(tracks[b], tracks[a]) :
        \E f \in Numberings(LooksUp(a, b, m, tracks)) :
          /\ a # b
          /\ globalTrackMap' = TakeOverId(a, b, m, WithIds(f))
          /\ nextGlobalId' = Advance(f)
          /\ followers' = followers \cup {b}
          /\ presented' = TracksOf(a, tracks) \cup TracksOf(b, tracks)
          /\ result' = Answer(a, b, m, tracks, WithIds(f))
  BY <1>1
<1> DEFINE K == LooksUp(a, b, m, tracks)
<1>3. PICK f \in Numberings(K) :
        /\ a # b
        /\ globalTrackMap' = TakeOverId(a, b, m, WithIds(f))
        /\ nextGlobalId' = Advance(f)
        /\ followers' = followers \cup {b}
        /\ presented' = TracksOf(a, tracks) \cup TracksOf(b, tracks)
        /\ result' = Answer(a, b, m, tracks, WithIds(f))
  BY <1>2
<1> DEFINE ids == WithIds(f)
           after == TakeOverId(a, b, m, ids)
<1>4. TypeOK /\ LeaderIdsDistinct
  BY DEF IInv
<1>5. K \in SUBSET Keys
  <2>1. TracksOf(a, tracks) \subseteq Keys /\ TracksOf(b, tracks) \subseteq Keys
    BY DEF TracksOf, Keys
  <2> QED
    BY <2>1 DEF LooksUp, Unmatched
<1>6. /\ ids \in [Keys -> Nat]
      /\ \A k \in Keys : ids[k] < Advance(f)
      /\ \A k \in K : ids[k] # NoId
      /\ \A k \in Keys : globalTrackMap[k] # NoId => ids[k] = globalTrackMap[k]
      /\ \A k, l \in Keys :
           globalTrackMap[k] = NoId /\ ids[k] # NoId /\ ids[k] = ids[l] => k = l
  <2> HIDE DEF K
  <2> QED
    BY <1>4, <1>5, WithIdsFacts
<1>7. Advance(f) \in Nat \ {0}
  <2> HIDE DEF K
  <2> QED
    BY <1>4, <1>5, NumberingFacts DEF TypeOK
<1> HIDE DEF ids
<1>8. /\ after \in [Keys -> Nat]
      /\ \A k \in Keys \ Merged(b, m) : after[k] = ids[k]
      /\ \A y \in DOMAIN m :
           /\ <<b, y>> \in Keys /\ <<a, m[y]>> \in Keys
           /\ <<b, y>> \in TracksOf(b, tracks) /\ <<a, m[y]>> \in TracksOf(a, tracks)
           /\ after[<<b, y>>] = ids[<<a, m[y]>>]
           /\ after[<<a, m[y]>>] = ids[<<a, m[y]>>]
      /\ Merged(b, m) \subseteq Keys /\ \A k \in Merged(b, m) : k[1] = b
      /\ Unmatched(a, b, m, tracks) \subseteq K \ Merged(b, m)
  BY <1>3, <1>6, TakeOverFacts
<1>9. \A e \in result' :
        /\ e \in Entries
        /\ \/ \E y \in DOMAIN m : e.gid = ids[<<a, m[y]>>]
                                /\ e.members = {<<a, m[y]>>, <<b, y>>}
           \/ \E k \in Unmatched(a, b, m, tracks) : e.gid = ids[k] /\ e.members = {k}
  <2>1. \A k \in LooksUp(a, b, m, tracks) : ids[k] # NoId
    BY <1>6
  <2>2. result' = Answer(a, b, m, tracks, ids)
    BY <1>3 DEF ids
  <2>3. a # b /\ ids \in [Keys -> Nat]
    BY <1>3, <1>6
  <2>4. \A e \in Answer(a, b, m, tracks, ids) :
          /\ e \in Entries
          /\ \/ \E y \in DOMAIN m : e.gid = ids[<<a, m[y]>>]
                                  /\ e.members = {<<a, m[y]>>, <<b, y>>}
             \/ \E k \in Unmatched(a, b, m, tracks) : e.gid = ids[k] /\ e.members = {k}
    <3> HIDE DEF K, after
    <3> QED
      BY <2>1, <2>3, AnswerFacts
  <2> QED
    BY <2>2, <2>4
<1>10. globalTrackMap' = after
  BY <1>3 DEF ids
<1> HIDE DEF after
<1>11. TypeOK'
  <2>1. presented' \subseteq Keys
    BY <1>3 DEF TracksOf, Keys
  <2>2. result' \subseteq Entries
    BY <1>9
  <2>3. ASSUME NEW k \in Keys  PROVE after[k] < Advance(f)
    <3>1. CASE k \in Merged(b, m)
      <4>1. PICK y \in DOMAIN m : k = <<b, y>>
        BY <3>1 DEF Merged
      <4> QED
        BY <1>6, <1>8, <4>1
    <3>2. CASE k \notin Merged(b, m)
      BY <1>6, <1>8, <3>2
    <3> QED
      BY <3>1, <3>2
  <2>4. nextGlobalId' \in Nat \ {0} /\ globalTrackMap' \in [Keys -> 0 .. (nextGlobalId' - 1)]
    BY <1>3, <1>7, <1>8, <1>10, <2>3
  <2> QED
    BY <1>3, <1>4, <2>1, <2>2, <2>4 DEF TypeOK
<1>13. LeaderIdsDistinct'
  <2> SUFFICES ASSUME NEW s \in Sources \ followers', NEW x \in LocalIds, NEW y \in LocalIds,
                      after[<<s, x>>] = after[<<s, y>>], after[<<s, x>>] # NoId
               PROVE  x = y
    BY <1>10 DEF LeaderIdsDistinct
  <2>1. s \in Sources \ followers /\ s # b
    BY <1>3
  <2>2. <<s, x>> \in Keys \ Merged(b, m) /\ <<s, y>> \in Keys \ Merged(b, m)
    BY <1>8, <2>1 DEF Keys
  <2>3. ids[<<s, x>>] = ids[<<s, y>>] /\ ids[<<s, x>>] # NoId
    BY <1>8, <2>2
  <2>4. CASE globalTrackMap[<<s, x>>] = NoId
    BY <1>6, <2>2, <2>3, <2>4
  <2>5. CASE globalTrackMap[<<s, y>>] = NoId
    BY <1>6, <2>2, <2>3, <2>5
  <2>6. CASE globalTrackMap[<<s, x>>] # NoId /\ globalTrackMap[<<s, y>>] # NoId
    BY <1>4, <1>6, <2>1, <2>2, <2>3, <2>6 DEF LeaderIdsDistinct
  <2> QED
    BY <2>4, <2>5, <2>6
<1>14. ResultAgreesWithMap'
  <2> SUFFICES ASSUME NEW e \in result', NEW k \in e.members  PROVE after[k] = e.gid
    BY <1>10 DEF ResultAgreesWithMap
  <2>1. CASE \E y \in DOMAIN m : e.gid = ids[<<a, m[y]>>]
                               /\ e.members = {<<a, m[y]>>, <<b, y>>}
    BY <1>8, <2>1
  <2>2. CASE \E l \in Unmatched(a, b, m, tracks) : e.gid = ids[l] /\ e.members = {l}
    BY <1>5, <1>8, <2>2
  <2> QED
    BY <1>9, <2>1, <2>2
<1> QED
  BY <1>11, <1>13, <1>14 DEF IInv

\* So does every step, a reset or a stutter included.
LEMMA NextIInv ==
  ASSUME IInv, [Next]_vars
  PROVE  IInv'
<1>1. ASSUME NEW order \in Orders, NEW tracks \in [Sources -> SUBSET LocalIds],
             Resolve(order, tracks)
      PROVE  IInv'
  BY <1>1, ResolveOnePreserves, ResolvePairPreserves DEF Resolve
<1>2. CASE Reset
  BY <1>2 DEF Reset, IInv, TypeOK, LeaderIdsDistinct, ResultAgreesWithMap, NoId, Keys
<1>3. CASE UNCHANGED vars
  BY <1>3 DEF vars, IInv, TypeOK, LeaderIdsDistinct, ResultAgreesWithMap
<1> QED
  BY <1>1, <1>2, <1>3 DEF Next

\* Hence they hold in every state that calls of resolve and reset lead to.
LEMMA InductiveInvariant == Spec => []IInv
BY InitIInv, NextIInv, PTL DEF Spec

\* Whatever resolve and reset are called with, the resolver's variables keep their types,
\* and _get_or_create_global_id never hands out an id that is in use.
THEOREM TypeCorrect == Spec => []TypeOK
<1>1. IInv => TypeOK
  BY DEF IInv
<1> QED
  BY <1>1, InductiveInvariant, PTL

\* A drone whose tracks never took over an id has distinct ids for its tracks.
THEOREM LeadersStayDistinct == Spec => []LeaderIdsDistinct
<1>1. IInv => LeaderIdsDistinct
  BY DEF IInv
<1> QED
  BY <1>1, InductiveInvariant, PTL

\* The answer of resolve is what later calls remember.
THEOREM AnswerIsRemembered == Spec => []ResultAgreesWithMap
<1>1. IInv => ResultAgreesWithMap
  BY DEF IInv
<1> QED
  BY <1>1, InductiveInvariant, PTL

-------------------------------------------------------------------------------
(* No track is lost, and identities change only by a merge.                *)

\* The answer to one source: one entry for each track.
LEMMA SinglesPartition ==
  ASSUME NEW K \in SUBSET Keys, NEW ids \in [Keys -> Nat]
  PROVE  /\ UNION {e.members : e \in Singles(K, ids)} = K
         /\ \A d, e \in Singles(K, ids) : d.members \cap e.members # {} => d = e
<1> DEFINE R == Singles(K, ids)
           Single(k) == Entry(ids[k], {k})
<1>1. \A k \in K : Single(k) \in R /\ Single(k).members = {k}
  BY DEF Entry, Singles
<1>2. \A e \in R : \E k \in K : e = Single(k)
  BY DEF Singles
<1> HIDE DEF R, Single
<1>3. \A e \in R : \E k \in K : e = Single(k) /\ e.members = {k}
  BY <1>1, <1>2
<1>4. ASSUME NEW d \in R, NEW e \in R, d.members \cap e.members # {}
      PROVE  d = e
  <2>1. PICK k \in K : d = Single(k) /\ d.members = {k}
    BY <1>3
  <2>2. PICK l \in K : e = Single(l) /\ e.members = {l}
    BY <1>3
  <2> QED
    BY <1>4, <2>1, <2>2
<1>5. ASSUME NEW k \in UNION {e.members : e \in R}
      PROVE  k \in K
  <2>1. PICK e \in R : k \in e.members
    BY <1>5
  <2> QED
    BY <1>3, <2>1
<1>6. ASSUME NEW k \in K
      PROVE  k \in UNION {e.members : e \in R}
  BY <1>1
<1> QED
  BY <1>4, <1>5, <1>6 DEF R

\* The answer to two sources: every track of either is in one entry.  This is where it
\* matters that a matching is one-to-one.
LEMMA AnswerPartitions ==
  ASSUME NEW a \in Sources, NEW b \in Sources, a # b,
         NEW tracks \in [Sources -> SUBSET LocalIds],
         NEW m \in Matchings(tracks[b], tracks[a]),
         NEW ids \in [Keys -> Nat]
  PROVE  /\ UNION {e.members : e \in Answer(a, b, m, tracks, ids)}
              = TracksOf(a, tracks) \cup TracksOf(b, tracks)
         /\ \A d, e \in Answer(a, b, m, tracks, ids) : d.members \cap e.members # {} => d = e
<1> DEFINE R == Answer(a, b, m, tracks, ids)
           Pair(y) == Entry(ids[<<a, m[y]>>], {<<a, m[y]>>, <<b, y>>})
           Single(k) == Entry(ids[k], {k})
           U == Unmatched(a, b, m, tracks)
<1>1. /\ DOMAIN m \subseteq tracks[b]
      /\ m \in [DOMAIN m -> tracks[a]]
      /\ \A x, y \in DOMAIN m : m[x] = m[y] => x = y
  BY MatchingIsInjective
<1>2. \A y \in DOMAIN m : Pair(y) \in R /\ Pair(y).members = {<<a, m[y]>>, <<b, y>>}
  BY DEF Answer, Entry
<1>3. \A k \in U : Single(k) \in R /\ Single(k).members = {k}
  BY DEF Answer, Entry, Singles
<1>4. \A e \in R : (\E y \in DOMAIN m : e = Pair(y)) \/ (\E k \in U : e = Single(k))
  BY DEF Answer, Singles
<1> HIDE DEF R, Pair, Single
<1>5. \A k \in U : /\ k \in TracksOf(a, tracks) \cup TracksOf(b, tracks)
                   /\ k \notin Partners(a, m) /\ k \notin Merged(b, m)
  BY DEF Unmatched, TracksOf, Partners, Merged
<1>6. \A y \in DOMAIN m : /\ <<a, m[y]>> \in TracksOf(a, tracks) /\ <<a, m[y]>> \in Partners(a, m)
                         /\ <<b, y>> \in TracksOf(b, tracks) /\ <<b, y>> \in Merged(b, m)
  BY <1>1 DEF TracksOf, Partners, Merged
<1>7. ASSUME NEW k \in TracksOf(a, tracks) \cup TracksOf(b, tracks)
      PROVE  \E e \in R : k \in e.members
  <2>1. CASE k \in U
    BY <1>3, <2>1
  <2>2. CASE \E y \in DOMAIN m : k = <<a, m[y]>> \/ k = <<b, y>>
    BY <1>2, <2>2
  <2>3. k \in U \/ \E y \in DOMAIN m : k = <<a, m[y]>> \/ k = <<b, y>>
    BY DEF Unmatched, Partners, Merged
  <2> QED
    BY <2>1, <2>2, <2>3
<1>8. ASSUME NEW e \in R, NEW k \in e.members
      PROVE  k \in TracksOf(a, tracks) \cup TracksOf(b, tracks)
  <2>1. CASE \E y \in DOMAIN m : e = Pair(y)
    <3>1. PICK y \in DOMAIN m : k \in {<<a, m[y]>>, <<b, y>>}
      BY <1>2, <2>1
    <3> QED
      BY <1>6, <3>1
  <2>2. CASE \E l \in U : e = Single(l)
    <3>1. k \in U
      BY <1>3, <2>2
    <3> QED
      BY <1>5, <3>1
  <2> QED
    BY <1>4, <2>1, <2>2
<1>9. ASSUME NEW d \in R, NEW e \in R, NEW k \in d.members \cap e.members
      PROVE  d = e
  <2>1. CASE k \in U
    <3>1. \A y \in DOMAIN m : k \notin Pair(y).members
      BY <1>2, <1>5, <1>6, <2>1
    <3> QED
      BY <1>3, <1>4, <3>1
  <2>2. CASE k \notin U
    <3>1. PICK x \in DOMAIN m, y \in DOMAIN m : d = Pair(x) /\ e = Pair(y)
      BY <1>3, <1>4, <2>2
    <3>2. k \in {<<a, m[x]>>, <<b, x>>} /\ k \in {<<a, m[y]>>, <<b, y>>}
      BY <1>2, <3>1
    <3>3. m[x] = m[y] \/ x = y
      BY <3>2
    <3>4. x = y
      BY <1>1, <3>3
    <3> QED
      BY <3>1, <3>4
  <2> QED
    BY <2>1, <2>2
<1> HIDE DEF U
<1>10. UNION {e.members : e \in R} = TracksOf(a, tracks) \cup TracksOf(b, tracks)
  BY <1>7, <1>8
<1> QED
  BY <1>9, <1>10 DEF R

\* So every call of resolve leaves a partition of the tracks it looks at.
LEMMA ResolvePartitions ==
  ASSUME IInv, NEW order \in Orders, NEW tracks \in [Sources -> SUBSET LocalIds],
         Resolve(order, tracks)
  PROVE  EveryTrackInOneEntry'
<1>1. TypeOK
  BY DEF IInv
<1>2. CASE ResolveOne(order, tracks)
  <2>1. PICK K \in SUBSET Keys : \E f \in Numberings(K) :
          presented' = K /\ result' = Singles(K, WithIds(f))
    BY <1>2, ResolveOneStep
  <2>2. PICK f \in Numberings(K) :
          presented' = K /\ result' = Singles(K, WithIds(f))
    BY <2>1
  <2>3. WithIds(f) \in [Keys -> Nat]
    BY <1>1, WithIdsFacts
  <2>4. /\ UNION {e.members : e \in Singles(K, WithIds(f))} = K
        /\ \A d, e \in Singles(K, WithIds(f)) : d.members \cap e.members # {} => d = e
    BY <2>3, SinglesPartition
  <2> QED
    BY <2>2, <2>4 DEF EveryTrackInOneEntry
<1>3. CASE ResolvePair(order, tracks)
  <2>1. PICK a \in Sources, b \in Sources : \E m \in Matchings(tracks[b], tracks[a]) :
          \E f \in Numberings(LooksUp(a, b, m, tracks)) :
            /\ a # b
            /\ presented' = TracksOf(a, tracks) \cup TracksOf(b, tracks)
            /\ result' = Answer(a, b, m, tracks, WithIds(f))
    BY <1>3, ResolvePairStep
  <2>2. PICK m \in Matchings(tracks[b], tracks[a]) :
          \E f \in Numberings(LooksUp(a, b, m, tracks)) :
            /\ a # b
            /\ presented' = TracksOf(a, tracks) \cup TracksOf(b, tracks)
            /\ result' = Answer(a, b, m, tracks, WithIds(f))
    BY <2>1
  <2>3. PICK f \in Numberings(LooksUp(a, b, m, tracks)) :
            /\ a # b
            /\ presented' = TracksOf(a, tracks) \cup TracksOf(b, tracks)
            /\ result' = Answer(a, b, m, tracks, WithIds(f))
    BY <2>2
  <2>4. LooksUp(a, b, m, tracks) \in SUBSET Keys
    BY <2>3 DEF LooksUp, Unmatched, TracksOf, Keys
  <2>5. WithIds(f) \in [Keys -> Nat]
    BY <1>1, <2>4, WithIdsFacts
  <2>6. a # b
    BY <2>3
  <2>7. /\ UNION {e.members : e \in Answer(a, b, m, tracks, WithIds(f))}
             = TracksOf(a, tracks) \cup TracksOf(b, tracks)
        /\ \A d, e \in Answer(a, b, m, tracks, WithIds(f)) :
             d.members \cap e.members # {} => d = e
    BY <2>5, <2>6, AnswerPartitions
  <2> QED
    BY <2>3, <2>7 DEF EveryTrackInOneEntry
<1> QED
  BY <1>2, <1>3 DEF Resolve

\* Whatever the association and the order of the sources, every track that resolve looks
\* at is in exactly one of the global tracks it answers with.
THEOREM TracksArePartitioned == Spec => []EveryTrackInOneEntry
<1>1. Init => EveryTrackInOneEntry
  BY DEF Init, EveryTrackInOneEntry
<1>2. IInv /\ EveryTrackInOneEntry /\ [Next]_vars => EveryTrackInOneEntry'
  <2> SUFFICES ASSUME IInv, EveryTrackInOneEntry, [Next]_vars  PROVE EveryTrackInOneEntry'
    OBVIOUS
  <2>1. ASSUME NEW order \in Orders, NEW tracks \in [Sources -> SUBSET LocalIds],
               Resolve(order, tracks)
        PROVE  EveryTrackInOneEntry'
    BY <2>1, ResolvePartitions
  <2>2. CASE Reset
    BY <2>2 DEF Reset, EveryTrackInOneEntry
  <2>3. CASE UNCHANGED vars
    BY <2>3 DEF vars, EveryTrackInOneEntry
  <2> QED
    BY <2>1, <2>2, <2>3 DEF Next
<1> QED
  BY <1>1, <1>2, InductiveInvariant, PTL DEF Spec

\* What IdentityChangesOnlyByMerge says of a step.
IsByMerge ==
  globalTrackMap' = [k \in Keys |-> NoId] \/
  \A k \in Keys :
    globalTrackMap[k] \notin {NoId, globalTrackMap'[k]} =>
      \E e \in result' :
        /\ k \in e.members /\ e.gid = globalTrackMap'[k]
        /\ \E l \in e.members : l[1] # k[1]

\* A call with at most one source changes no id there is; one with two sources changes
\* those of the second tracks of pairs, and these pairs are in the answer.
LEMMA ResolveIsByMerge ==
  ASSUME IInv, NEW order \in Orders, NEW tracks \in [Sources -> SUBSET LocalIds],
         Resolve(order, tracks)
  PROVE  IsByMerge
<1>1. TypeOK
  BY DEF IInv
<1>2. CASE ResolveOne(order, tracks)
  <2>1. PICK K \in SUBSET Keys : \E f \in Numberings(K) : globalTrackMap' = WithIds(f)
    BY <1>2, ResolveOneStep
  <2>2. PICK f \in Numberings(K) : globalTrackMap' = WithIds(f)
    BY <2>1
  <2>3. \A k \in Keys : globalTrackMap[k] # NoId => WithIds(f)[k] = globalTrackMap[k]
    BY <1>1, WithIdsFacts
  <2> QED
    BY <2>2, <2>3 DEF IsByMerge
<1>3. CASE ResolvePair(order, tracks)
  <2>1. PICK a \in Sources, b \in Sources : \E m \in Matchings(tracks[b], tracks[a]) :
          \E f \in Numberings(LooksUp(a, b, m, tracks)) :
            /\ a # b
            /\ globalTrackMap' = TakeOverId(a, b, m, WithIds(f))
            /\ result' = Answer(a, b, m, tracks, WithIds(f))
    BY <1>3, ResolvePairStep
  <2>2. PICK m \in Matchings(tracks[b], tracks[a]) :
          \E f \in Numberings(LooksUp(a, b, m, tracks)) :
            /\ a # b
            /\ globalTrackMap' = TakeOverId(a, b, m, WithIds(f))
            /\ result' = Answer(a, b, m, tracks, WithIds(f))
    BY <2>1
  <2>3. PICK f \in Numberings(LooksUp(a, b, m, tracks)) :
            /\ a # b
            /\ globalTrackMap' = TakeOverId(a, b, m, WithIds(f))
            /\ result' = Answer(a, b, m, tracks, WithIds(f))
    BY <2>2
  <2> DEFINE ids == WithIds(f)
             after == TakeOverId(a, b, m, ids)
  <2>4. LooksUp(a, b, m, tracks) \in SUBSET Keys
    BY <2>3 DEF LooksUp, Unmatched, TracksOf, Keys
  <2>5. /\ ids \in [Keys -> Nat]
        /\ \A k \in Keys : globalTrackMap[k] # NoId => ids[k] = globalTrackMap[k]
    BY <1>1, <2>4, WithIdsFacts
  <2> HIDE DEF ids
  <2>6. a # b
    BY <2>3
  <2>7. /\ \A k \in Keys \ Merged(b, m) : after[k] = ids[k]
        /\ \A y \in DOMAIN m : after[<<b, y>>] = ids[<<a, m[y]>>]
    BY <2>5, <2>6, TakeOverFacts
  <2> HIDE DEF after
  <2>8. globalTrackMap' = after /\ result' = Answer(a, b, m, tracks, ids)
    BY <2>3 DEF after, ids
  <2> SUFFICES ASSUME NEW k \in Keys, globalTrackMap[k] # NoId, globalTrackMap[k] # after[k]
               PROVE  \E e \in result' :
                        /\ k \in e.members /\ e.gid = after[k]
                        /\ \E l \in e.members : l[1] # k[1]
    BY <2>8 DEF IsByMerge
  <2>9. k \in Merged(b, m)
    BY <2>5, <2>7
  <2>10. PICK y \in DOMAIN m : k = <<b, y>>
    BY <2>9 DEF Merged
  <2> DEFINE e == Entry(ids[<<a, m[y]>>], {<<a, m[y]>>, <<b, y>>})
  <2>11. e \in result'
    BY <2>8 DEF Answer
  <2>12. e.members = {<<a, m[y]>>, <<b, y>>} /\ e.gid = after[k]
    BY <2>7, <2>10 DEF Entry
  <2>13. k \in e.members /\ <<a, m[y]>> \in e.members /\ <<a, m[y]>>[1] # k[1]
    BY <2>6, <2>10, <2>12
  <2> QED
    BY <2>11, <2>12, <2>13
<1> QED
  BY <1>2, <1>3 DEF Resolve

\* A track that has a global id loses it only to a partner's, in the call that reports
\* the two as one, or by a reset.
THEOREM IdentitiesLast == Spec => IdentityChangesOnlyByMerge
<1>1. IInv /\ [Next]_vars => [IsByMerge]_vars
  <2> SUFFICES ASSUME IInv, [Next]_vars  PROVE [IsByMerge]_vars
    OBVIOUS
  <2>1. ASSUME NEW order \in Orders, NEW tracks \in [Sources -> SUBSET LocalIds],
               Resolve(order, tracks)
        PROVE  IsByMerge
    BY <2>1, ResolveIsByMerge
  <2>2. CASE Reset
    BY <2>2 DEF Reset, IsByMerge
  <2>3. CASE UNCHANGED vars
    BY <2>3
  <2> QED
    BY <2>1, <2>2, <2>3 DEF Next
<1> QED
  BY <1>1, InductiveInvariant, PTL DEF Spec, IdentityChangesOnlyByMerge, IsByMerge

-------------------------------------------------------------------------------
(* No gaps.                                                                *)

\* Ids created, one for each of the new keys, are all the numbers that the counter passes.
LEMMA NumberingUsesAll ==
  ASSUME TypeOK, NEW K \in SUBSET Keys, NEW f \in Numberings(K),
         NEW g \in nextGlobalId .. (Advance(f) - 1)
  PROVE  \E k \in K : WithIds(f)[k] = g
<1> DEFINE n == Cardinality(NewKeys(K))
           a == nextGlobalId
           b == nextGlobalId + n - 1
<1>1. IsFiniteSet(NewKeys(K)) /\ n \in Nat
  <2>1. IsFiniteSet(NewKeys(K))
    BY KeysFinite, FS_Subset DEF NewKeys
  <2> QED
    BY <2>1, FS_CardinalityType
<1>2. f \in Injection(NewKeys(K), a..b) /\ DOMAIN f = NewKeys(K)
  BY DEF Numberings, Injection
<1>3. IsFiniteSet(a..b) /\ Cardinality(a..b) = n
  <2>1. a \in Int /\ b \in Int /\ b - a + 1 = n
    BY <1>1 DEF TypeOK
  <2> HIDE DEF a, b, n
  <2>2. IsFiniteSet(a..b) /\ Cardinality(a..b) = IF a > b THEN 0 ELSE b - a + 1
    BY <2>1, FS_Interval
  <2> QED
    BY <1>1, <2>1, <2>2
<1>4. g \in a..b
  <2>1. Advance(f) = a + n /\ a \in Nat
    BY <1>2 DEF Advance, TypeOK
  <2>2. Advance(f) - 1 = b
    BY <1>1, <2>1
  <2> QED
    BY <2>2
<1> HIDE DEF a, b
<1>5. f \in Surjection(NewKeys(K), a..b)
  BY <1>2, <1>3, FS_Injection
<1>6. PICK k \in NewKeys(K) : f[k] = g
  BY <1>4, <1>5 DEF Surjection
<1> QED
  BY <1>2, <1>6 DEF NewKeys, WithIds

IsReported == \A g \in nextGlobalId .. (nextGlobalId' - 1) : \E e \in result' : e.gid = g

\* Every key that is looked up gives its id to an entry: a track of the first source that is
\* matched to the pair, any other to an entry of its own.
LEMMA ResolveIsReported ==
  ASSUME IInv, NEW order \in Orders, NEW tracks \in [Sources -> SUBSET LocalIds],
         Resolve(order, tracks)
  PROVE  IsReported
<1>1. TypeOK
  BY DEF IInv
<1>2. CASE ResolveOne(order, tracks)
  <2>1. PICK K \in SUBSET Keys : \E f \in Numberings(K) :
          nextGlobalId' = Advance(f) /\ result' = Singles(K, WithIds(f))
    BY <1>2, ResolveOneStep
  <2>2. PICK f \in Numberings(K) :
          nextGlobalId' = Advance(f) /\ result' = Singles(K, WithIds(f))
    BY <2>1
  <2>3. ASSUME NEW g \in nextGlobalId .. (Advance(f) - 1)
        PROVE  \E e \in Singles(K, WithIds(f)) : e.gid = g
    <3>1. PICK k \in K : WithIds(f)[k] = g
      BY <1>1, NumberingUsesAll
    <3>2. Entry(WithIds(f)[k], {k}) \in Singles(K, WithIds(f)) /\ Entry(WithIds(f)[k], {k}).gid = g
      BY <3>1 DEF Singles, Entry
    <3> QED
      BY <3>2
  <2> QED
    BY <2>2, <2>3 DEF IsReported
<1>3. CASE ResolvePair(order, tracks)
  <2>1. PICK a \in Sources, b \in Sources : \E m \in Matchings(tracks[b], tracks[a]) :
          \E f \in Numberings(LooksUp(a, b, m, tracks)) :
            /\ nextGlobalId' = Advance(f)
            /\ result' = Answer(a, b, m, tracks, WithIds(f))
    BY <1>3, ResolvePairStep
  <2>2. PICK m \in Matchings(tracks[b], tracks[a]) :
          \E f \in Numberings(LooksUp(a, b, m, tracks)) :
            /\ nextGlobalId' = Advance(f)
            /\ result' = Answer(a, b, m, tracks, WithIds(f))
    BY <2>1
  <2>3. PICK f \in Numberings(LooksUp(a, b, m, tracks)) :
            /\ nextGlobalId' = Advance(f)
            /\ result' = Answer(a, b, m, tracks, WithIds(f))
    BY <2>2
  <2>4. LooksUp(a, b, m, tracks) \in SUBSET Keys
    BY <2>3 DEF LooksUp, Unmatched, TracksOf, Keys
  <2>5. PICK ids : ids = WithIds(f)
    OBVIOUS
  <2>6. ASSUME NEW g \in nextGlobalId .. (Advance(f) - 1)
        PROVE  \E e \in Answer(a, b, m, tracks, ids) : e.gid = g
    <3>1. PICK k \in LooksUp(a, b, m, tracks) : ids[k] = g
      BY <1>1, <2>4, <2>5, NumberingUsesAll
    <3>2. CASE k \in Partners(a, m)
      <4>1. PICK y \in DOMAIN m : k = <<a, m[y]>>
        BY <3>2 DEF Partners
      <4>2. Entry(ids[<<a, m[y]>>], {<<a, m[y]>>, <<b, y>>}) \in Answer(a, b, m, tracks, ids)
        BY DEF Answer
      <4>3. Entry(ids[<<a, m[y]>>], {<<a, m[y]>>, <<b, y>>}).gid = g
        BY <3>1, <4>1 DEF Entry
      <4> QED
        BY <4>2, <4>3
    <3>3. CASE k \notin Partners(a, m)
      <4>1. k \in Unmatched(a, b, m, tracks)
        BY <3>1, <3>3 DEF LooksUp, Unmatched
      <4>2. Entry(ids[k], {k}) \in Answer(a, b, m, tracks, ids)
        BY <4>1 DEF Answer, Singles
      <4>3. Entry(ids[k], {k}).gid = g
        BY <3>1 DEF Entry
      <4> QED
        BY <4>2, <4>3
    <3> QED
      BY <3>2, <3>3
  <2> QED
    BY <2>3, <2>5, <2>6 DEF IsReported
<1> QED
  BY <1>2, <1>3 DEF Resolve

\* A call creates no global id that its answer does not report: the ids have no gaps.
THEOREM NoIdIsSkipped == Spec => NewIdsAreReported
<1>1. IInv /\ [Next]_vars => [IsReported]_vars
  <2> SUFFICES ASSUME IInv, [Next]_vars  PROVE [IsReported]_vars
    OBVIOUS
  <2>1. ASSUME NEW order \in Orders, NEW tracks \in [Sources -> SUBSET LocalIds],
               Resolve(order, tracks)
        PROVE  IsReported
    BY <2>1, ResolveIsReported
  <2>2. CASE Reset
    <3>1. nextGlobalId \in Nat \ {0} /\ nextGlobalId' = 1
      BY <2>2 DEF Reset, IInv, TypeOK
    <3>2. nextGlobalId .. (nextGlobalId' - 1) = {}
      BY <3>1
    <3> QED
      BY <3>2 DEF IsReported
  <2>3. CASE UNCHANGED vars
    BY <2>3
  <2> QED
    BY <2>1, <2>2, <2>3 DEF Next
<1> QED
  BY <1>1, InductiveInvariant, PTL DEF Spec, NewIdsAreReported, IsReported
===============================================================================
