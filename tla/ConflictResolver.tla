--------------------------- MODULE ConflictResolver ---------------------------
(***************************************************************************)
(* ConflictResolver of fusion/conflict_resolver.py: gives the tracks of    *)
(* several drones global ids, one id for two tracks it associates.  The    *)
(* geometry (bird's-eye positions and the distance gate) is abstracted to  *)
(* the matching that associate_tracks returns, which may be any.           *)
(***************************************************************************)
EXTENDS Assignment, Sequences

CONSTANTS Sources,    \* the names of the streams
          LocalIds,   \* the track ids that a tracker hands out
          Orders      \* the orders in which a synced dictionary can list its sources

ASSUME OrdersAssumption ==
  \A o \in Orders :
    /\ o \in Seq(Sources)
    /\ \A i, j \in DOMAIN o : o[i] = o[j] => i = j

ASSUME KeysAssumption == IsFiniteSet(Sources) /\ IsFiniteSet(LocalIds)

Keys == Sources \X LocalIds

\* _global_track_map has no entry for a key: gids start at 1.
NoId == 0

VARIABLES globalTrackMap,  \* _global_track_map: the global id of (source, local id)
          nextGlobalId,    \* _next_global_id
          followers,       \* history: the sources listed second since the last reset
          presented,       \* the tracks handed to the last call that it looks at
          result           \* its answer: the entries of global_tracks

vars == <<globalTrackMap, nextGlobalId, followers, presented, result>>

Init ==
  /\ globalTrackMap = [k \in Keys |-> NoId]
  /\ nextGlobalId = 1
  /\ followers = {}
  /\ presented = {}
  /\ result = {}

\* The keys of the tracks that the message of source s carries.
TracksOf(s, tracks) == {s} \X tracks[s]

\* Slip: a new id at every call.
IsAlwaysNew(k) == TRUE

\* _get_or_create_global_id has to create an id for the key.
IsNew(k) == globalTrackMap[k] = NoId

NewKeys(K) == {k \in K : IsNew(k)}

\* When it is called for the keys K, the new ones are numbered from the counter up ...
Numberings(K) ==
  Injection(NewKeys(K), nextGlobalId .. (nextGlobalId + Cardinality(NewKeys(K)) - 1))

\* ... in the order of the calls, which respects turn.
NewIds(K, turn) ==
  {f \in Numberings(K) : \A k, l \in NewKeys(K) : turn[k] < turn[l] => f[k] < f[l]}

\* The map once they are.
WithIds(f) == [k \in Keys |-> IF k \in DOMAIN f THEN f[k] ELSE globalTrackMap[k]]

\* Slip: the counter moves once for a call.
AdvanceOnce(f) == IF DOMAIN f = {} THEN nextGlobalId ELSE nextGlobalId + 1

\* The counter moves once for every id created.
Advance(f) == nextGlobalId + Cardinality(DOMAIN f)

Entry(gid, members) == [gid |-> gid, members |-> members]

\* A global track for each key of K.
Singles(K, ids) == {Entry(ids[k], {k}) : k \in K}

\* Fewer than two sources: every track is a global track of its own.
ResolveOne(order, tracks) ==
  LET input == UNION {TracksOf(order[i], tracks) : i \in DOMAIN order}
  IN  /\ Len(order) < 2
      /\ \E f \in NewIds(input, [k \in input |-> 0]) :
           /\ globalTrackMap' = WithIds(f)
           /\ nextGlobalId' = Advance(f)
           /\ result' = Singles(input, WithIds(f))
      /\ presented' = input
      /\ UNCHANGED followers

\* A matching of two sources, a before b: m[y] is the track of a that track y of b
\* was associated with.
Merged(b, m) == {<<b, y>> : y \in DOMAIN m}
Partners(a, m) == {<<a, m[y]>> : y \in DOMAIN m}

\* Slip: what is unmatched in the second source is forgotten.
UnmatchedFirst(a, b, m, tracks) == TracksOf(a, tracks) \ Partners(a, m)

\* unmatched_a and unmatched_b.
Unmatched(a, b, m, tracks) ==
  (TracksOf(a, tracks) \ Partners(a, m)) \cup (TracksOf(b, tracks) \ Merged(b, m))

\* Slip: an id is created for the second track of a pair too.
LooksUpAll(a, b, m, tracks) == TracksOf(a, tracks) \cup TracksOf(b, tracks)

\* The keys whose id is looked up: the second track of a pair takes that of the first.
LooksUp(a, b, m, tracks) == TracksOf(a, tracks) \cup Unmatched(a, b, m, tracks)

\* The pairs come first, then what is left of a, then what is left of b.
Rank(a, m) ==
  [k \in Keys |-> IF k \in Partners(a, m) THEN 1 ELSE IF k[1] = a THEN 2 ELSE 3]

\* Slip: setdefault, so that the second track of a pair keeps an id it has had.
KeepOwnId(a, b, m, ids) ==
  [k \in Keys |-> IF k \in Merged(b, m) /\ ids[k] = NoId THEN ids[<<a, m[k[2]]>>] ELSE ids[k]]

\* Slip: the first track of a pair takes the id of the second.
GiveUpId(a, b, m, ids) ==
  [k \in Keys |-> IF k \in Partners(a, m)
                 THEN ids[<<b, CHOOSE y \in DOMAIN m : m[y] = k[2]>>]
                 ELSE ids[k]]

\* The map after the call: the second track of a pair is known by the id of the first.
TakeOverId(a, b, m, ids) ==
  [k \in Keys |-> IF k \in Merged(b, m) THEN ids[<<a, m[k[2]]>>] ELSE ids[k]]

\* One global track for each pair, under the id of its first track, and one for each
\* track left.
Answer(a, b, m, tracks, ids) ==
  {Entry(ids[<<a, m[y]>>], {<<a, m[y]>>, <<b, y>>}) : y \in DOMAIN m}
    \cup Singles(Unmatched(a, b, m, tracks), ids)

\* Two sources or more: only the first two listed are looked at.
ResolvePair(order, tracks) ==
  LET a == order[1]
      b == order[2]
  IN  /\ Len(order) >= 2
      /\ \E m \in Matchings(tracks[b], tracks[a]) :
         \E f \in NewIds(LooksUp(a, b, m, tracks), Rank(a, m)) :
           /\ globalTrackMap' = TakeOverId(a, b, m, WithIds(f))
           /\ nextGlobalId' = Advance(f)
           /\ result' = Answer(a, b, m, tracks, WithIds(f))
      /\ presented' = TracksOf(a, tracks) \cup TracksOf(b, tracks)
      /\ followers' = followers \cup {b}

Resolve(order, tracks) == ResolveOne(order, tracks) \/ ResolvePair(order, tracks)

\* reset(): forget all identities and count from 1 again.
Reset ==
  /\ globalTrackMap' = [k \in Keys |-> NoId]
  /\ nextGlobalId' = 1
  /\ followers' = {}
  /\ presented' = {}
  /\ result' = {}

Next ==
  \/ \E order \in Orders, tracks \in [Sources -> SUBSET LocalIds] : Resolve(order, tracks)
  \/ Reset

Spec == Init /\ [][Next]_vars

-------------------------------------------------------------------------------
Entries == [gid : Nat \ {0}, members : SUBSET Keys]

\* Every variable has a value of its type.  An id in use was handed out by the counter
\* since the last reset, so the next one to be created is nobody's.
TypeOK ==
  /\ nextGlobalId \in Nat \ {0}
  /\ globalTrackMap \in [Keys -> 0 .. (nextGlobalId - 1)]
  /\ followers \subseteq Sources
  /\ presented \subseteq Keys
  /\ result \subseteq Entries

\* No track of the sources looked at is lost or reported twice: it is in exactly
\* one of the global tracks, and they hold nothing else.
EveryTrackInOneEntry ==
  /\ UNION {e.members : e \in result} = presented
  /\ \A d, e \in result : d.members \cap e.members # {} => d = e

\* The answer and the map that later calls use agree: each track a global track
\* is made of is known under that very id.
ResultAgreesWithMap ==
  \A e \in result : \A k \in e.members : globalTrackMap[k] = e.gid

\* As long as a source has never been listed second, no two of its tracks are given
\* one global id: only taking over a partner's id makes tracks of a drone
\* indistinguishable.
LeaderIdsDistinct ==
  \A s \in Sources \ followers : \A x, y \in LocalIds :
    globalTrackMap[<<s, x>>] = globalTrackMap[<<s, y>>] /\ globalTrackMap[<<s, x>>] # NoId
      => x = y

\* A track loses the global id it had only by being merged, in this very call,
\* with a track of another source whose id it takes (or by a reset).
IdentityChangesOnlyByMerge ==
  [][globalTrackMap' = [k \in Keys |-> NoId] \/
     \A k \in Keys :
       globalTrackMap[k] \notin {NoId, globalTrackMap'[k]} =>
         \E e \in result' :
           /\ k \in e.members /\ e.gid = globalTrackMap'[k]
           /\ \E l \in e.members : l[1] # k[1]]_vars

\* The counter creates no id that the call does not report: there is no gap in
\* the ids that the database sees.
NewIdsAreReported ==
  [][\A g \in nextGlobalId .. (nextGlobalId' - 1) : \E e \in result' : e.gid = g]_vars

-------------------------------------------------------------------------------
(* What the documentation says and the code does not do.                   *)

\* ADVANCED_GUIDE.md:350: conflict resolution "creates new global IDs for
\* unmatched ones", so the global tracks of one answer have ids of their own.
EntriesHaveOwnIds ==
  \A d, e \in result : d.gid = e.gid => d = e
===============================================================================
