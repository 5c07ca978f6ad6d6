----------------------------- MODULE MediaProofs -----------------------------
(***************************************************************************)
(* Proofs about the two services that bring media to the game:             *)
(* the images (ImageLoads), whose store counts the owners of each slot,    *)
(* and the streamed voices (MediaStream), which implement Playback.        *)
(***************************************************************************)
EXTENDS ImageLoads, MediaStream, SequenceTheorems, FiniteSetTheorems,
        WellFoundedInduction, TLAPS

AnySource == Files \cup Blobs

\* A request at each of its places.
IsRequest(q) ==
  \/ q = Ended
  \/ /\ q.at \in {"task", "buffer", "bytes"} /\ q = [at |-> q.at, source |-> q.source]
     /\ q.source \in IF q.at = "task" THEN AnySource ELSE Blobs
  \/ /\ q.at = "waiting" /\ q = Waiting(q.source, q.retainCpu)
     /\ q.source \in Files /\ q.retainCpu \in BOOLEAN
  \/ /\ q.at = "arriving" /\ q = Arriving(q.source, q.image)
     /\ q.source \in AnySource /\ q.image \in Slots \cup {None}

StoreTypes ==
  /\ slots \in [Slots -> Image \cup {None}]
  /\ pathCache \in [Files -> Slots \cup {None}]

LoadTypes ==
  /\ jobs \in [Files -> Job \cup {None}]
  /\ elements \in [Elements -> [generation : Nat, shows : Slots \cup {None, Fallback}]]
  /\ requests = [r \in Requests |-> requests[r]] /\ \A r \in Requests : IsRequest(requests[r])
  /\ held \in Slots \cup {None}

\* The callers of a job are the requests that wait for its file, it keeps
\* pixels when one of them asked for them, and it has those it set out for.
WaitsFor(r, f) == requests[r].at = "waiting" /\ requests[r].source = f
JobsInv ==
  \A f \in Files :
    IF jobs[f] = None THEN \A r \in Requests : ~WaitsFor(r, f)
    ELSE /\ jobs[f].callers # {} /\ \A r \in Requests : r \in jobs[f].callers <=> WaitsFor(r, f)
         /\ \A r \in jobs[f].callers : requests[r].retainCpu => jobs[f].retainCpu
         /\ jobs[f].at = "executed" /\ jobs[f].prepared => jobs[f].cpu = jobs[f].prepareCpu

\* What an element has not been asked for yet has not begun.
NotYet == \A r \in Requests : r[2] > elements[r[1]].generation => requests[r] = Ended

ImagesInv == StoreTypes /\ LoadTypes /\ JobsInv /\ NotYet /\ ReferencesAreOwned

----------------------------------------------------------------------------
(* What the constants give, and how owners are counted.                    *)

LEMMA Names ==
  /\ None \notin Slots /\ Fallback \notin Slots /\ None \notin Files /\ None \notin Blobs
  /\ Fallback # None /\ Files \cap Blobs = {} /\ None \notin Image /\ None \notin Job
BY ImagesOK

\* What a request holds at each place.
LEMMA RequestParts ==
  ASSUME NEW q, IsRequest(q)
  PROVE  /\ q.at = "over" <=> q = Ended
         /\ q.at \in {"over", "task", "buffer", "bytes", "waiting", "arriving"}
         /\ q.at = "task" => q = [at |-> "task", source |-> q.source] /\ q.source \in AnySource
         /\ q.at \in {"buffer", "bytes"} =>
              q = [at |-> q.at, source |-> q.source] /\ q.source \in Blobs
         /\ q.at = "waiting" => q.source \in Files /\ q.retainCpu \in BOOLEAN
         /\ q.at = "arriving" => q.source \in AnySource /\ q.image \in Slots \cup {None}
<1>1. CASE q = Ended
  <2>1. q.at = "over"
    BY <1>1 DEF Ended
  <2>2. QED
    BY <1>1, <2>1
<1>2. ASSUME q # Ended PROVE q.at # "over"
  BY <1>2 DEF IsRequest
<1>3. CASE q # Ended
  BY <1>2, <1>3 DEF IsRequest
<1>4. QED
  BY <1>1, <1>3

LEMMA Finite == IsFiniteSet(Elements) /\ IsFiniteSet(Requests)
<1>1. MaxLoads \in Nat /\ IsFiniteSet(Elements)
  BY ImagesOK
<1>2. IsFiniteSet(1 .. MaxLoads)
  BY <1>1, FS_Interval
<1>3. IsFiniteSet(Elements \X (1 .. MaxLoads))
  BY <1>1, <1>2, FS_Product
<1>4. QED
  BY <1>1, <1>3 DEF Requests

\* The owners of each kind can be counted, before and after a step.
LEMMA Countable ==
  ASSUME NEW s
  PROVE  /\ IsFiniteSet(Showing(s)) /\ Cardinality(Showing(s)) \in Nat
         /\ IsFiniteSet(Showing(s)') /\ Cardinality(Showing(s))' \in Nat
         /\ IsFiniteSet(Bringing(s)) /\ Cardinality(Bringing(s)) \in Nat
         /\ IsFiniteSet(Bringing(s)') /\ Cardinality(Bringing(s))' \in Nat
         /\ Owners(s) \in Nat /\ Owners(s)' \in Nat
<1>1. /\ Showing(s) \in SUBSET Elements /\ Showing(s)' \in SUBSET Elements
      /\ Bringing(s) \in SUBSET Requests /\ Bringing(s)' \in SUBSET Requests
  BY DEF Showing, Bringing
<1>2. /\ IsFiniteSet(Showing(s)) /\ IsFiniteSet(Showing(s)')
      /\ IsFiniteSet(Bringing(s)) /\ IsFiniteSet(Bringing(s)')
  BY <1>1, Finite, FS_Subset
<1>3. /\ Cardinality(Showing(s)) \in Nat /\ Cardinality(Showing(s)') \in Nat
      /\ Cardinality(Bringing(s)) \in Nat /\ Cardinality(Bringing(s)') \in Nat
  BY <1>2, FS_CardinalityType
<1>4. Owners(s) \in Nat /\ Owners(s)' \in Nat
  BY <1>3 DEF Owners
<1>5. QED
  BY <1>2, <1>3, <1>4

\* An owner counts.
LEMMA OwnersCount ==
  ASSUME NEW s, Owners(s) = 0
  PROVE  /\ \A e \in Elements : elements[e].shows # s
         /\ \A r \in Requests : requests[r].at = "arriving" => requests[r].image # s
         /\ held # s
<1>1. Cardinality(Showing(s)) = 0 /\ Cardinality(Bringing(s)) = 0 /\ held # s
  BY Countable DEF Owners
<1>2. Showing(s) = {} /\ Bringing(s) = {}
  BY <1>1, Countable, FS_EmptySet
<1>3. QED
  BY <1>1, <1>2 DEF Showing, Bringing

LEMMA OwnersCountLater ==
  ASSUME NEW s, Owners(s)' = 0
  PROVE  \A r \in Requests : requests'[r].at = "arriving" => requests'[r].image # s
<1>1. Cardinality(Bringing(s))' = 0
  BY Countable DEF Owners
<1>2. Bringing(s)' = {}
  BY <1>1, Countable, FS_EmptySet
<1>3. QED
  BY <1>2 DEF Bringing

\* A set that loses an element, and may gain it again.
LEMMA OneMoves ==
  ASSUME NEW S, IsFiniteSet(S), NEW T, NEW x, NEW in \in BOOLEAN,
         T = (S \ {x}) \cup (IF in THEN {x} ELSE {})
  PROVE  Cardinality(T) = Cardinality(S) - (IF x \in S THEN 1 ELSE 0) + (IF in THEN 1 ELSE 0)
<1>1. /\ IsFiniteSet(S \ {x}) /\ Cardinality(S) \in Nat
      /\ Cardinality(S \ {x}) = IF x \in S THEN Cardinality(S) - 1 ELSE Cardinality(S)
  BY FS_RemoveElement, FS_CardinalityType
<1>2. Cardinality((S \ {x}) \cup {x}) = Cardinality(S \ {x}) + 1
  <2>1. x \notin S \ {x}
    OBVIOUS
  <2>2. QED
    BY <1>1, <2>1, FS_AddElement
<1>3. CASE in
  <2>1. T = (S \ {x}) \cup {x}
    BY <1>3
  <2>2. QED
    BY <1>1, <1>2, <1>3, <2>1
<1>4. CASE ~in
  <2>1. T = S \ {x}
    BY <1>4
  <2>2. QED
    BY <1>1, <1>4, <2>1
<1>5. QED
  BY <1>3, <1>4

Brings(q, s) == q.at = "arriving" /\ q.image = s

LEMMA RequestCounts ==
  ASSUME LoadTypes, NEW r \in Requests, NEW q, requests' = [requests EXCEPT ![r] = q], NEW s
  PROVE  Cardinality(Bringing(s))' = Cardinality(Bringing(s))
           - (IF Brings(requests[r], s) THEN 1 ELSE 0) + (IF Brings(q, s) THEN 1 ELSE 0)
<1>1. \A x \in Requests : requests'[x] = IF x = r THEN q ELSE requests[x]
  BY DEF LoadTypes
<1>2. Bringing(s)' = (Bringing(s) \ {r}) \cup (IF Brings(q, s) THEN {r} ELSE {})
  BY <1>1 DEF Bringing, Brings
<1>3. r \in Bringing(s) <=> Brings(requests[r], s)
  BY DEF Bringing, Brings
<1>4. Brings(q, s) \in BOOLEAN
  BY DEF Brings
<1>5. QED
  BY <1>2, <1>3, <1>4, Countable, OneMoves

Shows(x, s) == x.shows = s

LEMMA ElementCounts ==
  ASSUME LoadTypes, NEW e \in Elements, NEW x, elements' = [elements EXCEPT ![e] = x], NEW s
  PROVE  Cardinality(Showing(s))' = Cardinality(Showing(s))
           - (IF Shows(elements[e], s) THEN 1 ELSE 0) + (IF Shows(x, s) THEN 1 ELSE 0)
<1>1. \A d \in Elements : elements'[d] = IF d = e THEN x ELSE elements[d]
  BY DEF LoadTypes
<1>2. Showing(s)' = (Showing(s) \ {e}) \cup (IF Shows(x, s) THEN {e} ELSE {})
  BY <1>1 DEF Showing, Shows
<1>3. e \in Showing(s) <=> Shows(elements[e], s)
  BY DEF Showing, Shows
<1>4. Shows(x, s) \in BOOLEAN
  BY DEF Shows
<1>5. QED
  BY <1>2, <1>3, <1>4, Countable, OneMoves

LEMMA SameShowing ==
  ASSUME \A e \in Elements : elements'[e].shows = elements[e].shows, NEW s
  PROVE  Cardinality(Showing(s))' = Cardinality(Showing(s))
<1>1. Showing(s)' = Showing(s)
  BY DEF Showing
<1>2. QED
  BY <1>1

----------------------------------------------------------------------------
(* What a step does to the store.                                          *)

Counted(s) == IF Live(s) THEN slots[s].references = Owners(s) ELSE Owners(s) = 0
FileOf(from) == IF from \in Files THEN from ELSE None
HasImage(q) == q.at = "arriving" /\ q.image # None
Fits(r) == HasImage(requests[r]) => slots[requests[r].image].file = FileOf(requests[r].source)
Indexed(f, s) == pathCache[f] = s <=> Live(s) /\ slots[s].file = f

LEMMA OwnedParts ==
  ReferencesAreOwned <=> /\ \A s \in Slots : Counted(s)
                         /\ \A r \in Requests : Fits(r)
                         /\ \A f \in Files, s \in Slots : Indexed(f, s)
BY DEF ReferencesAreOwned, Counted, Fits, HasImage, FileOf, Indexed

LEMMA OwnedPartsLater ==
  ReferencesAreOwned' <=> /\ \A s \in Slots : Counted(s)'
                          /\ \A r \in Requests : Fits(r)'
                          /\ \A f \in Files, s \in Slots : Indexed(f, s)'
BY DEF ReferencesAreOwned, Counted, Fits, HasImage, FileOf, Indexed

\* What has an owner is alive.
LEMMA OwnedIsLive ==
  ASSUME ImagesInv
  PROVE  /\ held # None => held \in Slots /\ Live(held)
         /\ \A e \in Elements : elements[e].shows \in Slots => Live(elements[e].shows)
         /\ \A r \in Requests : HasImage(requests[r]) =>
              requests[r].image \in Slots /\ Live(requests[r].image)
<1>1. \A s \in Slots : Live(s) \/ Owners(s) = 0
  BY DEF ImagesInv, ReferencesAreOwned
<1>2. held \in Slots \cup {None} /\ \A r \in Requests : IsRequest(requests[r])
  BY DEF ImagesInv, LoadTypes
<1>3. \A r \in Requests : HasImage(requests[r]) => requests[r].image \in Slots
  BY <1>2, RequestParts DEF HasImage
<1>4. QED
  BY <1>1, <1>2, <1>3, OwnersCount DEF HasImage

\* A live slot, before and after.
LEMMA LiveSlot ==
  ASSUME StoreTypes, NEW s \in Slots, Live(s)
  PROVE  slots[s] \in Image /\ slots[s] # None
BY DEF StoreTypes, Live

\* One owner of s lets go of it.
LEMMA ReleaseKeeps ==
  ASSUME ImagesInv, NEW s, slots' = release(slots, s), pathCache' = pathCache,
         \A t \in Slots : Owners(t)' = Owners(t) - (IF t = s THEN 1 ELSE 0),
         \A r \in Requests : HasImage(requests'[r]) =>
           HasImage(requests[r]) /\ requests'[r] = requests[r],
         LoadTypes'
  PROVE  StoreTypes' /\ ReferencesAreOwned'
<1>1. StoreTypes /\ ReferencesAreOwned
  BY DEF ImagesInv
<1>2. CASE s \notin Slots
  <2>1. slots' = slots /\ \A t \in Slots : t # s
    BY <1>2 DEF release
  <2>2. \A t \in Slots : Owners(t)' = Owners(t)
    BY <2>1, Countable
  <2>3. \A t \in Slots : Counted(t)'
    BY <1>1, <2>1, <2>2, OwnedParts DEF Counted, Live
  <2>4. \A r \in Requests : Fits(r)'
    BY <1>1, <2>1, OwnedParts DEF Fits
  <2>5. \A f \in Files, t \in Slots : Indexed(f, t)'
    BY <1>1, <2>1, OwnedParts DEF Indexed, Live
  <2>6. QED
    BY <1>1, <2>1, <2>3, <2>4, <2>5, OwnedPartsLater DEF StoreTypes
<1>3. CASE s \in Slots
  <2>1. Owners(s) \in Nat /\ Owners(s)' \in Nat /\ Owners(s)' = Owners(s) - 1
    BY <1>3, Countable
  <2>2. Live(s) /\ slots[s].references = Owners(s)
    BY <1>1, <1>3, <2>1, OwnedParts DEF Counted
  <2>3. slots[s] \in Image /\ slots[s] # None
    BY <1>1, <1>3, <2>2, LiveSlot
  <2> DEFINE left == [slots[s] EXCEPT !.references = @ - 1]
  <2>4. /\ left \in Image /\ left # None /\ left.references = Owners(s)'
        /\ left.file = slots[s].file
    <3>1. /\ DOMAIN left = DOMAIN slots[s] /\ left.references = Owners(s)'
          /\ left.file = slots[s].file /\ left = [slots[s] EXCEPT !.references = Owners(s)']
      BY <2>1, <2>2, <2>3 DEF Image
    <3>2. left \in Image
      BY <2>1, <2>3, <3>1 DEF Image
    <3>3. QED
      BY <3>1, <3>2, Names
  <2>5. slots' = [slots EXCEPT ![s] = Settled(left)]
    BY <1>3 DEF release
  <2> HIDE DEF left
  <2>6. Settled(left) = left \/ (Settled(left) = None /\ left.file = None /\ left.references = 0)
    BY DEF Settled
  <2>7. \A t \in Slots : slots'[t] = IF t = s THEN Settled(left) ELSE slots[t]
    BY <1>1, <2>5 DEF StoreTypes
  <2>8. StoreTypes'
    BY <1>1, <2>4, <2>5, <2>6 DEF StoreTypes
  <2>9. ASSUME NEW t \in Slots PROVE Counted(t)'
    <3>1. CASE t = s
      BY <2>4, <2>6, <2>7, <3>1 DEF Counted, Live
    <3>2. CASE t # s
      <4>1. Owners(t)' = Owners(t)
        BY <3>2, Countable
      <4>2. QED
        BY <1>1, <2>7, <3>2, <4>1, OwnedParts DEF Counted, Live
    <3>3. QED
      BY <3>1, <3>2
  <2>10. ASSUME NEW r \in Requests, HasImage(requests'[r]) PROVE Fits(r)'
    <3>1. HasImage(requests[r]) /\ requests'[r] = requests[r]
      BY <2>10
    <3>2. requests[r].image \in Slots /\ slots[requests[r].image].file = FileOf(requests[r].source)
      BY <1>1, <3>1, OwnedParts, OwnedIsLive DEF Fits
    <3>3. CASE requests[r].image # s
      BY <2>7, <3>1, <3>2, <3>3 DEF Fits
    <3>4. CASE requests[r].image = s
      <4>1. Owners(s)' # 0
        BY <2>10, <3>1, <3>4, OwnersCountLater DEF HasImage
      <4>2. slots'[s] = left
        BY <1>3, <2>4, <2>6, <2>7, <4>1
      <4>3. QED
        BY <2>4, <3>1, <3>2, <3>4, <4>2 DEF Fits
    <3>5. QED
      BY <3>3, <3>4
  <2>11. ASSUME NEW f \in Files, NEW t \in Slots PROVE Indexed(f, t)'
    <3>1. Indexed(f, t) /\ f # None
      BY <1>1, OwnedParts, Names
    <3>2. CASE t # s
      BY <2>7, <3>1, <3>2 DEF Indexed, Live
    <3>3. CASE t = s
      BY <2>2, <2>4, <2>6, <2>7, <3>1, <3>3 DEF Indexed, Live
    <3>4. QED
      BY <3>2, <3>3
  <2>12. \A r \in Requests : Fits(r)'
    BY <2>10 DEF Fits
  <2>13. QED
    BY <2>8, <2>9, <2>11, <2>12, OwnedPartsLater
<1>4. QED
  BY <1>2, <1>3

\* s holds f with n more owners; f is found by its path from now on.
Installs(s, f, n) ==
  /\ slots' = [slots EXCEPT ![s] = slots'[s]] /\ slots'[s] \in Image /\ slots'[s].file = f
  /\ slots'[s].references = n + (IF Live(s) THEN slots[s].references ELSE 0)
  /\ pathCache' = IF f \in Files THEN [pathCache EXCEPT ![f] = s] ELSE pathCache
  /\ IF Live(s) THEN slots[s].file = f
     ELSE f \in Files => pathCache[f] = None

LEMMA InstallKeeps ==
  ASSUME ImagesInv, NEW s \in Slots, NEW f \in Files \cup {None}, NEW n \in Nat, Installs(s, f, n),
         \A t \in Slots : Owners(t)' = Owners(t) + (IF t = s THEN n ELSE 0),
         \A r \in Requests : HasImage(requests'[r]) =>
           \/ HasImage(requests[r]) /\ requests'[r] = requests[r]
           \/ requests'[r].image = s /\ FileOf(requests'[r].source) = f
  PROVE  StoreTypes' /\ ReferencesAreOwned'
<1>1. StoreTypes /\ ReferencesAreOwned
  BY DEF ImagesInv
<1>2. \A t \in Slots : t # s => slots'[t] = slots[t]
  BY <1>1 DEF StoreTypes, Installs
<1>3. slots'[s] \in Image /\ slots'[s] # None /\ slots'[s].file = f
  BY Names DEF Installs
<1>4. StoreTypes'
  <2>1. slots' \in [Slots -> Image \cup {None}]
    BY <1>1, <1>3 DEF StoreTypes, Installs
  <2>2. pathCache' \in [Files -> Slots \cup {None}]
    BY <1>1 DEF StoreTypes, Installs
  <2>3. QED
    BY <2>1, <2>2 DEF StoreTypes
<1>5. ASSUME NEW t \in Slots PROVE Counted(t)'
  <2>1. Counted(t) /\ Owners(t) \in Nat
    BY <1>1, OwnedParts, Countable
  <2>2. CASE t = s
    BY <1>3, <2>1, <2>2 DEF Counted, Live, Installs
  <2>3. CASE t # s
    BY <1>2, <2>1, <2>3 DEF Counted, Live
  <2>4. QED
    BY <2>2, <2>3
<1>6. ASSUME NEW r \in Requests, HasImage(requests'[r]) PROVE Fits(r)'
  <2>1. CASE requests'[r].image = s /\ FileOf(requests'[r].source) = f
    BY <1>3, <2>1 DEF Fits
  <2>2. CASE HasImage(requests[r]) /\ requests'[r] = requests[r]
    <3>1. /\ requests[r].image \in Slots /\ Live(requests[r].image)
          /\ slots[requests[r].image].file = FileOf(requests[r].source)
      BY <1>1, <2>2, OwnedParts, OwnedIsLive DEF Fits
    <3>2. slots'[requests[r].image].file = slots[requests[r].image].file
      BY <1>2, <1>3, <3>1 DEF Installs
    <3>3. QED
      BY <2>2, <3>1, <3>2 DEF Fits
  <2>3. QED
    BY <1>6, <2>1, <2>2
<1>7. ASSUME NEW g \in Files, NEW t \in Slots PROVE Indexed(g, t)'
  <2>1. Indexed(g, t) /\ Indexed(g, s) /\ g # None /\ pathCache[g] \in Slots \cup {None}
    BY <1>1, OwnedParts, Names DEF StoreTypes
  <2>2. /\ pathCache'[g] = IF g = f THEN s ELSE pathCache[g]
    BY <1>1 DEF StoreTypes, Installs
  <2>3. CASE t = s
    <3>1. Indexed(g, s)' <=> (pathCache'[g] = s <=> f = g)
      BY <1>3 DEF Indexed, Live
    <3>2. g # f => pathCache[g] # s
      BY <2>1, Names DEF Indexed, Live, Installs
    <3>3. QED
      BY <2>2, <2>3, <3>1, <3>2
  <2>4. CASE t # s
    <3>1. Indexed(g, t)' <=> (pathCache'[g] = t <=> Live(t) /\ slots[t].file = g)
      BY <1>2, <2>4 DEF Indexed, Live
    <3>2. g = f => pathCache[g] # t
      BY <2>1, <2>4, Names DEF Indexed, Live, Installs
    <3>3. QED
      BY <2>1, <2>2, <2>4, <3>1, <3>2 DEF Indexed
  <2>5. QED
    BY <2>3, <2>4
<1>8. \A r \in Requests : Fits(r)'
  BY <1>6 DEF Fits
<1>9. QED
  BY <1>4, <1>5, <1>7, <1>8, OwnedPartsLater

\* Nobody gains or loses an image.
LEMMA StoreStays ==
  ASSUME ImagesInv, UNCHANGED <<slots, pathCache, held>>,
         \A e \in Elements : elements'[e].shows = elements[e].shows,
         \A r \in Requests : HasImage(requests[r]) \/ HasImage(requests'[r]) =>
           requests'[r] = requests[r]
  PROVE  StoreTypes' /\ ReferencesAreOwned'
<1>1. \A s \in Slots : Bringing(s)' = Bringing(s) /\ Showing(s)' = Showing(s)
  BY Names DEF Bringing, Showing, HasImage
<1>2. \A s \in Slots : Owners(s)' = Owners(s)
  BY <1>1 DEF Owners
<1>3. \A s \in Slots : Counted(s)'
  BY <1>2, OwnedParts DEF ImagesInv, Counted, Live
<1>4. \A r \in Requests : Fits(r)'
  BY OwnedParts DEF ImagesInv, Fits
<1>5. \A f \in Files, s \in Slots : Indexed(f, s)'
  BY OwnedParts DEF ImagesInv, Indexed, Live
<1>6. QED
  BY <1>3, <1>4, <1>5, OwnedPartsLater DEF ImagesInv, StoreTypes

----------------------------------------------------------------------------
(* One request goes on.                                                    *)

LEMMA RequestMoves ==
  ASSUME ImagesInv, NEW r \in Requests, NEW q, requests' = [requests EXCEPT ![r] = q], IsRequest(q),
         requests[r].at \notin {"over", "waiting"}, q.at # "waiting", jobs' = jobs,
         \A e \in Elements : elements'[e].generation = elements[e].generation,
         elements' \in [Elements -> [generation : Nat, shows : Slots \cup {None, Fallback}]],
         held' \in Slots \cup {None}
  PROVE  LoadTypes' /\ JobsInv' /\ NotYet'
<1>1. \A x \in Requests : requests'[x] = IF x = r THEN q ELSE requests[x]
  BY DEF ImagesInv, LoadTypes
<1>2. requests' = [x \in Requests |-> requests'[x]]
  BY DEF ImagesInv, LoadTypes
<1>3. LoadTypes'
  BY <1>1, <1>2 DEF ImagesInv, LoadTypes
<1>4. \A x \in Requests, f \in Files : WaitsFor(x, f)' <=> WaitsFor(x, f)
  BY <1>1 DEF WaitsFor
<1>5. JobsInv'
  <2> SUFFICES ASSUME NEW f \in Files
               PROVE  IF jobs[f] = None THEN \A x \in Requests : ~WaitsFor(x, f)'
                      ELSE /\ jobs[f].callers # {}
                           /\ \A x \in Requests : x \in jobs[f].callers <=> WaitsFor(x, f)'
                           /\ \A x \in jobs[f].callers : requests'[x].retainCpu => jobs[f].retainCpu
                           /\ jobs[f].at = "executed" /\ jobs[f].prepared =>
                                jobs[f].cpu = jobs[f].prepareCpu
    BY DEF JobsInv
  <2>1. CASE jobs[f] = None
    BY <1>4, <2>1 DEF ImagesInv, JobsInv
  <2>2. CASE jobs[f] # None
    <3>1. /\ jobs[f].callers # {}
          /\ \A x \in Requests : x \in jobs[f].callers <=> WaitsFor(x, f)
          /\ \A x \in jobs[f].callers : requests[x].retainCpu => jobs[f].retainCpu
          /\ jobs[f].at = "executed" /\ jobs[f].prepared => jobs[f].cpu = jobs[f].prepareCpu
      BY <2>2 DEF ImagesInv, JobsInv
    <3>2. jobs[f].callers \subseteq Requests
      BY <2>2 DEF ImagesInv, LoadTypes, Job
    <3>3. \A x \in jobs[f].callers : requests'[x] = requests[x]
      BY <1>1, <3>1, <3>2 DEF WaitsFor
    <3>4. QED
      BY <1>4, <2>2, <3>1, <3>3
  <2>3. QED
    BY <2>1, <2>2
<1>6. NotYet'
  <2> SUFFICES ASSUME NEW x \in Requests, x[2] > elements'[x[1]].generation
               PROVE  requests'[x] = Ended
    BY DEF NotYet
  <2>1. x[1] \in Elements
    BY DEF Requests
  <2>2. requests[x] = Ended
    BY <2>1 DEF ImagesInv, NotYet
  <2>3. x # r
    BY <2>2 DEF Ended
  <2>4. QED
    BY <1>1, <2>2, <2>3
<1>7. QED
  BY <1>3, <1>5, <1>6

\* A request that goes on without an image.
LEMMA RequestGoesOn ==
  ASSUME ImagesInv, NEW r \in Requests, NEW q, requests' = [requests EXCEPT ![r] = q], IsRequest(q),
         requests[r].at \notin {"over", "waiting", "arriving"}, q.at # "waiting", ~HasImage(q),
         UNCHANGED <<slots, pathCache, jobs, elements, held>>
  PROVE  ImagesInv'
<1>1. LoadTypes' /\ JobsInv' /\ NotYet'
  BY RequestMoves DEF ImagesInv, LoadTypes
<1>2. \A x \in Requests : HasImage(requests[x]) \/ HasImage(requests'[x]) => requests'[x] = requests[x]
  BY DEF ImagesInv, LoadTypes, HasImage
<1>3. StoreTypes' /\ ReferencesAreOwned'
  BY <1>2, StoreStays
<1>4. QED
  BY <1>1, <1>3 DEF ImagesInv

LEMMA SupersededKeeps == ASSUME ImagesInv, NEW r \in Requests, Superseded(r) PROVE ImagesInv'
<1>1. IsRequest(Ended) /\ Ended.at = "over"
  BY DEF IsRequest, Ended
<1>2. ~HasImage(Ended)
  BY <1>1 DEF HasImage
<1>3. QED
  BY <1>1, <1>2, RequestGoesOn DEF Superseded

LEMMA Arrivals ==
  ASSUME NEW from, NEW s
  PROVE  /\ Arriving(from, s).at = "arriving" /\ Arriving(from, s).source = from
         /\ Arriving(from, s).image = s
         /\ from \in AnySource /\ s \in Slots \cup {None} => IsRequest(Arriving(from, s))
BY DEF Arriving, IsRequest

LEMMA StartBytesKeeps == ASSUME ImagesInv, NEW r \in Requests, StartBytes(r) PROVE ImagesInv'
<1> DEFINE q == [requests[r] EXCEPT !.at = "buffer"]
<1>1. /\ requests[r].at = "task" /\ requests[r].source \in Blobs
      /\ requests' = [requests EXCEPT ![r] = q]
  BY DEF StartBytes
<1>2. requests[r] = [at |-> "task", source |-> requests[r].source]
  BY <1>1, RequestParts DEF ImagesInv, LoadTypes
<1>3. q = [at |-> "buffer", source |-> requests[r].source]
  BY <1>2
<1> HIDE DEF q
<1>4. q.at = "buffer" /\ IsRequest(q)
  BY <1>1, <1>3 DEF IsRequest
<1>5. QED
  BY <1>1, <1>4, RequestGoesOn DEF StartBytes, HasImage

LEMMA BytesReadKeeps == ASSUME ImagesInv, NEW r \in Requests, BytesRead(r) PROVE ImagesInv'
<1>1. requests[r].at = "buffer"
  BY DEF BytesRead
<1>2. requests[r] = [at |-> "buffer", source |-> requests[r].source] /\ requests[r].source \in Blobs
  BY <1>1, RequestParts DEF ImagesInv, LoadTypes
<1>3. PICK q : /\ requests' = [requests EXCEPT ![r] = q]
               /\ \/ q = [requests[r] EXCEPT !.at = "bytes"]
                  \/ q = Arriving(requests[r].source, None)
  BY DEF BytesRead
<1>4. CASE q = [requests[r] EXCEPT !.at = "bytes"]
  <2>1. q = [at |-> "bytes", source |-> requests[r].source]
    BY <1>2, <1>4
  <2>2. q.at = "bytes" /\ IsRequest(q)
    BY <1>2, <2>1 DEF IsRequest
  <2>3. QED
    BY <1>1, <1>3, <2>2, RequestGoesOn DEF BytesRead, HasImage
<1>5. CASE q = Arriving(requests[r].source, None)
  <2>1. IsRequest(q) /\ q.at = "arriving" /\ q.image = None
    BY <1>2, <1>5, Arrivals DEF AnySource
  <2>2. QED
    BY <1>1, <1>3, <2>1, RequestGoesOn DEF BytesRead, HasImage
<1>6. QED
  BY <1>3, <1>4, <1>5

LEMMA LoadRefusedKeeps ==
  ASSUME ImagesInv, NEW r \in Requests, NEW f \in Files, LoadRefused(r, f) PROVE ImagesInv'
<1> DEFINE q == Arriving(f, None)
<1>1. IsRequest(q) /\ q.at = "arriving" /\ q.image = None
  BY Arrivals DEF AnySource
<1> HIDE DEF q
<1>2. requests' = [requests EXCEPT ![r] = q] /\ requests[r].at = "task"
  BY DEF LoadRefused, Starts, q
<1>3. QED
  BY <1>1, <1>2, RequestGoesOn DEF LoadRefused, HasImage

\* A request is given an image.
LEMMA RequestIsServed ==
  ASSUME ImagesInv, NEW r \in Requests, NEW from \in AnySource, NEW s \in Slots, NEW f,
         f = FileOf(from), requests' = [requests EXCEPT ![r] = Arriving(from, s)],
         requests[r].at \notin {"over", "waiting", "arriving"}, Installs(s, f, 1),
         UNCHANGED <<jobs, elements, held>>
  PROVE  ImagesInv'
<1> DEFINE q == Arriving(from, s)
<1>1. IsRequest(q) /\ q.at = "arriving" /\ q.image = s /\ q.source = from
  BY Arrivals
<1> HIDE DEF q
<1>2. requests' = [requests EXCEPT ![r] = q]
  BY DEF q
<1>3. LoadTypes' /\ JobsInv' /\ NotYet'
  BY <1>1, <1>2, RequestMoves DEF ImagesInv, LoadTypes
<1>4. \A x \in Requests : HasImage(requests'[x]) =>
        \/ HasImage(requests[x]) /\ requests'[x] = requests[x]
        \/ requests'[x].image = s /\ FileOf(requests'[x].source) = f
  BY <1>1, <1>2 DEF ImagesInv, LoadTypes, HasImage
<1>5. ASSUME NEW t \in Slots PROVE Owners(t)' = Owners(t) + (IF t = s THEN 1 ELSE 0)
  <2>1. Cardinality(Bringing(t))' = Cardinality(Bringing(t)) + (IF t = s THEN 1 ELSE 0)
    <3>1. ~Brings(requests[r], t) /\ (Brings(q, t) <=> t = s)
      BY <1>1 DEF Brings
    <3>2. Cardinality(Bringing(t))' = Cardinality(Bringing(t))
            - (IF Brings(requests[r], t) THEN 1 ELSE 0) + (IF Brings(q, t) THEN 1 ELSE 0)
      BY <1>2, RequestCounts DEF ImagesInv
    <3>3. QED
      BY <3>1, <3>2, Countable
  <2>2. Cardinality(Showing(t))' = Cardinality(Showing(t))
    BY SameShowing
  <2>3. QED
    BY <2>1, <2>2, Countable DEF Owners
<1>6. f \in Files \cup {None}
  BY DEF FileOf
<1>7. StoreTypes' /\ ReferencesAreOwned'
  BY <1>4, <1>5, <1>6, InstallKeeps
<1>8. QED
  BY <1>3, <1>7 DEF ImagesInv

----------------------------------------------------------------------------
(* The outcomes of an installation.                                        *)

LEMMA NewSlotFits ==
  ASSUME NEW f \in Files \cup {None}, NEW prepared \in BOOLEAN, NEW pixels \in BOOLEAN,
         NEW retainCpu \in BOOLEAN
  PROVE  /\ NewSlot(f, prepared, pixels, retainCpu) \in Image
         /\ NewSlot(f, prepared, pixels, retainCpu).file = f
         /\ NewSlot(f, prepared, pixels, retainCpu).references = 1
         /\ NewSlot(f, prepared, pixels, retainCpu).pixels = pixels
BY DEF NewSlot, Image

\* More owners of a live slot, whose pixels may have to stay.
LEMMA Retained ==
  ASSUME NEW sl, sl \in [Slots -> Image \cup {None}], NEW s \in Slots, sl[s] \in Image, NEW n \in Nat
  PROVE  /\ retain(sl, s, n) \in [Slots -> Image \cup {None}]
         /\ retain(sl, s, n) = [sl EXCEPT ![s] = retain(sl, s, n)[s]]
         /\ retain(sl, s, n)[s] \in Image /\ retain(sl, s, n)[s].file = sl[s].file
         /\ retain(sl, s, n)[s].references = sl[s].references + n
         /\ retain(sl, s, n)[s].pixels = sl[s].pixels
<1>1. retain(sl, s, n) = [sl EXCEPT ![s] = [sl[s] EXCEPT !.references = @ + n]]
  BY DEF retain
<1>2. [sl[s] EXCEPT !.references = @ + n] = [sl[s] EXCEPT !.references = sl[s].references + n]
  OBVIOUS
<1>3. sl[s].references + n \in Nat
  BY DEF Image
<1>4. [sl[s] EXCEPT !.references = sl[s].references + n] \in Image
  BY <1>3 DEF Image
<1>5. /\ [sl[s] EXCEPT !.references = sl[s].references + n].file = sl[s].file
      /\ [sl[s] EXCEPT !.references = sl[s].references + n].pixels = sl[s].pixels
      /\ [sl[s] EXCEPT !.references = sl[s].references + n].references = sl[s].references + n
  BY DEF Image
<1>6. retain(sl, s, n)[s] = [sl[s] EXCEPT !.references = sl[s].references + n]
  BY <1>1, <1>2
<1>7. QED
  BY <1>1, <1>2, <1>4, <1>5, <1>6

LEMMA PixelsRetained ==
  ASSUME NEW sl, sl \in [Slots -> Image \cup {None}], NEW s \in Slots, sl[s] \in Image
  PROVE  /\ WithPixels(sl, s) = [sl EXCEPT ![s] = WithPixels(sl, s)[s]]
         /\ WithPixels(sl, s)[s] \in Image /\ WithPixels(sl, s)[s].file = sl[s].file
         /\ WithPixels(sl, s)[s].references = sl[s].references
         /\ WithPixels(sl, s)[s].pixels
<1> DEFINE kept == [sl[s] EXCEPT !.retainCpu = TRUE, !.pixels = TRUE]
<1>1. WithPixels(sl, s) = [sl EXCEPT ![s] = kept]
  BY DEF WithPixels
<1>2. kept \in Image /\ kept.file = sl[s].file /\ kept.references = sl[s].references /\ kept.pixels
  BY DEF Image
<1> HIDE DEF kept
<1>3. QED
  BY <1>1, <1>2

\* A slot with an image, found by its file or new, and nothing else changed.
Fresh(sl, cache, s, f) ==
  /\ s \in Slots /\ sl = [slots EXCEPT ![s] = sl[s]] /\ sl[s] \in Image /\ sl[s].file = f
  /\ sl[s].references = 1 + (IF Live(s) THEN slots[s].references ELSE 0)
  /\ cache = IF f \in Files THEN [pathCache EXCEPT ![f] = s] ELSE pathCache
  /\ IF Live(s) THEN slots[s].file = f
     ELSE f \in Files => pathCache[f] = None

LEMMA CachedIsLive ==
  ASSUME ImagesInv, NEW f \in Files, pathCache[f] # None
  PROVE  /\ pathCache[f] \in Slots /\ Live(pathCache[f]) /\ slots[pathCache[f]] \in Image
         /\ slots[pathCache[f]].file = f
<1>1. pathCache[f] \in Slots
  BY DEF ImagesInv, StoreTypes
<1>2. Live(pathCache[f]) /\ slots[pathCache[f]].file = f
  BY <1>1 DEF ImagesInv, ReferencesAreOwned
<1>3. QED
  BY <1>1, <1>2, LiveSlot DEF ImagesInv

\* The one way in which pixels that were asked for may be missing: the image
\* was in the store without them, and they had to be read back.
ReadBack(s, own) == Live(s) /\ ~slots[s].pixels /\ ~(own /\ slots[s].prepared)

\* A cached image is found, with its pixels if they have to stay.
LEMMA FoundIsFresh ==
  ASSUME ImagesInv, NEW f \in Files, NEW cpu \in BOOLEAN, NEW retainCpu \in BOOLEAN,
         pathCache[f] # None, NEW i \in Found(f, cpu, retainCpu)
  PROVE  /\ Fresh(i.slots, i.cache, i.slot, f) /\ i.slot = pathCache[f] /\ i.cache = pathCache
         /\ retainCpu => i.slots[i.slot].pixels \/ ReadBack(i.slot, cpu)
<1> DEFINE s == pathCache[f]
           sl == retain(slots, s, 1)
<1>1. PICK k : /\ i = [slot |-> s, cache |-> pathCache, slots |-> k]
               /\ k \in IF ~retainCpu THEN {sl}
                        ELSE IF cpu /\ slots[s].prepared THEN {WithPixels(sl, s)}
                        ELSE retainCpuPixels(sl, s)
  BY DEF Found
<1>2. s \in Slots /\ Live(s) /\ slots[s] \in Image /\ slots[s].file = f
  BY CachedIsLive
<1>3. slots \in [Slots -> Image \cup {None}] /\ pathCache \in [Files -> Slots \cup {None}]
  BY DEF ImagesInv, StoreTypes
<1>4. /\ sl \in [Slots -> Image \cup {None}] /\ sl = [slots EXCEPT ![s] = sl[s]]
      /\ sl[s] \in Image /\ sl[s].file = f /\ sl[s].references = slots[s].references + 1
      /\ sl[s].pixels = slots[s].pixels
  BY <1>2, <1>3, Retained
<1> DEFINE with == WithPixels(sl, s)
<1>5. /\ with = [sl EXCEPT ![s] = with[s]] /\ with[s] \in Image /\ with[s].file = f
      /\ with[s].references = sl[s].references /\ with[s].pixels
  BY <1>2, <1>4, PixelsRetained
<1>6. [pathCache EXCEPT ![f] = s] = pathCache
  BY <1>3
<1>7. slots[s].references \in Nat
  BY <1>2 DEF Image
<1>8. i.slot = s /\ i.cache = pathCache /\ i.slots = k
  BY <1>1
<1>9. /\ k = sl \/ k = with
      /\ retainCpu /\ k = sl => sl[s].pixels \/ ~(cpu /\ slots[s].prepared)
  <2>1. CASE ~retainCpu
    BY <1>1, <2>1
  <2>2. CASE retainCpu /\ cpu /\ slots[s].prepared
    BY <1>1, <1>5, <2>2
  <2>3. CASE retainCpu /\ ~(cpu /\ slots[s].prepared)
    BY <1>1, <2>3 DEF retainCpuPixels
  <2>4. QED
    BY <2>1, <2>2, <2>3
<1> HIDE DEF sl, s, with
<1>10. /\ k = [slots EXCEPT ![s] = k[s]] /\ k[s] \in Image /\ k[s].file = f
       /\ k[s].references = 1 + slots[s].references
  <2>1. CASE k = with
    <3>1. [sl EXCEPT ![s] = k[s]] = [slots EXCEPT ![s] = k[s]]
      BY <1>2, <1>3, <1>4
    <3>2. QED
      BY <1>4, <1>5, <1>7, <2>1, <3>1
  <2>2. CASE k = sl
    BY <1>4, <1>7, <2>2
  <2>3. QED
    BY <1>9, <2>1, <2>2
<1>11. Fresh(i.slots, i.cache, s, f)
  BY <1>2, <1>6, <1>8, <1>10 DEF Fresh
<1>12. retainCpu => k[s].pixels \/ ReadBack(s, cpu)
  <2>1. CASE k = with
    BY <1>5, <2>1
  <2>2. CASE k = sl
    BY <1>2, <1>4, <1>9, <2>2 DEF ReadBack
  <2>3. QED
    BY <1>9, <2>1, <2>2
<1>13. QED
  BY <1>8, <1>11, <1>12 DEF s

\* A slot that was free holds the image.
LEMMA CreatedIsFresh ==
  ASSUME ImagesInv, NEW f \in Files \cup {None}, f \in Files => pathCache[f] = None,
         NEW new \in Image, new.file = f, new.references = 1, NEW i \in Created(f, new)
  PROVE  Fresh(i.slots, i.cache, i.slot, f) /\ i.slots[i.slot] = new
<1>1. PICK s \in Slots :
        /\ ~Live(s)
        /\ i = [slot |-> s, slots |-> [slots EXCEPT ![s] = new],
                cache |-> IF f \in Files THEN [pathCache EXCEPT ![f] = s] ELSE pathCache]
  BY DEF Created
<1>2. slots \in [Slots -> Image \cup {None}]
  BY DEF ImagesInv, StoreTypes
<1>3. [slots EXCEPT ![s] = new][s] = new
  BY <1>2
<1>4. /\ i.slot = s /\ i.slots = [slots EXCEPT ![s] = new]
      /\ i.cache = IF f \in Files THEN [pathCache EXCEPT ![f] = s] ELSE pathCache
  BY <1>1
<1>5. i.slots[s] = new
  BY <1>3, <1>4
<1>6. Fresh(i.slots, i.cache, s, f)
  <2>1. new.references = 1 + (IF Live(s) THEN slots[s].references ELSE 0)
    BY <1>1
  <2>2. IF Live(s) THEN slots[s].file = f ELSE f \in Files => pathCache[f] = None
    BY <1>1
  <2>3. QED
    BY <1>4, <1>5, <2>1, <2>2 DEF Fresh
<1>7. QED
  BY <1>4, <1>5, <1>6

LEMMA InstalledIsFresh ==
  ASSUME ImagesInv, NEW f \in Files, NEW prepared \in BOOLEAN, NEW cpu \in BOOLEAN,
         NEW retainCpu \in BOOLEAN, NEW i \in Installations(f, prepared, cpu, retainCpu),
         i.slot # None
  PROVE  /\ Fresh(i.slots, i.cache, i.slot, f)
         /\ retainCpu /\ (prepared => cpu) => \/ i.slots[i.slot].pixels
                                             \/ ReadBack(i.slot, prepared)
<1>1. CASE pathCache[f] # None
  <2>1. PICK own \in BOOLEAN : own = (prepared /\ cpu)
    OBVIOUS
  <2>2. i \in Found(f, own, retainCpu)
    BY <1>1, <2>1 DEF Installations
  <2>3. /\ Fresh(i.slots, i.cache, i.slot, f)
        /\ retainCpu => i.slots[i.slot].pixels \/ ReadBack(i.slot, own)
    BY <1>1, <2>2, FoundIsFresh
  <2>4. (prepared => cpu) => own = prepared
    BY <2>1
  <2>5. QED
    BY <2>3, <2>4
<1>2. CASE pathCache[f] = None
  <2> DEFINE pixels == IF prepared THEN cpu ELSE retainCpu
             new == NewSlot(f, prepared, pixels, retainCpu)
  <2>1. i = Failed \/ i \in Created(f, new)
    BY <1>2 DEF Installations
  <2>2. i # Failed
    BY DEF Failed
  <2>3. pixels \in BOOLEAN
    OBVIOUS
  <2>4. new \in Image /\ new.file = f /\ new.references = 1 /\ new.pixels = pixels
    BY <2>3, NewSlotFits
  <2> HIDE DEF new
  <2>5. Fresh(i.slots, i.cache, i.slot, f) /\ i.slots[i.slot] = new
    BY <1>2, <2>1, <2>2, <2>4, CreatedIsFresh
  <2>6. QED
    BY <2>4, <2>5
<1>3. QED
  BY <1>1, <1>2

LEMMA BytesDecodedKeeps == ASSUME ImagesInv, NEW r \in Requests, BytesDecoded(r) PROVE ImagesInv'
<1>1. requests[r].at = "bytes"
  BY DEF BytesDecoded
<1>2. requests[r].source \in Blobs
  BY <1>1, RequestParts DEF ImagesInv, LoadTypes
<1> DEFINE new == NewSlot(None, FALSE, TRUE, TRUE)
<1>3. new \in Image /\ new.file = None /\ new.references = 1
  BY NewSlotFits
<1> HIDE DEF new
<1>4. PICK i \in {Failed} \cup Created(None, new) :
        /\ slots' = i.slots
        /\ requests' = [requests EXCEPT ![r] = Arriving(requests[r].source, i.slot)]
  BY DEF BytesDecoded, new
<1>5. CASE i = Failed
  <2>1. i.slot = None /\ slots' = slots
    BY <1>4, <1>5 DEF Failed
  <2> DEFINE q == Arriving(requests[r].source, None)
  <2>2. IsRequest(q) /\ q.at = "arriving" /\ q.image = None
    BY <1>2, Arrivals DEF AnySource
  <2> HIDE DEF q
  <2>3. requests' = [requests EXCEPT ![r] = q]
    BY <1>4, <2>1 DEF q
  <2>4. QED
    BY <1>1, <2>1, <2>2, <2>3, RequestGoesOn DEF BytesDecoded, HasImage
<1>6. CASE i \in Created(None, new)
  <2>1. Fresh(i.slots, i.cache, i.slot, None)
    BY <1>3, <1>6, CreatedIsFresh, Names
  <2>2. Installs(i.slot, None, 1) /\ i.slot \in Slots
    BY <1>4, <2>1, Names DEF Fresh, Installs, BytesDecoded
  <2>3. FileOf(requests[r].source) = None
    BY <1>2, Names DEF FileOf
  <2>4. QED
    BY <1>1, <1>2, <1>4, <2>2, <2>3, RequestIsServed DEF BytesDecoded, AnySource
<1>7. QED
  BY <1>4, <1>5, <1>6

LEMMA LoadCachedKeeps ==
  ASSUME ImagesInv, NEW r \in Requests, NEW f \in Files, NEW retainCpu \in BOOLEAN,
         LoadCached(r, f, retainCpu)
  PROVE  ImagesInv'
<1> DEFINE s == pathCache[f]
<1>1. /\ requests[r].at = "task" /\ s # None
      /\ requests' = [requests EXCEPT ![r] = Arriving(f, s)]
      /\ UNCHANGED <<pathCache, jobs, elements, held>>
  BY DEF LoadCached, Starts
<1>2. PICK i \in Found(f, FALSE, retainCpu) : slots' = i.slots
  BY DEF LoadCached
<1>3. Fresh(i.slots, i.cache, i.slot, f) /\ i.slot = s /\ i.cache = pathCache
  BY <1>1, <1>2, FoundIsFresh
<1> HIDE DEF s
<1>4. Installs(s, f, 1) /\ s \in Slots
  BY <1>1, <1>2, <1>3 DEF Fresh, Installs
<1>5. FileOf(f) = f /\ f \in AnySource
  BY DEF FileOf, AnySource
<1>6. QED
  BY <1>1, <1>4, <1>5, RequestIsServed

----------------------------------------------------------------------------
(* Jobs.                                                                   *)

JobOK(f, j) ==
  /\ j.callers # {} /\ \A r \in Requests : r \in j.callers <=> WaitsFor(r, f)
  /\ \A r \in j.callers : requests[r].retainCpu => j.retainCpu
  /\ j.at = "executed" /\ j.prepared => j.cpu = j.prepareCpu

LEMMA JobParts ==
  ASSUME ImagesInv, NEW f \in Files, jobs[f] # None
  PROVE  jobs[f] \in Job /\ JobOK(f, jobs[f])
BY DEF ImagesInv, LoadTypes, JobsInv, JobOK

\* A job changes and keeps its callers.
LEMMA JobKeeps ==
  ASSUME ImagesInv, NEW f \in Files, NEW j \in Job, jobs' = [jobs EXCEPT ![f] = j], jobs[f] # None,
         JobOK(f, j), UNCHANGED <<slots, pathCache, elements, requests, held>>
  PROVE  ImagesInv'
<1>1. /\ \A g \in Files : jobs'[g] = IF g = f THEN j ELSE jobs[g]
      /\ jobs' \in [Files -> Job \cup {None}] /\ j # None
  BY Names DEF ImagesInv, LoadTypes
<1>2. LoadTypes'
  BY <1>1 DEF ImagesInv, LoadTypes
<1>3. JobsInv'
  BY <1>1 DEF ImagesInv, JobsInv, JobOK, WaitsFor
<1>4. NotYet' /\ StoreTypes' /\ ReferencesAreOwned'
  BY StoreStays DEF ImagesInv, NotYet
<1>5. QED
  BY <1>2, <1>3, <1>4 DEF ImagesInv

\* A request joins the job of its file, or begins it.
LEMMA RequestJoins ==
  ASSUME ImagesInv, NEW r \in Requests, NEW f \in Files, NEW retainCpu \in BOOLEAN,
         requests[r].at = "task", requests' = [requests EXCEPT ![r] = Waiting(f, retainCpu)],
         NEW j \in Job, jobs' = [jobs EXCEPT ![f] = j], retainCpu => j.retainCpu,
         j.callers = {r} \cup (IF jobs[f] = None THEN {} ELSE jobs[f].callers),
         jobs[f] # None => (jobs[f].retainCpu => j.retainCpu),
         j.at = "executed" /\ j.prepared => j.cpu = j.prepareCpu,
         UNCHANGED <<slots, pathCache, elements, held>>
  PROVE  ImagesInv'
<1> DEFINE q == Waiting(f, retainCpu)
<1>1. q.at = "waiting" /\ q.source = f /\ q.retainCpu = retainCpu /\ IsRequest(q)
  BY DEF Waiting, IsRequest
<1> HIDE DEF q
<1>2. /\ requests' = [requests EXCEPT ![r] = q]
      /\ \A x \in Requests : requests'[x] = IF x = r THEN q ELSE requests[x]
      /\ \A g \in Files : jobs'[g] = IF g = f THEN j ELSE jobs[g]
  BY DEF q, ImagesInv, LoadTypes
<1>3. LoadTypes'
  <2>1. requests' = [x \in Requests |-> requests'[x]]
    BY <1>2 DEF ImagesInv, LoadTypes
  <2>2. \A x \in Requests : IsRequest(requests'[x])
    BY <1>1, <1>2 DEF ImagesInv, LoadTypes
  <2>3. jobs' \in [Files -> Job \cup {None}]
    BY DEF ImagesInv, LoadTypes
  <2>4. QED
    BY <2>1, <2>2, <2>3 DEF ImagesInv, LoadTypes
<1>4. /\ \A g \in Files, x \in Requests : x # r => (WaitsFor(x, g)' <=> WaitsFor(x, g))
      /\ \A g \in Files : ~WaitsFor(r, g) /\ (WaitsFor(r, g)' <=> g = f)
  BY <1>1, <1>2 DEF WaitsFor
<1>5. ASSUME NEW g \in Files, jobs'[g] # None PROVE JobOK(g, jobs[g])'
  <2>1. CASE g # f
    <3>1. jobs[g] # None /\ JobOK(g, jobs[g]) /\ jobs[g] \in Job /\ jobs'[g] = jobs[g]
      BY <1>2, <1>5, <2>1, JobParts
    <3>2. r \notin jobs[g].callers /\ jobs[g].callers \subseteq Requests
      BY <1>4, <3>1 DEF JobOK, Job
    <3>3. QED
      BY <1>2, <1>4, <2>1, <3>1, <3>2 DEF JobOK
  <2>2. CASE g = f
    <3>1. jobs'[g] = j
      BY <1>2, <2>2
    <3>2. CASE jobs[f] = None
      <4>1. \A x \in Requests : ~WaitsFor(x, f)
        BY <3>2 DEF ImagesInv, JobsInv
      <4>2. j.callers = {r} /\ \A x \in j.callers : x = r
        BY <3>2
      <4>3. QED
        BY <1>1, <1>2, <1>4, <2>2, <3>1, <4>1, <4>2 DEF JobOK
    <3>3. CASE jobs[f] # None
      <4>1. jobs[f] \in Job /\ JobOK(f, jobs[f])
        BY <3>3, JobParts
      <4>2. j.callers = {r} \cup jobs[f].callers /\ jobs[f].callers \subseteq Requests
        BY <3>3, <4>1 DEF Job
      <4>3. \A x \in Requests : x \in j.callers <=> WaitsFor(x, f)'
        BY <1>4, <4>1, <4>2 DEF JobOK
      <4>4. \A x \in j.callers : requests'[x].retainCpu => j.retainCpu
        BY <1>1, <1>2, <3>3, <4>1, <4>2 DEF JobOK
      <4>5. QED
        BY <2>2, <3>1, <4>2, <4>3, <4>4 DEF JobOK
    <3>4. QED
      BY <3>2, <3>3
  <2>3. QED
    BY <2>1, <2>2
<1>6. ASSUME NEW g \in Files, jobs'[g] = None PROVE \A x \in Requests : ~WaitsFor(x, g)'
  <2>1. g # f /\ jobs[g] = None
    BY <1>2, <1>6, Names
  <2>2. \A x \in Requests : ~WaitsFor(x, g)
    BY <2>1 DEF ImagesInv, JobsInv
  <2>3. QED
    BY <1>4, <2>1, <2>2
<1>7. JobsInv'
  BY <1>5, <1>6 DEF JobsInv, JobOK
<1>8. NotYet'
  <2>1. requests[r] # Ended
    BY DEF Ended
  <2>2. QED
    BY <1>2, <2>1 DEF ImagesInv, NotYet
<1>9. StoreTypes' /\ ReferencesAreOwned'
  <2>1. \A x \in Requests : HasImage(requests[x]) \/ HasImage(requests'[x]) =>
          requests'[x] = requests[x]
    BY <1>1, <1>2 DEF HasImage
  <2>2. QED
    BY <2>1, StoreStays
<1>10. QED
  BY <1>3, <1>7, <1>8, <1>9 DEF ImagesInv

LEMMA LoadCoalescedKeeps ==
  ASSUME ImagesInv, NEW r \in Requests, NEW f \in Files, NEW retainCpu \in BOOLEAN,
         LoadCoalesced(r, f, retainCpu)
  PROVE  ImagesInv'
<1>1. requests[r].at = "task" /\ jobs[f] # None
  BY DEF LoadCoalesced, Starts
<1>2. jobs[f] \in Job /\ JobOK(f, jobs[f])
  BY <1>1, JobParts
<1> DEFINE j == [jobs[f] EXCEPT !.retainCpu = jobs[f].retainCpu \/ retainCpu,
                                !.callers = jobs[f].callers \cup {r}]
<1>3. jobs' = [jobs EXCEPT ![f] = j]
  BY DEF LoadCoalesced, ImagesInv, LoadTypes
<1>4. /\ j \in Job /\ j.callers = {r} \cup jobs[f].callers
      /\ j.retainCpu = (jobs[f].retainCpu \/ retainCpu)
      /\ j.at = jobs[f].at /\ j.prepared = jobs[f].prepared /\ j.cpu = jobs[f].cpu
      /\ j.prepareCpu = jobs[f].prepareCpu
  BY <1>2 DEF Job
<1> HIDE DEF j
<1>5. /\ retainCpu => j.retainCpu
      /\ jobs[f].retainCpu => j.retainCpu
      /\ j.at = "executed" /\ j.prepared => j.cpu = j.prepareCpu
      /\ j.callers = {r} \cup (IF jobs[f] = None THEN {} ELSE jobs[f].callers)
  BY <1>1, <1>2, <1>4 DEF JobOK
<1>6. /\ requests' = [requests EXCEPT ![r] = Waiting(f, retainCpu)]
      /\ UNCHANGED <<slots, pathCache, elements, held>>
  BY DEF LoadCoalesced
<1>7. QED
  BY <1>1, <1>3, <1>4, <1>5, <1>6, RequestJoins

LEMMA LoadQueuedKeeps ==
  ASSUME ImagesInv, NEW r \in Requests, NEW f \in Files, NEW retainCpu \in BOOLEAN,
         LoadQueued(r, f, retainCpu)
  PROVE  ImagesInv'
<1>1. PICK prepared \in BOOLEAN :
        jobs' = [jobs EXCEPT ![f] =
          [at |-> "queued", prepared |-> prepared, prepareCpu |-> retainCpu, retainCpu |-> retainCpu,
           cpu |-> FALSE, decoded |-> FALSE, callers |-> {r}]]
  BY DEF LoadQueued
<1> DEFINE j == [at |-> "queued", prepared |-> prepared, prepareCpu |-> retainCpu,
                 retainCpu |-> retainCpu, cpu |-> FALSE, decoded |-> FALSE, callers |-> {r}]
<1>2. j \in Job /\ j.callers = {r} /\ j.retainCpu = retainCpu /\ j.at = "queued"
  BY DEF Job
<1>3. jobs' = [jobs EXCEPT ![f] = j]
  BY <1>1
<1> HIDE DEF j
<1>4. /\ requests' = [requests EXCEPT ![r] = Waiting(f, retainCpu)] /\ jobs[f] = None
      /\ UNCHANGED <<slots, pathCache, elements, held>> /\ requests[r].at = "task"
  BY DEF LoadQueued, Starts
<1>5. j.callers = {r} \cup (IF jobs[f] = None THEN {} ELSE jobs[f].callers)
  BY <1>2, <1>4
<1>6. QED
  BY <1>2, <1>3, <1>4, <1>5, RequestJoins

LEMMA ExecuteKeeps == ASSUME ImagesInv, NEW f \in Files, executeImageLoad(f) PROVE ImagesInv'
<1>1. jobs[f] # None /\ jobs[f].at = "queued"
  BY DEF executeImageLoad
<1>2. jobs[f] \in Job /\ JobOK(f, jobs[f])
  BY <1>1, JobParts
<1>3. ASSUME NEW j, jobs' = [jobs EXCEPT ![f] = j], j \in Job, j.callers = jobs[f].callers,
             j.retainCpu = jobs[f].retainCpu, j.prepared => j.cpu = j.prepareCpu
      PROVE  ImagesInv'
  <2>1. JobOK(f, j)
    BY <1>2, <1>3 DEF JobOK
  <2>2. QED
    BY <1>1, <1>3, <2>1, JobKeeps DEF executeImageLoad
<1>4. ASSUME jobs[f].prepared,
             jobs' = [jobs EXCEPT ![f].at = "executed", ![f].cpu = jobs[f].prepareCpu]
      PROVE  ImagesInv'
  <2> DEFINE j == [jobs[f] EXCEPT !.at = "executed", !.cpu = jobs[f].prepareCpu]
  <2>1. jobs' = [jobs EXCEPT ![f] = j]
    BY <1>4 DEF ImagesInv, LoadTypes
  <2>2. /\ j \in Job /\ j.callers = jobs[f].callers /\ j.retainCpu = jobs[f].retainCpu
        /\ j.cpu = j.prepareCpu
    BY <1>2 DEF Job
  <2> HIDE DEF j
  <2>3. QED
    BY <1>3, <2>1, <2>2
<1>5. ASSUME NEW decoded \in BOOLEAN,
             jobs' = [jobs EXCEPT ![f].at = "executed", ![f].prepared = FALSE, ![f].decoded = decoded]
      PROVE  ImagesInv'
  <2> DEFINE j == [jobs[f] EXCEPT !.at = "executed", !.prepared = FALSE, !.decoded = decoded]
  <2>1. jobs' = [jobs EXCEPT ![f] = j]
    BY <1>5 DEF ImagesInv, LoadTypes
  <2>2. /\ j \in Job /\ j.callers = jobs[f].callers /\ j.retainCpu = jobs[f].retainCpu
        /\ ~j.prepared
    BY <1>2 DEF Job
  <2> HIDE DEF j
  <2>3. QED
    BY <1>3, <2>1, <2>2
<1>6. QED
  BY <1>4, <1>5 DEF executeImageLoad

\* The callers of a job get its result, and nobody waits for the file.
LEMMA JobEnds ==
  ASSUME ImagesInv, NEW f \in Files, jobs[f] # None, NEW s \in Slots \cup {None}, Ends(f, s),
         UNCHANGED <<elements, held>>
  PROVE  /\ LoadTypes' /\ JobsInv' /\ NotYet'
         /\ jobs[f].callers \subseteq Requests /\ Cardinality(jobs[f].callers) \in Nat \ {0}
         /\ \A r \in Requests : requests'[r] = IF r \in jobs[f].callers THEN Arriving(f, s)
                                               ELSE requests[r]
         /\ \A t \in Slots : Cardinality(Bringing(t))' = Cardinality(Bringing(t))
              + (IF t = s THEN Cardinality(jobs[f].callers) ELSE 0)
<1>1. jobs[f] \in Job /\ JobOK(f, jobs[f])
  BY JobParts
<1> DEFINE C == jobs[f].callers
           q == Arriving(f, s)
<1>2. C \subseteq Requests /\ C # {} /\ \A r \in C : WaitsFor(r, f)
  BY <1>1 DEF Job, JobOK
<1>3. IsFiniteSet(C) /\ Cardinality(C) \in Nat \ {0}
  <2>1. IsFiniteSet(C)
    BY <1>2, Finite, FS_Subset
  <2>2. Cardinality(C) \in Nat /\ Cardinality(C) # 0
    BY <1>2, <2>1, FS_EmptySet, FS_CardinalityType
  <2>3. QED
    BY <2>1, <2>2
<1>4. q.at = "arriving" /\ q.image = s /\ IsRequest(q)
  BY Arrivals DEF AnySource
<1>5. \A r \in C : requests[r].at = "waiting" /\ requests[r].source = f
  BY <1>2 DEF WaitsFor
<1>6. /\ requests' = [r \in Requests |-> IF r \in C THEN q ELSE requests[r]]
      /\ jobs' = [jobs EXCEPT ![f] = None]
  BY DEF Ends, Answered, Callers
<1>7. \A g \in Files : jobs'[g] = IF g = f THEN None ELSE jobs[g]
  BY <1>6 DEF ImagesInv, LoadTypes
<1> HIDE DEF C, q
<1>8. \A r \in Requests : requests'[r] = IF r \in C THEN q ELSE requests[r]
  BY <1>6
<1>9. LoadTypes'
  <2>1. requests' = [r \in Requests |-> requests'[r]]
    BY <1>6
  <2>2. \A r \in Requests : IsRequest(requests'[r])
    BY <1>4, <1>8 DEF ImagesInv, LoadTypes
  <2>3. jobs' \in [Files -> Job \cup {None}]
    BY <1>6 DEF ImagesInv, LoadTypes
  <2>4. QED
    BY <2>1, <2>2, <2>3 DEF ImagesInv, LoadTypes
<1>10. JobsInv'
  <2>1. \A r \in Requests, g \in Files : WaitsFor(r, g)' <=> WaitsFor(r, g) /\ g # f
    <3> TAKE r \in Requests, g \in Files
    <3>1. CASE r \in C
      BY <1>4, <1>5, <1>8, <3>1 DEF WaitsFor
    <3>2. CASE r \notin C
      <4>1. ~WaitsFor(r, f)
        BY <1>1, <3>2 DEF JobOK, C
      <4>2. QED
        BY <1>8, <3>2, <4>1 DEF WaitsFor
    <3>3. QED
      BY <3>1, <3>2
  <2>2. ASSUME NEW g \in Files, g # f, jobs[g] # None PROVE JobOK(g, jobs[g])'
    <3>1. jobs[g] \in Job /\ JobOK(g, jobs[g]) /\ jobs'[g] = jobs[g]
      BY <1>7, <2>2, JobParts
    <3>2. jobs[g].callers \subseteq Requests
      BY <3>1 DEF Job
    <3>3. \A r \in jobs[g].callers : r \notin C
      BY <1>5, <2>2, <3>1, <3>2 DEF JobOK, WaitsFor
    <3>4. \A r \in jobs[g].callers : requests'[r] = requests[r]
      BY <1>8, <3>2, <3>3
    <3>5. QED
      BY <2>1, <2>2, <3>1, <3>4 DEF JobOK
  <2>3. ASSUME NEW g \in Files, jobs'[g] = None PROVE \A r \in Requests : ~WaitsFor(r, g)'
    <3>1. g = f \/ jobs[g] = None
      BY <1>7, <2>3
    <3>2. QED
      BY <2>1, <3>1 DEF ImagesInv, JobsInv
  <2>4. QED
    BY <1>7, <2>2, <2>3 DEF JobsInv, JobOK
<1>11. NotYet'
  <2> SUFFICES ASSUME NEW r \in Requests, r[2] > elements[r[1]].generation
               PROVE  requests'[r] = Ended
    BY DEF NotYet
  <2>1. requests[r] = Ended
    BY DEF ImagesInv, NotYet
  <2>2. r \notin C
    BY <1>5, <2>1 DEF Ended
  <2>3. QED
    BY <1>8, <2>1, <2>2
<1>12. ASSUME NEW t \in Slots
       PROVE  Cardinality(Bringing(t))' = Cardinality(Bringing(t))
                + (IF t = s THEN Cardinality(C) ELSE 0)
  <2>1. CASE t = s
    <3>1. Bringing(t)' = Bringing(t) \cup C /\ Bringing(t) \cap C = {}
      BY <1>2, <1>4, <1>5, <1>8, <2>1 DEF Bringing
    <3>2. Cardinality(Bringing(t) \cup C) = Cardinality(Bringing(t)) + Cardinality(C) - Cardinality({})
      BY <1>3, <3>1, Countable, FS_Union
    <3>3. Cardinality({}) = 0
      BY FS_EmptySet
    <3>4. QED
      BY <1>3, <2>1, <3>1, <3>2, <3>3, Countable
  <2>2. CASE t # s
    <3>1. Bringing(t)' = Bringing(t)
      BY <1>2, <1>4, <1>5, <1>8, <2>2 DEF Bringing
    <3>2. QED
      BY <2>2, <3>1, Countable
  <2>3. QED
    BY <2>1, <2>2
<1>13. QED
  BY <1>2, <1>3, <1>8, <1>9, <1>10, <1>11, <1>12 DEF C, q

LEMMA RejectsKeeps ==
  ASSUME ImagesInv, NEW f \in Files, jobs[f] # None, Rejects(f), UNCHANGED <<elements, held>>
  PROVE  ImagesInv'
<1>1. Ends(f, None) /\ UNCHANGED <<slots, pathCache>>
  BY DEF Rejects
<1>2. /\ LoadTypes' /\ JobsInv' /\ NotYet'
      /\ \A r \in Requests : requests'[r] = IF r \in jobs[f].callers THEN Arriving(f, None)
                                            ELSE requests[r]
  BY <1>1, JobEnds
<1>3. jobs[f].callers \subseteq Requests /\ \A r \in jobs[f].callers : requests[r].at = "waiting"
  BY JobParts DEF JobOK, Job, WaitsFor
<1>4. \A r \in Requests : HasImage(requests[r]) \/ HasImage(requests'[r]) =>
        requests'[r] = requests[r]
  BY <1>2, <1>3, Arrivals DEF HasImage
<1>5. StoreTypes' /\ ReferencesAreOwned'
  BY <1>1, <1>4, StoreStays
<1>6. QED
  BY <1>2, <1>5 DEF ImagesInv

\* The install step of a job: as many references as callers.
LEMMA InstalledJob ==
  ASSUME ImagesInv, NEW f \in Files, jobs[f] # None, NEW i, i.slot # None,
         Fresh(i.slots, i.cache, i.slot, f),
         slots' = retain(i.slots, i.slot, Cardinality(jobs[f].callers) - 1),
         pathCache' = i.cache, Ends(f, i.slot), UNCHANGED <<elements, held>>
  PROVE  /\ ImagesInv'
         /\ i.slots[i.slot].pixels => slots'[i.slot].pixels
<1> DEFINE s == i.slot
           n == Cardinality(jobs[f].callers)
<1>1. s \in Slots /\ i.slots = [slots EXCEPT ![s] = i.slots[s]] /\ i.slots[s] \in Image
  BY DEF Fresh
<1>2. i.slots \in [Slots -> Image \cup {None}]
  BY <1>1 DEF ImagesInv, StoreTypes
<1>3. /\ LoadTypes' /\ JobsInv' /\ NotYet' /\ n \in Nat \ {0} /\ n - 1 \in Nat
      /\ \A r \in Requests : requests'[r] = IF r \in jobs[f].callers THEN Arriving(f, s)
                                            ELSE requests[r]
      /\ \A t \in Slots : Cardinality(Bringing(t))' = Cardinality(Bringing(t))
           + (IF t = s THEN n ELSE 0)
  BY <1>1, JobEnds
<1> HIDE DEF s, n
<1>4. /\ slots' = [i.slots EXCEPT ![s] = slots'[s]] /\ slots'[s] \in Image
      /\ slots'[s].file = i.slots[s].file
      /\ slots'[s].references = i.slots[s].references + (n - 1)
      /\ slots'[s].pixels = i.slots[s].pixels
  <2>1. slots' = retain(i.slots, s, n - 1)
    BY DEF s, n
  <2>2. QED
    BY <1>1, <1>2, <1>3, <2>1, Retained
<1>5. slots' = [slots EXCEPT ![s] = slots'[s]]
  <2>1. slots \in [Slots -> Image \cup {None}]
    BY DEF ImagesInv, StoreTypes
  <2>2. [[slots EXCEPT ![s] = i.slots[s]] EXCEPT ![s] = slots'[s]] = [slots EXCEPT ![s] = slots'[s]]
    BY <1>1, <2>1
  <2>3. QED
    BY <1>1, <1>4, <2>2
<1>6. slots'[s].references = n + (IF Live(s) THEN slots[s].references ELSE 0)
  <2>1. i.slots[s].references = 1 + (IF Live(s) THEN slots[s].references ELSE 0)
    BY DEF Fresh, s
  <2>2. Live(s) => slots[s].references \in Nat
    BY <1>1, LiveSlot DEF ImagesInv, Image
  <2>3. QED
    BY <1>3, <1>4, <2>1, <2>2
<1>7. Installs(s, f, n)
  BY <1>4, <1>5, <1>6 DEF Fresh, Installs, s
<1>8. ASSUME NEW t \in Slots PROVE Owners(t)' = Owners(t) + (IF t = s THEN n ELSE 0)
  <2>1. Cardinality(Showing(t))' = Cardinality(Showing(t))
    BY SameShowing
  <2>2. QED
    BY <1>3, <2>1, Countable DEF Owners
<1>9. \A r \in Requests : HasImage(requests'[r]) =>
        \/ HasImage(requests[r]) /\ requests'[r] = requests[r]
        \/ requests'[r].image = s /\ FileOf(requests'[r].source) = f
  BY <1>3, Arrivals DEF FileOf
<1>10. StoreTypes' /\ ReferencesAreOwned'
  BY <1>1, <1>3, <1>7, <1>8, <1>9, InstallKeeps
<1>11. QED
  BY <1>3, <1>4, <1>10 DEF ImagesInv, s

\* What an executed job comes to.
LEMMA CompleteKeeps == ASSUME ImagesInv, NEW f \in Files, completeImageLoad(f) PROVE ImagesInv'
<1> DEFINE j == jobs[f]
<1>1. j # None /\ j.at = "executed" /\ UNCHANGED <<elements, held>>
  BY DEF completeImageLoad
<1>2. j \in Job /\ JobOK(f, j)
  BY <1>1, JobParts
<1> HIDE DEF j
<1>3. ASSUME NEW k \in Job, Requeues(f, k), k.callers = j.callers, k.retainCpu = j.retainCpu,
             k.at = "queued"
      PROVE  ImagesInv'
  <2>1. JobOK(f, k)
    BY <1>2, <1>3 DEF JobOK
  <2>2. QED
    BY <1>1, <1>3, <2>1, JobKeeps DEF Requeues, j
<1>4. CASE Rejects(f)
  BY <1>1, <1>4, RejectsKeeps DEF j
<1>5. CASE Requeues(f, [j EXCEPT !.at = "queued", !.prepareCpu = TRUE])
  <2> DEFINE k == [j EXCEPT !.at = "queued", !.prepareCpu = TRUE]
  <2>1. k \in Job /\ k.callers = j.callers /\ k.retainCpu = j.retainCpu /\ k.at = "queued"
    BY <1>2 DEF Job
  <2> HIDE DEF k
  <2>2. Requeues(f, k)
    BY <1>5 DEF k
  <2>3. QED
    BY <1>3, <2>1, <2>2
<1>6. CASE Requeues(f, [j EXCEPT !.at = "queued", !.prepared = FALSE])
  <2> DEFINE k == [j EXCEPT !.at = "queued", !.prepared = FALSE]
  <2>1. k \in Job /\ k.callers = j.callers /\ k.retainCpu = j.retainCpu /\ k.at = "queued"
    BY <1>2 DEF Job
  <2> HIDE DEF k
  <2>2. Requeues(f, k)
    BY <1>6 DEF k
  <2>3. QED
    BY <1>3, <2>1, <2>2
<1>7. ASSUME NEW i \in Installations(f, j.prepared, j.cpu, j.retainCpu), i.slot # None,
             slots' = retain(i.slots, i.slot, Cardinality(j.callers) - 1),
             pathCache' = i.cache, Ends(f, i.slot)
      PROVE  ImagesInv'
  <2>1. j.prepared \in BOOLEAN /\ j.cpu \in BOOLEAN /\ j.retainCpu \in BOOLEAN
    BY <1>2 DEF Job
  <2>2. Fresh(i.slots, i.cache, i.slot, f)
    BY <1>7, <2>1, InstalledIsFresh
  <2>3. QED
    BY <1>1, <1>7, <2>2, InstalledJob DEF j
<1>8. CASE \E i \in Installations(f, j.prepared, j.cpu, j.retainCpu) :
              /\ i.slot # None
              /\ slots' = retain(i.slots, i.slot, Cardinality(j.callers) - 1)
              /\ pathCache' = i.cache /\ Ends(f, i.slot)
  BY <1>7, <1>8
<1>9. \/ Rejects(f)
      \/ Requeues(f, [j EXCEPT !.at = "queued", !.prepareCpu = TRUE])
      \/ Requeues(f, [j EXCEPT !.at = "queued", !.prepared = FALSE])
      \/ \E i \in Installations(f, j.prepared, j.cpu, j.retainCpu) :
           /\ i.slot # None
           /\ slots' = retain(i.slots, i.slot, Cardinality(j.callers) - 1)
           /\ pathCache' = i.cache /\ Ends(f, i.slot)
  BY DEF completeImageLoad, j
<1>10. QED
  BY <1>4, <1>5, <1>6, <1>8, <1>9

----------------------------------------------------------------------------
(* Elements.                                                               *)

Shown == [generation : Nat, shows : Slots \cup {None, Fallback}]

\* No source: what the element shows is let go of.
LEMMA ClearedKeeps ==
  ASSUME ImagesInv, NEW e \in Elements, SetSource(e, None) PROVE ImagesInv'
<1> DEFINE s == elements[e].shows
<1>0. PICK x : x = [generation |-> elements[e].generation + 1, shows |-> None]
  OBVIOUS
<1>1. /\ elements' = [elements EXCEPT ![e] = x] /\ slots' = release(slots, s)
      /\ UNCHANGED <<requests, pathCache, jobs, held>>
  BY <1>0 DEF SetSource
<1>2. /\ elements \in [Elements -> Shown] /\ elements[e] \in Shown
      /\ elements[e].generation \in Nat
  BY DEF ImagesInv, LoadTypes, Shown
<1>3. x \in Shown /\ x.shows = None /\ x.generation = elements[e].generation + 1
  BY <1>0, <1>2 DEF Shown
<1>4. \A d \in Elements : elements'[d] = IF d = e THEN x ELSE elements[d]
  BY <1>1, <1>2
<1>5. LoadTypes'
  <2>1. elements' \in [Elements -> Shown]
    BY <1>1, <1>2, <1>3
  <2>2. QED
    BY <1>1, <2>1 DEF ImagesInv, LoadTypes, Shown
<1>6. JobsInv'
  BY <1>1 DEF ImagesInv, JobsInv, WaitsFor
<1>7. NotYet'
  <2> SUFFICES ASSUME NEW r \in Requests, r[2] > elements'[r[1]].generation
               PROVE  requests[r] = Ended
    BY <1>1 DEF NotYet
  <2>1. r[1] \in Elements /\ r[2] \in Nat /\ elements[r[1]].generation \in Nat
    BY <1>2, ImagesOK DEF Requests, Shown
  <2>2. r[2] > elements[r[1]].generation
    BY <1>3, <1>4, <2>1
  <2>3. QED
    BY <2>2 DEF ImagesInv, NotYet
<1>8. ASSUME NEW t \in Slots PROVE Owners(t)' = Owners(t) - (IF t = s THEN 1 ELSE 0)
  <2>1. Cardinality(Showing(t))' = Cardinality(Showing(t)) - (IF t = s THEN 1 ELSE 0)
    <3>1. x.shows # t
      BY <1>3, Names
    <3>2. Cardinality(Showing(t))' = Cardinality(Showing(t))
            - (IF Shows(elements[e], t) THEN 1 ELSE 0) + (IF Shows(x, t) THEN 1 ELSE 0)
      <4>1. LoadTypes /\ elements' = [elements EXCEPT ![e] = x]
        BY <1>1 DEF ImagesInv
      <4>2. QED
        BY <4>1, ElementCounts
    <3>3. QED
      BY <3>1, <3>2, Countable DEF Shows
  <2>2. Cardinality(Bringing(t))' = Cardinality(Bringing(t))
    <3>1. Bringing(t)' = Bringing(t)
      BY <1>1 DEF Bringing
    <3>2. QED
      BY <3>1
  <2>3. QED
    BY <1>1, <2>1, <2>2, Countable DEF Owners
<1> HIDE DEF s
<1>9. StoreTypes' /\ ReferencesAreOwned'
  BY <1>1, <1>5, <1>8, ReleaseKeeps DEF HasImage
<1>10. QED
  BY <1>5, <1>6, <1>7, <1>9 DEF ImagesInv

\* A new source: the request of the new generation begins.
LEMMA SourceSetKeeps ==
  ASSUME ImagesInv, NEW e \in Elements, NEW from \in AnySource, SetSource(e, from) PROVE ImagesInv'
<1> DEFINE g == elements[e].generation + 1
           q == [at |-> "task", source |-> from]
<1>1. /\ elements' = [elements EXCEPT ![e].generation = g]
      /\ requests' = [requests EXCEPT ![<<e, g>>] = q]
      /\ UNCHANGED <<slots, pathCache, jobs, held>>
  BY Names DEF SetSource, AnySource
<1>2. /\ elements \in [Elements -> Shown] /\ elements[e] \in Shown
      /\ elements[e].generation \in Nat
  BY DEF ImagesInv, LoadTypes, Shown
<1>3. q.at = "task" /\ IsRequest(q)
  BY DEF IsRequest
<1>4. g \in Nat /\ g > elements[e].generation
  BY <1>2
<1> HIDE DEF q
<1>5. \A r \in Requests : requests'[r] = IF r = <<e, g>> THEN q ELSE requests[r]
  BY <1>1 DEF ImagesInv, LoadTypes
<1>6. /\ elements' \in [Elements -> Shown]
      /\ \A d \in Elements : /\ elements'[d].shows = elements[d].shows
                            /\ elements'[d].generation = IF d = e THEN g ELSE elements[d].generation
  <2>1. [elements[e] EXCEPT !.generation = g] \in Shown
    BY <1>2, <1>4 DEF Shown
  <2>2. [elements[e] EXCEPT !.generation = g].shows = elements[e].shows
    BY <1>2 DEF Shown
  <2>3. [elements[e] EXCEPT !.generation = g].generation = g
    BY <1>2 DEF Shown
  <2>4. elements' = [elements EXCEPT ![e] = [elements[e] EXCEPT !.generation = g]]
    BY <1>1
  <2>5. \A d \in Elements : elements'[d] = IF d = e THEN [elements[e] EXCEPT !.generation = g]
                                            ELSE elements[d]
    BY <1>2, <2>4
  <2>6. QED
    BY <1>2, <2>1, <2>2, <2>3, <2>4, <2>5
<1>7. \A r \in Requests : r = <<e, g>> => requests[r] = Ended
  BY <1>4 DEF ImagesInv, NotYet
<1> HIDE DEF g
<1>8. LoadTypes'
  <2>1. requests' = [r \in Requests |-> requests'[r]]
    BY <1>1, <1>5 DEF ImagesInv, LoadTypes
  <2>2. \A r \in Requests : IsRequest(requests'[r])
    BY <1>3, <1>5 DEF ImagesInv, LoadTypes
  <2>3. QED
    BY <1>1, <1>6, <2>1, <2>2 DEF ImagesInv, LoadTypes, Shown
<1>9. \A r \in Requests, f \in Files : WaitsFor(r, f)' <=> WaitsFor(r, f)
  BY <1>3, <1>5, <1>7 DEF WaitsFor, Ended
<1>10. \A r \in Requests, f \in Files : WaitsFor(r, f) => requests'[r] = requests[r]
  BY <1>5, <1>7 DEF WaitsFor, Ended
<1>11. JobsInv'
  <2>1. ASSUME NEW f \in Files, jobs[f] # None PROVE JobOK(f, jobs[f])'
    <3>1. jobs[f] \in Job /\ JobOK(f, jobs[f]) /\ jobs' = jobs
      BY <1>1, <2>1, JobParts
    <3>2. \A r \in jobs[f].callers : requests'[r] = requests[r]
      BY <1>10, <3>1 DEF JobOK, Job
    <3>3. QED
      BY <1>9, <3>1, <3>2 DEF JobOK
  <2>2. ASSUME NEW f \in Files, jobs[f] = None PROVE \A r \in Requests : ~WaitsFor(r, f)'
    BY <1>9, <2>2 DEF ImagesInv, JobsInv
  <2>3. QED
    BY <1>1, <2>1, <2>2 DEF JobsInv, JobOK
<1>12. NotYet'
  <2> SUFFICES ASSUME NEW r \in Requests, r[2] > elements'[r[1]].generation
               PROVE  requests'[r] = Ended
    BY DEF NotYet
  <2>1. r[1] \in Elements /\ r[2] \in Nat /\ elements[r[1]].generation \in Nat
    BY <1>2, ImagesOK DEF Requests, Shown
  <2>2. r[2] > elements[r[1]].generation /\ r # <<e, g>>
    BY <1>2, <1>4, <1>6, <2>1
  <2>3. QED
    BY <1>5, <2>2 DEF ImagesInv, NotYet
<1>13. \A r \in Requests : HasImage(requests[r]) \/ HasImage(requests'[r]) =>
         requests'[r] = requests[r]
  BY <1>3, <1>5, <1>7 DEF HasImage, Ended
<1>14. StoreTypes' /\ ReferencesAreOwned'
  BY <1>1, <1>6, <1>13, StoreStays
<1>15. QED
  BY <1>8, <1>11, <1>12, <1>14 DEF ImagesInv

\* An image that is still wanted replaces the one shown.
LEMMA ArrivesInTime ==
  ASSUME ImagesInv, NEW r \in Requests, Arrives(r), current(r) PROVE ImagesInv'
<1> DEFINE q == requests[r]
           e == r[1]
           s == elements[e].shows
           y == IF q.image = None /\ q.source \in Files THEN Fallback ELSE q.image
<1>0. PICK x : x = [elements[e] EXCEPT !.shows = y]
  OBVIOUS
<1>1. /\ q.at = "arriving" /\ slots' = release(slots, s)
      /\ elements' = [elements EXCEPT ![e].shows = y]
      /\ requests' = [requests EXCEPT ![r] = Ended]
      /\ UNCHANGED <<pathCache, jobs, held>>
  BY DEF Arrives
<1>2. q.image \in Slots \cup {None}
  BY <1>1, RequestParts DEF ImagesInv, LoadTypes
<1>3. /\ y \in Slots \cup {None, Fallback}
      /\ \A t \in Slots : y = t <=> q.image = t
  BY <1>2, Names
<1> HIDE DEF y
<1>4. e \in Elements /\ elements \in [Elements -> Shown] /\ elements[e] \in Shown
  BY DEF ImagesInv, LoadTypes, Shown, Requests
<1>5. x \in Shown /\ x.shows = y /\ x.generation = elements[e].generation
  BY <1>0, <1>3, <1>4 DEF Shown
<1>6. elements' = [elements EXCEPT ![e] = x]
  BY <1>0, <1>1
<1>7. \A d \in Elements : elements'[d] = IF d = e THEN x ELSE elements[d]
  BY <1>4, <1>6
<1>8. elements' \in [Elements -> Shown]
  BY <1>4, <1>5, <1>6
<1>9. IsRequest(Ended) /\ Ended.at = "over"
  BY DEF IsRequest, Ended
<1> HIDE DEF e
<1>10. \A d \in Elements : elements'[d].generation = elements[d].generation
  BY <1>5, <1>7
<1>11. LoadTypes' /\ JobsInv' /\ NotYet'
  BY <1>1, <1>8, <1>9, <1>10, RequestMoves DEF ImagesInv, LoadTypes, Shown
<1>12. ASSUME NEW t \in Slots PROVE Owners(t)' = Owners(t) - (IF t = s THEN 1 ELSE 0)
  <2>1. LoadTypes
    BY DEF ImagesInv
  <2>2. Cardinality(Showing(t))' = Cardinality(Showing(t))
          - (IF Shows(elements[e], t) THEN 1 ELSE 0) + (IF Shows(x, t) THEN 1 ELSE 0)
    BY <1>4, <1>6, <2>1, ElementCounts
  <2>3. Cardinality(Bringing(t))' = Cardinality(Bringing(t))
          - (IF Brings(q, t) THEN 1 ELSE 0) + (IF Brings(Ended, t) THEN 1 ELSE 0)
    BY <1>1, <2>1, RequestCounts
  <2>4. (Brings(q, t) <=> Shows(x, t)) /\ ~Brings(Ended, t) /\ (Shows(elements[e], t) <=> s = t)
    BY <1>1, <1>3, <1>5, <1>9 DEF Brings, Shows
  <2>5. QED
    BY <1>1, <2>2, <2>3, <2>4, Countable DEF Owners
<1>13. \A d \in Requests : HasImage(requests'[d]) =>
         HasImage(requests[d]) /\ requests'[d] = requests[d]
  BY <1>1, <1>9 DEF ImagesInv, LoadTypes, HasImage
<1> HIDE DEF s
<1>14. StoreTypes' /\ ReferencesAreOwned'
  BY <1>1, <1>11, <1>12, <1>13, ReleaseKeeps
<1>15. QED
  BY <1>11, <1>14 DEF ImagesInv

\* One that is not is let go of.
LEMMA ArrivesLate ==
  ASSUME ImagesInv, NEW r \in Requests, Arrives(r), ~current(r) PROVE ImagesInv'
<1> DEFINE q == requests[r]
           s == q.image
<1>1. /\ q.at = "arriving" /\ slots' = release(slots, s)
      /\ requests' = [requests EXCEPT ![r] = Ended]
      /\ UNCHANGED <<elements, pathCache, jobs, held>>
  BY DEF Arrives
<1>2. IsRequest(Ended) /\ Ended.at = "over"
  BY DEF IsRequest, Ended
<1>3. LoadTypes' /\ JobsInv' /\ NotYet'
  BY <1>1, <1>2, RequestMoves DEF ImagesInv, LoadTypes
<1>4. ASSUME NEW t \in Slots PROVE Owners(t)' = Owners(t) - (IF t = s THEN 1 ELSE 0)
  <2>1. LoadTypes
    BY DEF ImagesInv
  <2>2. Cardinality(Showing(t))' = Cardinality(Showing(t))
    BY <1>1, SameShowing
  <2>3. Cardinality(Bringing(t))' = Cardinality(Bringing(t))
          - (IF Brings(q, t) THEN 1 ELSE 0) + (IF Brings(Ended, t) THEN 1 ELSE 0)
    BY <1>1, <2>1, RequestCounts
  <2>4. (Brings(q, t) <=> s = t) /\ ~Brings(Ended, t)
    BY <1>1, <1>2 DEF Brings
  <2>5. QED
    BY <1>1, <2>2, <2>3, <2>4, Countable DEF Owners
<1>5. \A d \in Requests : HasImage(requests'[d]) =>
        HasImage(requests[d]) /\ requests'[d] = requests[d]
  BY <1>1, <1>2 DEF ImagesInv, LoadTypes, HasImage
<1> HIDE DEF s
<1>6. StoreTypes' /\ ReferencesAreOwned'
  BY <1>1, <1>3, <1>4, <1>5, ReleaseKeeps
<1>7. QED
  BY <1>3, <1>6 DEF ImagesInv

----------------------------------------------------------------------------
(* The other users of the store.                                           *)

\* Elements and requests are as they were, and the store is right.
LEMMA OnlyTheStore ==
  ASSUME ImagesInv, StoreTypes', ReferencesAreOwned', UNCHANGED <<jobs, elements, requests>>,
         held' \in Slots \cup {None}
  PROVE  ImagesInv'
<1>1. LoadTypes' /\ NotYet'
  BY DEF ImagesInv, LoadTypes, NotYet
<1>2. JobsInv'
  BY DEF ImagesInv, JobsInv, WaitsFor
<1>3. QED
  BY <1>1, <1>2 DEF ImagesInv

LEMMA loadPngKeeps ==
  ASSUME ImagesInv, NEW f \in Files, NEW retainCpu \in BOOLEAN, loadPng(f, retainCpu) PROVE ImagesInv'
<1>1. PICK prepared \in BOOLEAN :
        \E i \in Installations(f, prepared, retainCpu, retainCpu) :
          i.slot # None /\ slots' = i.slots /\ pathCache' = i.cache /\ held' = i.slot
  BY DEF loadPng
<1>2. PICK i \in Installations(f, prepared, retainCpu, retainCpu) :
        i.slot # None /\ slots' = i.slots /\ pathCache' = i.cache /\ held' = i.slot
  BY <1>1
<1>3. PICK s : s = i.slot
  OBVIOUS
<1>4. held = None /\ UNCHANGED <<jobs, elements, requests>>
  BY DEF loadPng
<1>5. Fresh(slots', pathCache', s, f)
  BY <1>2, <1>3, InstalledIsFresh
<1>6. s \in Slots /\ Installs(s, f, 1)
  BY <1>5 DEF Fresh, Installs
<1>7. ASSUME NEW t \in Slots PROVE Owners(t)' = Owners(t) + (IF t = s THEN 1 ELSE 0)
  <2>1. Showing(t)' = Showing(t) /\ Bringing(t)' = Bringing(t)
    BY <1>4 DEF Showing, Bringing
  <2>2. held # t /\ (held' = t <=> t = s)
    BY <1>2, <1>3, <1>4, Names
  <2>3. Owners(t) = Cardinality(Showing(t)) + Cardinality(Bringing(t)) + 0
    BY <2>2 DEF Owners
  <2>4. Owners(t)' = Cardinality(Showing(t)) + Cardinality(Bringing(t)) + (IF t = s THEN 1 ELSE 0)
    BY <2>1, <2>2 DEF Owners
  <2>5. QED
    BY <2>3, <2>4, Countable
<1>8. StoreTypes' /\ ReferencesAreOwned'
  BY <1>4, <1>6, <1>7, InstallKeeps
<1>9. QED
  BY <1>2, <1>3, <1>4, <1>6, <1>8, OnlyTheStore

LEMMA ReleaseHeldKeeps == ASSUME ImagesInv, ReleaseHeld PROVE ImagesInv'
<1>1. /\ held # None /\ slots' = release(slots, held) /\ held' = None
      /\ UNCHANGED <<pathCache, jobs, elements, requests>>
  BY DEF ReleaseHeld
<1>2. ASSUME NEW t \in Slots PROVE Owners(t)' = Owners(t) - (IF t = held THEN 1 ELSE 0)
  <2>1. Showing(t)' = Showing(t) /\ Bringing(t)' = Bringing(t)
    BY <1>1 DEF Showing, Bringing
  <2>2. Owners(t)' = Cardinality(Showing(t)) + Cardinality(Bringing(t)) + 0
    BY <1>1, <2>1, Names DEF Owners
  <2>3. Owners(t) = Cardinality(Showing(t)) + Cardinality(Bringing(t)) + (IF t = held THEN 1 ELSE 0)
    BY DEF Owners
  <2>4. QED
    BY <2>2, <2>3, Countable
<1>3. LoadTypes'
  BY <1>1 DEF ImagesInv, LoadTypes
<1>4. StoreTypes' /\ ReferencesAreOwned'
  BY <1>1, <1>2, <1>3, ReleaseKeeps
<1>5. QED
  BY <1>1, <1>4, OnlyTheStore

\* No owner comes or goes.
LEMMA SameOwners ==
  ASSUME UNCHANGED <<elements, requests, held>>, NEW t
  PROVE  Owners(t)' = Owners(t)
<1>1. Showing(t)' = Showing(t) /\ Bringing(t)' = Bringing(t)
  BY DEF Showing, Bringing
<1>2. QED
  BY <1>1 DEF Owners

\* A slot whose file and references are what they were.
LEMMA SlotChanges ==
  ASSUME ImagesInv, NEW s \in Slots, slots[s] # None, slots' = [slots EXCEPT ![s] = slots'[s]],
         slots'[s] \in Image, slots'[s].file = slots[s].file,
         slots'[s].references = slots[s].references,
         UNCHANGED <<pathCache, jobs, elements, requests, held>>
  PROVE  ImagesInv'
<1>1. Live(s)
  BY DEF Live
<1>2. slots[s] \in Image
  BY <1>1, LiveSlot DEF ImagesInv
<1>3. slots[s].references \in Nat /\ slots[s].file \in Files \cup {None}
  BY <1>2 DEF Image
<1>4. slots[s].file \in Files => pathCache[slots[s].file] = s
  BY <1>1 DEF ImagesInv, ReferencesAreOwned
<1>5. Installs(s, slots[s].file, 0)
  <2>1. slots[s].file \in Files => [pathCache EXCEPT ![slots[s].file] = s] = pathCache
    BY <1>4 DEF ImagesInv, StoreTypes
  <2>2. QED
    BY <1>1, <1>3, <2>1 DEF Installs
<1>6. \A t \in Slots : Owners(t)' = Owners(t) + (IF t = s THEN 0 ELSE 0)
  BY SameOwners, Countable
<1>7. StoreTypes' /\ ReferencesAreOwned'
  <2>1. \A r \in Requests : HasImage(requests'[r]) =>
          HasImage(requests[r]) /\ requests'[r] = requests[r]
    OBVIOUS
  <2>2. QED
    BY <1>3, <1>5, <1>6, <2>1, InstallKeeps
<1>8. QED
  BY <1>7, OnlyTheStore DEF ImagesInv, LoadTypes

LEMMA beginUseKeeps == ASSUME ImagesInv, NEW s \in Slots, beginUse(s) PROVE ImagesInv'
<1>1. /\ s = held \/ \E e \in Elements : elements[e].shows = s
      /\ slots' = [slots EXCEPT ![s].inFlight = 1]
      /\ UNCHANGED <<pathCache, jobs, elements, requests, held>>
  BY DEF beginUse
<1>2. Live(s)
  BY <1>1, OwnedIsLive, Names
<1>3. slots[s] \in Image /\ slots[s] # None
  BY <1>2, LiveSlot DEF ImagesInv
<1> DEFINE used == [slots[s] EXCEPT !.inFlight = 1]
<1>4. used \in Image /\ used.file = slots[s].file /\ used.references = slots[s].references
  BY <1>3 DEF Image
<1>5. slots' = [slots EXCEPT ![s] = used]
  BY <1>1
<1> HIDE DEF used
<1>6. slots'[s] = used
  BY <1>5 DEF ImagesInv, StoreTypes
<1>7. QED
  BY <1>1, <1>3, <1>4, <1>5, <1>6, SlotChanges

\* A slot without a file that nobody owns dies when it is out of flight.
LEMMA endUseKeeps == ASSUME ImagesInv, NEW s \in Slots, endUse(s) PROVE ImagesInv'
<1> DEFINE left == [slots[s] EXCEPT !.inFlight = @ - 1]
<1>1. /\ Live(s) /\ slots[s].inFlight > 0 /\ slots' = [slots EXCEPT ![s] = Settled(left)]
      /\ UNCHANGED <<pathCache, jobs, elements, requests, held>>
  BY DEF endUse
<1>2. slots[s] \in Image /\ slots[s] # None
  BY <1>1, LiveSlot DEF ImagesInv
<1>3. left \in Image /\ left.file = slots[s].file /\ left.references = slots[s].references
  <2>1. slots[s].inFlight = 1
    BY <1>1, <1>2 DEF Image
  <2>2. left = [slots[s] EXCEPT !.inFlight = 0]
    BY <1>2, <2>1
  <2>3. QED
    BY <1>2, <2>2 DEF Image
<1> HIDE DEF left
<1>4. \A t \in Slots : slots'[t] = IF t = s THEN Settled(left) ELSE slots[t]
  BY <1>1 DEF ImagesInv, StoreTypes
<1>5. CASE Settled(left) = left
  BY <1>1, <1>2, <1>3, <1>4, <1>5, SlotChanges
<1>6. CASE Settled(left) # left
  <2>1. Settled(left) = None /\ slots[s].file = None /\ slots[s].references = 0
    BY <1>3, <1>6 DEF Settled
  <2>2. Owners(s) = 0
    BY <1>1, <2>1 DEF ImagesInv, ReferencesAreOwned
  <2>3. StoreTypes'
    BY <1>1, <2>1 DEF ImagesInv, StoreTypes
  <2>4. ASSUME NEW t \in Slots PROVE Counted(t)'
    <3>1. Owners(t)' = Owners(t) /\ Counted(t)
      BY <1>1, SameOwners, OwnedParts DEF ImagesInv
    <3>2. QED
      BY <1>4, <2>1, <2>2, <3>1 DEF Counted, Live
  <2>5. ASSUME NEW r \in Requests, HasImage(requests[r]) PROVE Fits(r)'
    <3>1. requests[r].image \in Slots /\ requests[r].image # s
      BY <2>2, <2>5, OwnersCount, OwnedIsLive DEF HasImage
    <3>2. slots'[requests[r].image] = slots[requests[r].image] /\ Fits(r)
      BY <1>4, <3>1, OwnedParts DEF ImagesInv
    <3>3. QED
      BY <1>1, <2>5, <3>2 DEF Fits
  <2>6. ASSUME NEW f \in Files, NEW t \in Slots PROVE Indexed(f, t)'
    <3>1. Indexed(f, t) /\ f # None
      BY OwnedParts, Names DEF ImagesInv
    <3>2. QED
      BY <1>1, <1>4, <2>1, <3>1 DEF Indexed, Live
  <2>7. \A r \in Requests : Fits(r)'
    BY <1>1, <2>5 DEF Fits
  <2>8. ReferencesAreOwned'
    BY <2>4, <2>6, <2>7, OwnedPartsLater
  <2>9. QED
    BY <1>1, <2>3, <2>8, OnlyTheStore DEF ImagesInv, LoadTypes
<1>7. QED
  BY <1>5, <1>6

\* What is evicted has no owner, and what loses its pixels keeps the rest.
LEMMA updateKeeps == ASSUME ImagesInv, update PROVE ImagesInv'
<1>1. PICK evicted \in SUBSET {s \in Slots : Warm(s)},
           idle \in SUBSET {s \in Slots : MayDropPixels(s)} :
        /\ slots' = [s \in Slots |-> IF s \in evicted THEN None
                                     ELSE IF s \in idle THEN [slots[s] EXCEPT !.pixels = FALSE]
                                     ELSE slots[s]]
        /\ pathCache' = [f \in Files |-> IF pathCache[f] \in evicted THEN None ELSE pathCache[f]]
        /\ UNCHANGED <<jobs, elements, requests, held>>
  BY DEF update
<1>2. \A s \in evicted : Live(s) /\ slots[s].references = 0 /\ s \in Slots
  BY DEF Warm
<1>3. \A s \in idle : Live(s) /\ s \in Slots
  BY DEF MayDropPixels
<1>4. ASSUME NEW s \in Slots
      PROVE  IF s \in evicted THEN slots'[s] = None
             ELSE IF Live(s)
             THEN /\ slots'[s] \in Image /\ slots'[s] # None /\ slots'[s].file = slots[s].file
                  /\ slots'[s].references = slots[s].references
             ELSE slots'[s] = None
  <2>1. CASE s \in evicted
    BY <1>1, <2>1
  <2>2. CASE s \notin evicted /\ s \in idle
    <3>1. slots[s] \in Image /\ Live(s)
      BY <1>3, <2>2, LiveSlot DEF ImagesInv
    <3>2. slots'[s] = [slots[s] EXCEPT !.pixels = FALSE]
      BY <1>1, <2>2
    <3>3. /\ [slots[s] EXCEPT !.pixels = FALSE] \in Image
          /\ [slots[s] EXCEPT !.pixels = FALSE].file = slots[s].file
          /\ [slots[s] EXCEPT !.pixels = FALSE].references = slots[s].references
      BY <3>1 DEF Image
    <3>4. QED
      BY <2>2, <3>1, <3>2, <3>3, Names
  <2>3. CASE s \notin evicted /\ s \notin idle
    <3>1. slots'[s] = slots[s]
      BY <1>1, <2>3
    <3>2. Live(s) => slots[s] \in Image /\ slots[s] # None
      BY LiveSlot DEF ImagesInv
    <3>3. QED
      BY <2>3, <3>1, <3>2 DEF Live
  <2>4. QED
    BY <2>1, <2>2, <2>3
<1>5. StoreTypes'
  <2>1. \A s \in Slots : slots'[s] \in Image \cup {None}
    BY <1>4
  <2>2. slots' \in [Slots -> Image \cup {None}]
    BY <1>1, <2>1
  <2>3. pathCache' \in [Files -> Slots \cup {None}]
    BY <1>1 DEF ImagesInv, StoreTypes
  <2>4. QED
    BY <2>2, <2>3 DEF StoreTypes
<1>6. ASSUME NEW s \in Slots PROVE Counted(s)'
  <2>1. Counted(s) /\ Owners(s)' = Owners(s)
    BY <1>1, OwnedParts, SameOwners DEF ImagesInv
  <2>2. CASE s \in evicted
    BY <1>2, <1>4, <2>1, <2>2 DEF Counted, Live
  <2>3. CASE s \notin evicted
    BY <1>4, <2>1, <2>3 DEF Counted, Live
  <2>4. QED
    BY <2>2, <2>3
<1>7. ASSUME NEW r \in Requests, HasImage(requests[r]) PROVE Fits(r)'
  <2> DEFINE s == requests[r].image
  <2>1. s \in Slots /\ Live(s) /\ Fits(r)
    BY <1>7, OwnedIsLive, OwnedParts DEF ImagesInv
  <2>2. s \notin evicted
    <3>1. SUFFICES ASSUME s \in evicted PROVE FALSE
      OBVIOUS
    <3>2. Owners(s) = 0
      BY <1>2, <2>1, <3>1 DEF ImagesInv, ReferencesAreOwned
    <3>3. QED
      BY <1>7, <3>2, OwnersCount DEF HasImage
  <2>3. slots'[s].file = slots[s].file
    BY <1>4, <2>1, <2>2
  <2>4. QED
    BY <1>1, <1>7, <2>1, <2>3 DEF Fits
<1>8. ASSUME NEW f \in Files, NEW s \in Slots PROVE Indexed(f, s)'
  <2>1. Indexed(f, s) /\ f # None
    BY OwnedParts, Names DEF ImagesInv
  <2>2. pathCache'[f] = s <=> pathCache[f] = s /\ s \notin evicted
    BY <1>1, Names
  <2>3. Live(s)' /\ slots'[s].file = f <=> Live(s) /\ s \notin evicted /\ slots[s].file = f
    BY <1>4 DEF Live
  <2>4. QED
    BY <2>1, <2>2, <2>3 DEF Indexed
<1>9. \A r \in Requests : Fits(r)'
  BY <1>1, <1>7 DEF Fits
<1>10. ReferencesAreOwned'
  BY <1>6, <1>8, <1>9, OwnedPartsLater
<1>11. QED
  BY <1>1, <1>5, <1>10, OnlyTheStore DEF ImagesInv, LoadTypes

----------------------------------------------------------------------------
(* Every step.                                                             *)

LEMMA InitHolds == ImagesInit => ImagesInv
<1> SUFFICES ASSUME ImagesInit PROVE ImagesInv
  OBVIOUS
<1>1. \A r \in Requests : requests[r] = Ended /\ IsRequest(requests[r])
  BY DEF ImagesInit, IsRequest
<1>2. Ended.at = "over"
  BY DEF Ended
<1>3. StoreTypes
  BY DEF ImagesInit, StoreTypes
<1>4. LoadTypes
  BY <1>1 DEF ImagesInit, LoadTypes
<1>5. JobsInv
  BY <1>1, <1>2 DEF ImagesInit, JobsInv, WaitsFor
<1>6. NotYet
  BY <1>1 DEF NotYet
<1>7. ASSUME NEW s \in Slots PROVE Counted(s)
  <2>1. Showing(s) = {}
    BY Names DEF ImagesInit, Showing
  <2>2. Bringing(s) = {}
    BY <1>1, <1>2 DEF Bringing
  <2>3. Cardinality({}) = 0
    BY FS_EmptySet
  <2>4. held # s
    BY Names DEF ImagesInit
  <2>5. Owners(s) = 0
    BY <2>1, <2>2, <2>3, <2>4 DEF Owners
  <2>6. QED
    BY <2>5 DEF ImagesInit, Counted, Live
<1>8. \A r \in Requests : Fits(r)
  BY <1>1, <1>2 DEF Fits, HasImage
<1>9. \A f \in Files, s \in Slots : Indexed(f, s)
  BY Names DEF ImagesInit, Indexed, Live
<1>10. QED
  BY <1>3, <1>4, <1>5, <1>6, <1>7, <1>8, <1>9, OwnedParts DEF ImagesInv

LEMMA StutterKeeps == ASSUME ImagesInv, UNCHANGED imageVars PROVE ImagesInv'
<1>1. UNCHANGED <<slots, pathCache, jobs, elements, requests, held>>
  BY DEF imageVars
<1>2. StoreTypes' /\ ReferencesAreOwned'
  BY <1>1, StoreStays
<1>3. held' \in Slots \cup {None}
  BY <1>1 DEF ImagesInv, LoadTypes
<1>4. QED
  BY <1>1, <1>2, <1>3, OnlyTheStore

LEMMA NextKeeps == ASSUME ImagesInv, [ImagesNext]_imageVars PROVE ImagesInv'
<1>1. ASSUME NEW e \in Elements, NEW from \in Files \cup Blobs \cup {None}, SetSource(e, from)
      PROVE  ImagesInv'
  <2>1. CASE from = None
    BY <1>1, <2>1, ClearedKeeps
  <2>2. CASE from # None
    <3>1. from \in AnySource
      BY <2>2 DEF AnySource
    <3>2. QED
      BY <1>1, <3>1, SourceSetKeeps
  <2>3. QED
    BY <2>1, <2>2
<1>2. ASSUME NEW r \in Requests, Start(r) PROVE ImagesInv'
  <2>1. CASE Superseded(r)
    BY <2>1, SupersededKeeps
  <2>2. CASE StartBytes(r)
    BY <2>2, StartBytesKeeps
  <2>3. ASSUME NEW f \in Files, LoadRefused(r, f) PROVE ImagesInv'
    BY <2>3, LoadRefusedKeeps
  <2>4. ASSUME NEW f \in Files, NEW retainCpu \in BOOLEAN, LoadCached(r, f, retainCpu) PROVE ImagesInv'
    BY <2>4, LoadCachedKeeps
  <2>5. ASSUME NEW f \in Files, NEW retainCpu \in BOOLEAN, LoadCoalesced(r, f, retainCpu) PROVE ImagesInv'
    BY <2>5, LoadCoalescedKeeps
  <2>6. ASSUME NEW f \in Files, NEW retainCpu \in BOOLEAN, LoadQueued(r, f, retainCpu) PROVE ImagesInv'
    BY <2>6, LoadQueuedKeeps
  <2>7. QED
    BY <1>2, <2>1, <2>2, <2>3, <2>4, <2>5, <2>6 DEF Start
<1>3. ASSUME NEW r \in Requests, Proceeds(r) PROVE ImagesInv'
  <2>1. CASE BytesRead(r)
    BY <2>1, BytesReadKeeps
  <2>2. CASE BytesDecoded(r)
    BY <2>2, BytesDecodedKeeps
  <2>3. CASE Arrives(r)
    BY <2>3, ArrivesInTime, ArrivesLate
  <2>4. QED
    BY <1>2, <1>3, <2>1, <2>2, <2>3 DEF Proceeds
<1>4. ASSUME NEW f \in Files, Works(f) PROVE ImagesInv'
  BY <1>4, ExecuteKeeps, CompleteKeeps DEF Works
<1>5. ASSUME NEW f \in Files, NEW retainCpu \in BOOLEAN, loadPng(f, retainCpu) PROVE ImagesInv'
  BY <1>5, loadPngKeeps
<1>6. CASE ReleaseHeld
  BY <1>6, ReleaseHeldKeeps
<1>7. CASE update
  BY <1>7, updateKeeps
<1>8. ASSUME NEW s \in Slots, beginUse(s) PROVE ImagesInv'
  BY <1>8, beginUseKeeps
<1>9. ASSUME NEW s \in Slots, endUse(s) PROVE ImagesInv'
  BY <1>9, endUseKeeps
<1>10. CASE UNCHANGED imageVars
  BY <1>10, StutterKeeps
<1>11. QED
  BY <1>1, <1>3, <1>4, <1>5, <1>6, <1>7, <1>8, <1>9, <1>10 DEF ImagesNext

\* Every reference of a slot has one owner, and every owner's slot is alive
\* and holds the file it asked for: the references that release(), retain()
\* and the installation of a load count (resources.cpp, image-element.js).
THEOREM ReferencesStayOwned == ImagesSpec => []ReferencesAreOwned
<1>1. ImagesInit => ImagesInv
  BY InitHolds
<1>2. ImagesInv /\ [ImagesNext]_imageVars => ImagesInv'
  BY NextKeeps
<1>3. ImagesInv => ReferencesAreOwned
  BY DEF ImagesInv
<1>4. QED
  BY <1>1, <1>2, <1>3, PTL DEF ImagesSpec

----------------------------------------------------------------------------
(* The pixels that were asked for.                                         *)

Asked(r) == requests[r].at = "waiting" /\ requests[r].retainCpu

\* Only the end of its job gives a waiting request its image.
LEMMA WaitersStay ==
  ASSUME ImagesInv, [ImagesNext]_imageVars, NEW r \in Requests, requests[r].at = "waiting",
         requests'[r].at = "arriving"
  PROVE  \E f \in Files : completeImageLoad(f)
<1>1. ASSUME NEW x \in Requests, NEW q, requests' = [requests EXCEPT ![x] = q],
             q.at # "arriving" \/ requests[x].at # "waiting"
      PROVE  FALSE
  <2>1. requests'[r] = IF x = r THEN q ELSE requests[r]
    BY <1>1 DEF ImagesInv, LoadTypes
  <2>2. QED
    BY <1>1, <2>1
<1>2. ASSUME NEW e \in Elements, NEW from \in Files \cup Blobs \cup {None}, SetSource(e, from)
      PROVE  FALSE
  <2>1. requests'[r] = requests[r] \/ requests'[r] = [at |-> "task", source |-> from]
    BY <1>2 DEF SetSource, ImagesInv, LoadTypes
  <2>2. QED
    BY <2>1
<1>3. ASSUME NEW x \in Requests, Proceeds(x) PROVE FALSE
  <2>1. PICK q : requests' = [requests EXCEPT ![x] = q]
    <3>1. CASE Start(x)
      BY <3>1 DEF Start, Superseded, StartBytes, LoadRefused, LoadCached, LoadCoalesced, LoadQueued
    <3>2. CASE BytesRead(x) \/ BytesDecoded(x) \/ Arrives(x)
      BY <3>2 DEF BytesRead, BytesDecoded, Arrives
    <3>3. QED
      BY <1>3, <3>1, <3>2 DEF Proceeds
  <2>2. requests[x].at # "waiting"
    BY <1>3 DEF Proceeds, Start, Superseded, StartBytes, LoadRefused, LoadCached, LoadCoalesced,
                LoadQueued, Starts, BytesRead, BytesDecoded, Arrives
  <2>3. QED
    BY <1>1, <2>1, <2>2
<1>4. requests' # requests
  OBVIOUS
<1>5. ~UNCHANGED imageVars
  BY <1>4 DEF imageVars
<1>6. \A f \in Files : ~executeImageLoad(f)
  BY <1>4 DEF executeImageLoad
<1>7. ~ReleaseHeld /\ ~update /\ \A f \in Files, retainCpu \in BOOLEAN : ~loadPng(f, retainCpu)
  BY <1>4 DEF ReleaseHeld, update, loadPng
<1>8. \A s \in Slots : ~beginUse(s) /\ ~endUse(s)
  BY <1>4 DEF beginUse, endUse
<1>9. QED
  BY <1>2, <1>3, <1>5, <1>6, <1>7, <1>8 DEF ImagesNext, Works

\* That job has them: it was validated with them, decoded, or sent back.
LEMMA CompleteHasPixels ==
  ASSUME ImagesInv, NEW r \in Requests, Asked(r), NEW f \in Files, completeImageLoad(f),
         requests'[r].at = "arriving", requests'[r].image # None
  PROVE  LET s == requests'[r].image
         IN  /\ f = requests[r].source
             /\ slots'[s].pixels \/ ReadBack(s, jobs[f].prepared)
<1> DEFINE j == jobs[f]
<1>1. j # None /\ j.at = "executed" /\ UNCHANGED <<elements, held>>
  BY DEF completeImageLoad
<1>2. j \in Job /\ JobOK(f, j)
  BY <1>1, JobParts
<1>3. \A s \in Slots \cup {None} : Ends(f, s) => requests'[r] = Arriving(f, s) /\ r \in j.callers
  <2> SUFFICES ASSUME NEW s \in Slots \cup {None}, Ends(f, s)
               PROVE  requests'[r] = Arriving(f, s) /\ r \in j.callers
    OBVIOUS
  <2>1. requests'[r] = IF r \in j.callers THEN Arriving(f, s) ELSE requests[r]
    BY <1>1, JobEnds
  <2>2. QED
    BY <2>1 DEF Asked
<1> HIDE DEF j
<1>4. ~Rejects(f)
  BY <1>3, Arrivals DEF Rejects
<1>5. \A k : ~Requeues(f, k)
  BY DEF Requeues, Asked
<1>6. PICK i \in Installations(f, j.prepared, j.cpu, j.retainCpu) :
        /\ i.slot # None /\ ~WantsPixels(j)
        /\ slots' = retain(i.slots, i.slot, Cardinality(j.callers) - 1)
        /\ pathCache' = i.cache /\ Ends(f, i.slot)
  BY <1>4, <1>5 DEF completeImageLoad, j
<1>7. j.prepared \in BOOLEAN /\ j.cpu \in BOOLEAN /\ j.retainCpu \in BOOLEAN /\ j.prepareCpu \in BOOLEAN
  BY <1>2 DEF Job
<1>8. Fresh(i.slots, i.cache, i.slot, f)
  BY <1>6, <1>7, InstalledIsFresh
<1>9. requests'[r] = Arriving(f, i.slot) /\ r \in j.callers
  BY <1>3, <1>6, <1>8 DEF Fresh
<1>10. j.retainCpu /\ (j.prepared => j.cpu)
  <2>1. j.retainCpu
    BY <1>2, <1>9 DEF JobOK, Asked
  <2>2. QED
    BY <1>1, <1>2, <1>6, <2>1 DEF JobOK, WantsPixels
<1>11. i.slots[i.slot].pixels \/ ReadBack(i.slot, j.prepared)
  BY <1>6, <1>7, <1>10, InstalledIsFresh
<1>12. slots'[i.slot].pixels \/ ReadBack(i.slot, j.prepared)
  BY <1>1, <1>6, <1>8, <1>11, InstalledJob DEF j
<1>13. f = requests[r].source
  BY <1>2, <1>9 DEF JobOK, WaitsFor
<1>14. requests'[r].image = i.slot
  BY <1>9, Arrivals
<1>15. QED
  BY <1>12, <1>13, <1>14 DEF j

\* A caller that asked for CPU pixels and gets an image gets one that has
\* them, though the job it joined began without: completeImageLoad() sends the
\* job back for them (node_addon_resources.cpp:249-253).  Only the pixels of an
\* image that is in the store already may be missing, when reading them back
\* from its texture fails.
THEOREM PixelsCome == ImagesSpec => PixelsComeWithTheImage
<1>1. ImagesInv /\ [ImagesNext]_imageVars => ImagesInv'
  BY NextKeeps
<1>2. ImagesInv /\ [ImagesNext]_imageVars =>
        [\A r \in Requests :
           LET q == requests[r]
               s == requests'[r].image
           IN q.at = "waiting" /\ q.retainCpu /\ requests'[r].at = "arriving" /\ s # None
              => \/ slots'[s].pixels
                 \/ Live(s) /\ ~slots[s].pixels
                      /\ ~(slots[s].prepared /\ jobs[q.source].prepared)]_imageVars
  <2> SUFFICES ASSUME ImagesInv, [ImagesNext]_imageVars, NEW r \in Requests, Asked(r),
                      requests'[r].at = "arriving", requests'[r].image # None
               PROVE  LET s == requests'[r].image
                      IN \/ slots'[s].pixels
                         \/ Live(s) /\ ~slots[s].pixels
                              /\ ~(slots[s].prepared /\ jobs[requests[r].source].prepared)
    BY DEF Asked
  <2>1. PICK f \in Files : completeImageLoad(f)
    BY WaitersStay DEF Asked
  <2>2. QED
    BY <2>1, CompleteHasPixels DEF ReadBack
<1>3. QED
  BY <1>1, <1>2, InitHolds, PTL DEF ImagesSpec, PixelsComeWithTheImage

----------------------------------------------------------------------------
(* Numbers, and functions that are iterated.                               *)

\* What holds of zero and of the successor of each of its members is Nat.
LEMMA Induction ==
  ASSUME NEW Good, 0 \in Good, \A n \in Nat : n \in Good => n + 1 \in Good
  PROVE  \A n \in Nat : n \in Good
<1> DEFINE R == OpToRel(<, Nat)
           Bad == {n \in Nat : n \notin Good}
<1>1. SUFFICES ASSUME Bad # {} PROVE FALSE
  OBVIOUS
<1>2. IsWellFoundedOn(R, Nat)
  BY NatLessThanWellFounded
<1>3. R = {p \in Nat \X Nat : p[1] < p[2]}
  BY DEF R, OpToRel
<1> HIDE DEF R
<1>4. PICK x \in Bad : \A y \in Bad : ~ (<<y, x>> \in R)
  <2>1. Bad \subseteq Nat
    OBVIOUS
  <2>2. QED
    BY <1>1, <1>2, <2>1, WFMin
<1>5. x \in Nat /\ x # 0 /\ x - 1 \in Nat
  BY <1>4
<1>6. x - 1 \in Bad
  BY <1>4, <1>5
<1>7. <<x - 1, x>> \in R
  <2>1. /\ <<x - 1, x>> \in Nat \X Nat /\ <<x - 1, x>>[1] = x - 1 /\ <<x - 1, x>>[2] = x
    BY <1>5
  <2>2. QED
    BY <1>3, <1>5, <2>1
<1>8. QED
  BY <1>4, <1>6, <1>7

LEMMA MinOfTwo ==
  ASSUME NEW a \in Int, NEW b \in Int
  PROVE  Min({a, b}) = IF a <= b THEN a ELSE b
BY DEF Min

LEMMA MaxOfTwo ==
  ASSUME NEW a \in Int, NEW b \in Int
  PROVE  Max({a, b}) = IF a >= b THEN a ELSE b
BY DEF Max

\* g holds the steps of a function, up to the n-th.
Steps(step, x, n, g) == g = [i \in 0 .. n |-> IF i = 0 THEN x ELSE step[g[i - 1]]]

LEMMA StepsExist ==
  ASSUME NEW S, NEW step \in [S -> S], NEW x \in S
  PROVE  \A n \in Nat : \E g : Steps(step, x, n, g)
<1> DEFINE Good == {n \in Nat : \E g : Steps(step, x, n, g)}
<1>1. 0 \in Good
  <2> DEFINE g == [i \in 0 .. 0 |-> x]
  <2>1. Steps(step, x, 0, g)
    BY DEF Steps
  <2>2. QED
    BY <2>1
<1>2. ASSUME NEW n \in Nat, n \in Good PROVE n + 1 \in Good
  <2>1. PICK g : Steps(step, x, n, g)
    BY <1>2
  <2> DEFINE h == [i \in 0 .. n + 1 |-> IF i = n + 1 THEN step[g[n]] ELSE g[i]]
  <2>2. ASSUME NEW i \in 0 .. n + 1 PROVE h[i] = IF i = 0 THEN x ELSE step[h[i - 1]]
    <3>1. CASE i = 0
      BY <2>1, <3>1 DEF Steps
    <3>2. CASE i # 0 /\ i = n + 1
      <4>1. i - 1 = n /\ n \in 0 .. n + 1 /\ n # n + 1
        BY <3>2
      <4>2. h[i - 1] = g[n]
        BY <4>1
      <4>3. QED
        BY <3>2, <4>2
    <3>3. CASE i # 0 /\ i # n + 1
      <4>1. i \in 0 .. n /\ i - 1 \in 0 .. n + 1 /\ i - 1 # n + 1
        BY <3>3
      <4>2. g[i] = step[g[i - 1]]
        BY <2>1, <3>3, <4>1 DEF Steps
      <4>3. QED
        BY <3>3, <4>1, <4>2
    <3>4. QED
      BY <3>1, <3>2, <3>3
  <2>3. h = [i \in 0 .. n + 1 |-> h[i]]
    OBVIOUS
  <2> HIDE DEF h
  <2>4. Steps(step, x, n + 1, h)
    BY <2>2, <2>3 DEF Steps
  <2>5. QED
    BY <2>4
<1> HIDE DEF Good
<1>3. \A n \in Nat : n \in Good
  BY <1>1, <1>2, Induction
<1>4. QED
  BY <1>3 DEF Good

\* They are the same for every length.
LEMMA StepsAgree ==
  ASSUME NEW step, NEW x, NEW m \in Nat, NEW n \in Nat, m <= n, NEW g, NEW h,
         Steps(step, x, m, g), Steps(step, x, n, h)
  PROVE  g[m] = h[m]
<1> DEFINE Good == {i \in Nat : i <= m => g[i] = h[i]}
<1>1. 0 \in Good
  BY DEF Steps
<1>2. ASSUME NEW i \in Nat, i \in Good PROVE i + 1 \in Good
  <2> SUFFICES ASSUME i + 1 <= m PROVE g[i + 1] = h[i + 1]
    OBVIOUS
  <2>1. i + 1 \in 0 .. m /\ i + 1 \in 0 .. n /\ i + 1 # 0 /\ (i + 1) - 1 = i
    OBVIOUS
  <2>2. g[i + 1] = step[g[i]] /\ h[i + 1] = step[h[i]]
    BY <2>1 DEF Steps
  <2>3. QED
    BY <1>2, <2>2
<1> HIDE DEF Good
<1>3. \A i \in Nat : i \in Good
  BY <1>1, <1>2, Induction
<1>4. QED
  BY <1>3 DEF Good

LEMMA IteratedIs ==
  ASSUME NEW S, NEW step \in [S -> S], NEW x \in S, NEW n \in Nat
  PROVE  \E g : Steps(step, x, n, g) /\ Iterated(step, x, n) = g[n]
<1> DEFINE at == CHOOSE g : g = [i \in 0 .. n |-> IF i = 0 THEN x ELSE step[g[i - 1]]]
<1>1. Iterated(step, x, n) = at[n]
  BY DEF Iterated
<1>2. \E g : g = [i \in 0 .. n |-> IF i = 0 THEN x ELSE step[g[i - 1]]]
  BY StepsExist DEF Steps
<1>3. at = [i \in 0 .. n |-> IF i = 0 THEN x ELSE step[at[i - 1]]]
  BY <1>2
<1> HIDE DEF at
<1>4. QED
  BY <1>1, <1>3 DEF Steps

\* The recursion that Iterated stands for.
LEMMA IteratedSteps ==
  ASSUME NEW S, NEW step \in [S -> S], NEW x \in S, NEW n \in Nat
  PROVE  /\ Iterated(step, x, 0) = x
         /\ Iterated(step, x, n + 1) = step[Iterated(step, x, n)]
<1>1. Iterated(step, x, 0) = x
  <2>1. PICK g : Steps(step, x, 0, g) /\ Iterated(step, x, 0) = g[0]
    BY IteratedIs
  <2>2. QED
    BY <2>1 DEF Steps
<1>2. PICK g : Steps(step, x, n, g) /\ Iterated(step, x, n) = g[n]
  BY IteratedIs
<1>3. PICK h : Steps(step, x, n + 1, h) /\ Iterated(step, x, n + 1) = h[n + 1]
  BY IteratedIs
<1>4. g[n] = h[n]
  BY <1>2, <1>3, StepsAgree
<1>5. h[n + 1] = step[h[n]]
  BY <1>3 DEF Steps
<1>6. QED
  BY <1>1, <1>2, <1>3, <1>4, <1>5

LEMMA IteratedNone ==
  ASSUME NEW S, NEW step \in [S -> S], NEW x \in S
  PROVE  Iterated(step, x, 0) = x
<1>1. 0 \in Nat
  OBVIOUS
<1>2. QED
  BY <1>1, IteratedSteps

LEMMA IteratedType ==
  ASSUME NEW S, NEW step \in [S -> S], NEW x \in S
  PROVE  \A n \in Nat : Iterated(step, x, n) \in S
<1> DEFINE Good == {n \in Nat : Iterated(step, x, n) \in S}
<1>1. 0 \in Good
  BY IteratedSteps
<1>2. ASSUME NEW n \in Nat, n \in Good PROVE n + 1 \in Good
  BY <1>2, IteratedSteps
<1> HIDE DEF Good
<1>3. \A n \in Nat : n \in Good
  BY <1>1, <1>2, Induction
<1>4. QED
  BY <1>3 DEF Good

LEMMA IteratedAdds ==
  ASSUME NEW S, NEW step \in [S -> S], NEW x \in S, NEW m \in Nat
  PROVE  \A n \in Nat : Iterated(step, Iterated(step, x, m), n) = Iterated(step, x, m + n)
<1> DEFINE y == Iterated(step, x, m)
           Good == {n \in Nat : Iterated(step, y, n) = Iterated(step, x, m + n)}
<1>1. y \in S
  BY IteratedType
<1>2. 0 \in Good
  BY <1>1, IteratedSteps
<1>3. ASSUME NEW n \in Nat, n \in Good PROVE n + 1 \in Good
  <2>1. Iterated(step, y, n + 1) = step[Iterated(step, y, n)]
    BY <1>1, IteratedSteps
  <2>2. Iterated(step, x, (m + n) + 1) = step[Iterated(step, x, m + n)]
    BY IteratedSteps
  <2>3. (m + n) + 1 = m + (n + 1)
    OBVIOUS
  <2>4. QED
    BY <1>3, <2>1, <2>2, <2>3
<1> HIDE DEF Good
<1>4. \A n \in Nat : n \in Good
  BY <1>2, <1>3, Induction
<1>5. QED
  BY <1>4 DEF Good

----------------------------------------------------------------------------
(* Times and frames.                                                       *)

LEMMA Product == ASSUME NEW a \in Nat, NEW d \in Nat PROVE a * d \in Nat
OBVIOUS

LEMMA ProductGrows ==
  ASSUME NEW a \in Nat, NEW b \in Nat, a <= b, NEW d \in Nat
  PROVE  a * d <= b * d
OBVIOUS

LEMMA Quotient ==
  ASSUME NEW a \in Nat, NEW d \in Nat \ {0}
  PROVE  a \div d \in Nat /\ (a \div d) * d <= a /\ a < (a \div d + 1) * d
OBVIOUS

LEMMA Remainder ==
  ASSUME NEW a \in Int, NEW d \in Nat \ {0}
  PROVE  a % d \in Nat /\ a % d < d
OBVIOUS

\* The quotient is the only number with its remainder.
LEMMA QuotientIs ==
  ASSUME NEW a \in Nat, NEW d \in Nat \ {0}, NEW q \in Nat, q * d <= a, a < (q + 1) * d
  PROVE  a \div d = q
<1>1. PICK r \in Nat : r = a \div d /\ r * d <= a /\ a < (r + 1) * d
  BY Quotient
<1>2. ASSUME NEW x \in Nat, NEW y \in Nat, x < y, a < (x + 1) * d, y * d <= a PROVE FALSE
  <2>1. (x + 1) * d <= y * d
    BY <1>2, ProductGrows
  <2>2. (x + 1) * d \in Nat /\ y * d \in Nat
    BY Product
  <2>3. QED
    BY <1>2, <2>1, <2>2
<1>3. ~(r < q) /\ ~(q < r)
  BY <1>1, <1>2
<1>4. QED
  BY <1>1, <1>3

LEMMA TicksIs == Ticks \in Nat /\ Ticks > 0
BY TicksAssumption

\* A time lies in its frame, and the nearest frame is that or the next.
LEMMA NearestFrame ==
  ASSUME NEW t \in Nat
  PROVE  Rounded(t) \in {Truncated(t), Truncated(t) + 1}
<1> DEFINE k == Truncated(t)
<1>1. k \in Nat /\ k * Ticks <= t /\ t < (k + 1) * Ticks
  BY TicksIs, Quotient DEF Truncated
<1> HIDE DEF k
<1>2. PICK p \in Nat : p = k * Ticks /\ (k + 1) * Ticks = p + Ticks
  BY <1>1, TicksIs, Product
<1>3. 2 * Ticks \in Nat \ {0} /\ 2 * t + Ticks \in Nat
  BY TicksIs
<1>4. k * (2 * Ticks) = 2 * p /\ (k + 1) * (2 * Ticks) = 2 * p + 2 * Ticks
      /\ (k + 1 + 1) * (2 * Ticks) = 2 * p + 4 * Ticks
  BY <1>1, <1>2, TicksIs
<1>5. CASE 2 * t + Ticks < 2 * p + 2 * Ticks
  <2>1. (2 * t + Ticks) \div (2 * Ticks) = k
    BY <1>1, <1>2, <1>3, <1>4, <1>5, TicksIs, QuotientIs
  <2>2. QED
    BY <2>1 DEF Rounded, k
<1>6. CASE ~(2 * t + Ticks < 2 * p + 2 * Ticks)
  <2>1. (2 * t + Ticks) \div (2 * Ticks) = k + 1
    BY <1>1, <1>2, <1>3, <1>4, <1>6, TicksIs, QuotientIs
  <2>2. QED
    BY <2>1 DEF Rounded, k
<1>7. QED
  BY <1>5, <1>6

\* A frame is its own nearest one.
LEMMA FrameTime ==
  ASSUME NEW f \in Nat
  PROVE  Time(f) \in Nat /\ Truncated(Time(f)) = f /\ Rounded(Time(f)) = f
<1>1. PICK p \in Nat : p = f * Ticks /\ (f + 1) * Ticks = p + Ticks
  BY TicksIs, Product
<1>2. p \div Ticks = f
  BY <1>1, TicksIs, QuotientIs
<1>3. f * (2 * Ticks) = 2 * p /\ (f + 1) * (2 * Ticks) = 2 * p + 2 * Ticks
  BY <1>1, TicksIs
<1>4. (2 * p + Ticks) \div (2 * Ticks) = f
  <2>1. 2 * Ticks \in Nat \ {0} /\ 2 * p + Ticks \in Nat
    BY TicksIs
  <2>2. QED
    BY <1>3, <2>1, TicksIs, QuotientIs
<1>5. QED
  BY <1>1, <1>2, <1>4 DEF Time, Truncated, Rounded

\* Time(a) and a, compared.
LEMMA BeforeFrame ==
  ASSUME NEW t \in Nat, NEW f \in Nat
  PROVE  Truncated(t) < f <=> t < Time(f)
<1>1. PICK k \in Nat : k = Truncated(t) /\ k * Ticks <= t /\ t < (k + 1) * Ticks
  BY TicksIs, Quotient DEF Truncated
<1>2. k * Ticks \in Nat /\ (k + 1) * Ticks \in Nat /\ f * Ticks \in Nat
  BY TicksIs, Product
<1>3. k < f => (k + 1) * Ticks <= f * Ticks
  BY TicksIs, ProductGrows
<1>4. ~(k < f) => f * Ticks <= k * Ticks
  BY TicksIs, ProductGrows
<1>5. QED
  BY <1>1, <1>2, <1>3, <1>4 DEF Time

LEMMA TruncatedGrows ==
  ASSUME NEW s \in Nat, NEW t \in Nat, s <= t
  PROVE  Truncated(s) \in Nat /\ Truncated(s) <= Truncated(t)
<1>1. Truncated(s) \in Nat /\ Truncated(t) \in Nat
  BY TicksIs, Quotient DEF Truncated
<1>2. t < Time(Truncated(t) + 1)
  BY <1>1, BeforeFrame
<1>3. s < Time(Truncated(t) + 1)
  BY <1>1, <1>2, FrameTime
<1>4. Truncated(s) < Truncated(t) + 1
  BY <1>1, <1>3, BeforeFrame
<1>5. QED
  BY <1>1, <1>4

LEMMA TimeParts ==
  /\ \A f \in Nat : Time(f) \in Nat
  /\ \A t \in Nat : /\ Truncated(t) \in Nat /\ Rounded(t) \in Nat
                     /\ Rounded(t) - Truncated(t) \in {0, 1}
<1>1. \A f \in Nat : Time(f) \in Nat
  BY FrameTime
<1>2. ASSUME NEW t \in Nat
      PROVE  /\ Truncated(t) \in Nat /\ Rounded(t) \in Nat
             /\ Rounded(t) - Truncated(t) \in {0, 1}
  <2>1. PICK k \in Nat : k = Truncated(t)
    BY TicksIs, Quotient DEF Truncated
  <2>2. PICK r : r = Rounded(t)
    OBVIOUS
  <2>3. r \in {k, k + 1}
    BY <2>1, <2>2, NearestFrame
  <2>4. r \in Nat /\ r - k \in {0, 1}
    BY <2>3
  <2>5. QED
    BY <2>1, <2>2, <2>4
<1>3. QED
  BY <1>1, <1>2

----------------------------------------------------------------------------
(* The order of the frames.                                                *)

\* The lengths and loop points of a file.
IsSource(s) == s.len \in Nat /\ s.loopStart \in Nat /\ s.loopEnd \in Nat

LEMMA PlaceParts ==
  ASSUME NEW x \in Places
  PROVE  /\ x.frame \in Nat /\ x.count \in Nat /\ Onward(x, 0) = x
         /\ \A n \in Nat : /\ Onward(x, n) \in Places
                           /\ Onward(x, n).frame = x.frame + n /\ Onward(x, n).count = x.count + n
                           /\ Onward(Onward(x, n), 1) = Onward(x, n + 1)
<1>1. x.frame \in Nat /\ x.count \in Nat /\ x = [frame |-> x.frame, count |-> x.count]
  BY DEF Places
<1>2. \A n \in Nat : /\ Onward(x, n) \in Places
                     /\ Onward(x, n).frame = x.frame + n /\ Onward(x, n).count = x.count + n
  BY <1>1 DEF Onward, Places
<1>3. Onward(x, 0) = x
  BY <1>1 DEF Onward
<1>4. ASSUME NEW n \in Nat PROVE Onward(Onward(x, n), 1) = Onward(x, n + 1)
  <2>1. (x.frame + n) + 1 = x.frame + (n + 1) /\ (x.count + n) + 1 = x.count + (n + 1)
    BY <1>1
  <2>2. QED
    BY <2>1 DEF Onward
<1>5. QED
  BY <1>1, <1>2, <1>3, <1>4

LEMMA Folded ==
  ASSUME NEW s, IsSource(s), NEW loop \in BOOLEAN, NEW x \in Places
  PROVE  /\ Fold(s, loop, x) \in Places /\ LoopStart(s) \in Places
         /\ Fold(s, loop, LoopStart(s)) = LoopStart(s)
         /\ ~loop => Fold(s, loop, x) = x
BY DEF IsSource, Fold, HasLoopPoints, LoopStart, Places

After(s, loop, x) == IF x.frame >= s.len THEN x ELSE Fold(s, loop, Onward(x, 1))

LEMMA Follows ==
  ASSUME NEW s, IsSource(s), NEW loop \in BOOLEAN
  PROVE  /\ Following(s, loop) \in [Places -> Places]
         /\ \A x \in Places : Following(s, loop)[x] = After(s, loop, x)
<1>1. \A x \in Places : Onward(x, 1) \in Places
  BY PlaceParts
<1>2. \A x \in Places : After(s, loop, x) \in Places
  BY <1>1, Folded DEF After
<1>3. Following(s, loop) = [x \in Places |-> After(s, loop, x)]
  BY DEF Following, After
<1>4. QED
  BY <1>2, <1>3

LEMMA AheadSteps ==
  ASSUME NEW s, IsSource(s), NEW loop \in BOOLEAN, NEW x \in Places, NEW n \in Nat
  PROVE  /\ Ahead(s, loop, x, 0) = x /\ Ahead(s, loop, x, n) \in Places
         /\ Ahead(s, loop, x, n + 1) = After(s, loop, Ahead(s, loop, x, n))
<1>1. Following(s, loop) \in [Places -> Places]
  BY Follows
<1>2. Ahead(s, loop, x, 0) = x /\ Ahead(s, loop, x, n) \in Places
  BY <1>1, IteratedNone, IteratedType DEF Ahead
<1>3. Ahead(s, loop, x, n + 1) = Following(s, loop)[Ahead(s, loop, x, n)]
  BY <1>1, IteratedSteps DEF Ahead
<1>4. QED
  BY <1>2, <1>3, Follows

LEMMA AheadAdds ==
  ASSUME NEW s, IsSource(s), NEW loop \in BOOLEAN, NEW x \in Places, NEW m \in Nat, NEW n \in Nat
  PROVE  Ahead(s, loop, Ahead(s, loop, x, m), n) = Ahead(s, loop, x, m + n)
BY Follows, IteratedAdds DEF Ahead

\* Nothing comes after the end.
LEMMA AheadEnds ==
  ASSUME NEW s, IsSource(s), NEW loop \in BOOLEAN, NEW x \in Places, x.frame >= s.len
  PROVE  \A n \in Nat : Ahead(s, loop, x, n) = x
<1> DEFINE Good == {n \in Nat : Ahead(s, loop, x, n) = x}
<1>1. 0 \in Good
  BY AheadSteps
<1>2. ASSUME NEW n \in Nat, n \in Good PROVE n + 1 \in Good
  <2>1. Ahead(s, loop, x, n + 1) = After(s, loop, x)
    BY <1>2, AheadSteps
  <2>2. QED
    BY <2>1 DEF After
<1> HIDE DEF Good
<1>3. \A n \in Nat : n \in Good
  BY <1>1, <1>2, Induction
<1>4. QED
  BY <1>3 DEF Good

----------------------------------------------------------------------------
(* The buffer.                                                             *)

\* Each frame of the buffer is there, and follows the one before it.
Consecutive(s, loop, q) ==
  \A i \in 1 .. Len(q) : /\ q[i].frame < s.len
                         /\ i < Len(q) => q[i + 1] = Fold(s, loop, Onward(q[i], 1))

\* What the worker produces next follows the last of them.
Leads(s, loop, q, p) == Len(q) > 0 => Fold(s, loop, Onward(q[Len(q)], 1)) = Fold(s, loop, p)

\* The frame that is at hand: the first of them, or what is produced next.
AtHand(s, loop, q, p) == IF Len(q) > 0 THEN q[1] ELSE Fold(s, loop, p)

LEMMA AtHandType ==
  ASSUME NEW s, IsSource(s), NEW loop \in BOOLEAN, NEW q \in Seq(Places), NEW p \in Places
  PROVE  AtHand(s, loop, q, p) \in Places
BY Folded DEF AtHand

\* The frames of the buffer are those ahead of the first.
LEMMA BufferIsAhead ==
  ASSUME NEW s, IsSource(s), NEW loop \in BOOLEAN, NEW q \in Seq(Places), NEW p \in Places,
         Consecutive(s, loop, q)
  PROVE  \A i \in Nat : i < Len(q) => q[i + 1] = Ahead(s, loop, AtHand(s, loop, q, p), i)
<1> DEFINE f == AtHand(s, loop, q, p)
           Good == {i \in Nat : i < Len(q) => q[i + 1] = Ahead(s, loop, f, i)}
<1>1. f \in Places
  BY AtHandType
<1>2. 0 \in Good
  <2> SUFFICES ASSUME 0 < Len(q) PROVE q[0 + 1] = Ahead(s, loop, f, 0)
    OBVIOUS
  <2>1. f = q[1]
    BY DEF AtHand
  <2>2. Ahead(s, loop, f, 0) = f
    BY <1>1, AheadSteps
  <2>3. QED
    BY <2>1, <2>2
<1>3. ASSUME NEW i \in Nat, i \in Good PROVE i + 1 \in Good
  <2> SUFFICES ASSUME i + 1 < Len(q) PROVE q[(i + 1) + 1] = Ahead(s, loop, f, i + 1)
    OBVIOUS
  <2>1. q[i + 1] = Ahead(s, loop, f, i)
    BY <1>3
  <2>2. i + 1 \in 1 .. Len(q) /\ i + 1 < Len(q)
    OBVIOUS
  <2>3. q[i + 1].frame < s.len /\ q[(i + 1) + 1] = Fold(s, loop, Onward(q[i + 1], 1))
    BY <2>2 DEF Consecutive
  <2>4. Ahead(s, loop, f, i + 1) = After(s, loop, q[i + 1])
    BY <1>1, <2>1, AheadSteps
  <2>5. q[i + 1] \in Places /\ q[i + 1].frame \in Nat
    BY <2>2, PlaceParts
  <2>6. QED
    BY <2>3, <2>4, <2>5 DEF After, IsSource
<1> HIDE DEF Good, f
<1>4. \A i \in Nat : i \in Good
  BY <1>2, <1>3, Induction
<1>5. QED
  BY <1>4 DEF Good, f

\* The buffer r is q without its first n frames, and in order.
Shortened(s, loop, q, p, n, r) ==
  /\ r \in Seq(Places) /\ Len(r) = Len(q) - n
  /\ Consecutive(s, loop, r) /\ Leads(s, loop, r, p)
  /\ AtHand(s, loop, r, p) = Ahead(s, loop, AtHand(s, loop, q, p), n)

\* Frames leave the buffer in front.
LEMMA FramesLeave ==
  ASSUME NEW s, IsSource(s), NEW loop \in BOOLEAN, NEW q \in Seq(Places), NEW p \in Places,
         Consecutive(s, loop, q), Leads(s, loop, q, p), NEW n \in 0 .. Len(q),
         NEW r, r = SubSeq(q, n + 1, Len(q))
  PROVE  Shortened(s, loop, q, p, n, r)
<1> SUFFICES /\ r \in Seq(Places) /\ Len(r) = Len(q) - n
             /\ Consecutive(s, loop, r) /\ Leads(s, loop, r, p)
             /\ AtHand(s, loop, r, p) = Ahead(s, loop, AtHand(s, loop, q, p), n)
  BY DEF Shortened
<1>1. n \in Nat /\ Len(q) \in Nat /\ n <= Len(q)
  OBVIOUS
<1>2. /\ r \in Seq(Places) /\ Len(r) = Len(q) - n
      /\ \A i \in 1 .. Len(q) - n : r[i] = q[n + i]
  <2>1. r \in Seq(Places)
    BY <1>1, SubSeqProperties
  <2>2. Len(r) = IF n + 1 <= Len(q) THEN Len(q) - (n + 1) + 1 ELSE 0
    BY <1>1, SubSeqProperties
  <2>3. \A i \in 1 .. Len(q) - (n + 1) + 1 : r[i] = q[(n + 1) + i - 1]
    BY <1>1, SubSeqProperties
  <2>4. \A i \in 1 .. Len(q) - n : i \in 1 .. Len(q) - (n + 1) + 1 /\ (n + 1) + i - 1 = n + i
    BY <1>1
  <2>5. Len(r) = Len(q) - n
    BY <1>1, <2>2
  <2>6. \A i \in 1 .. Len(q) - n : r[i] = q[n + i]
    BY <2>3, <2>4
  <2>7. QED
    BY <2>1, <2>5, <2>6
<1>3. Consecutive(s, loop, r)
  <2> SUFFICES ASSUME NEW i \in 1 .. Len(r)
               PROVE  r[i].frame < s.len /\ (i < Len(r) => r[i + 1] = Fold(s, loop, Onward(r[i], 1)))
    BY DEF Consecutive
  <2>1. n + i \in 1 .. Len(q) /\ r[i] = q[n + i]
    BY <1>1, <1>2
  <2>2. i < Len(r) => r[i + 1] = q[(n + i) + 1] /\ n + i < Len(q)
    <3> SUFFICES ASSUME i < Len(r) PROVE r[i + 1] = q[(n + i) + 1] /\ n + i < Len(q)
      OBVIOUS
    <3>1. i + 1 \in 1 .. Len(q) - n /\ n + (i + 1) = (n + i) + 1
      BY <1>1, <1>2
    <3>2. r[i + 1] = q[n + (i + 1)]
      BY <1>2, <3>1
    <3>3. n + i < Len(q)
      BY <1>1, <3>1
    <3>4. QED
      BY <3>1, <3>2, <3>3
  <2>3. QED
    BY <2>1, <2>2 DEF Consecutive
<1>4. Leads(s, loop, r, p)
  <2> SUFFICES ASSUME Len(r) > 0 PROVE Fold(s, loop, Onward(r[Len(r)], 1)) = Fold(s, loop, p)
    BY DEF Leads
  <2>1. r[Len(r)] = q[Len(q)] /\ Len(q) > 0
    <3>1. Len(r) \in 1 .. Len(q) - n /\ n + Len(r) = Len(q)
      BY <1>1, <1>2
    <3>2. r[Len(r)] = q[n + Len(r)]
      BY <1>2, <3>1
    <3>3. Len(q) > 0
      BY <1>1, <3>1
    <3>4. QED
      BY <3>1, <3>2, <3>3
  <2>2. QED
    BY <2>1 DEF Leads
<1>5. AtHand(s, loop, r, p) = Ahead(s, loop, AtHand(s, loop, q, p), n)
  <2>1. CASE n < Len(q)
    <3>1. q[n + 1] = Ahead(s, loop, AtHand(s, loop, q, p), n)
      BY <1>1, <2>1, BufferIsAhead
    <3>2. Len(r) > 0 /\ r[1] = q[n + 1]
      BY <1>1, <1>2, <2>1
    <3>3. QED
      BY <3>1, <3>2 DEF AtHand
  <2>2. CASE n = Len(q) /\ n = 0
    <3>1. AtHand(s, loop, r, p) = Fold(s, loop, p) /\ AtHand(s, loop, q, p) = Fold(s, loop, p)
      BY <1>2, <2>2 DEF AtHand
    <3>2. Fold(s, loop, p) \in Places
      BY Folded
    <3>3. QED
      BY <2>2, <3>1, <3>2, AheadSteps
  <2>3. CASE n = Len(q) /\ n # 0
    <3>1. n - 1 \in Nat /\ n - 1 < Len(q) /\ (n - 1) + 1 = n
      BY <1>1, <2>3
    <3> DEFINE f == AtHand(s, loop, q, p)
    <3>2. q[n] = Ahead(s, loop, f, n - 1)
      BY <3>1, BufferIsAhead
    <3>3. f \in Places
      BY AtHandType
    <3>4. Ahead(s, loop, f, n) = After(s, loop, q[n])
      <4> HIDE DEF f
      <4>1. Ahead(s, loop, f, (n - 1) + 1) = After(s, loop, Ahead(s, loop, f, n - 1))
        BY <3>1, <3>3, AheadSteps
      <4>2. QED
        BY <3>1, <3>2, <4>1
    <3>5. q[n].frame < s.len /\ q[n].frame \in Nat
      <4>1. n \in 1 .. Len(q)
        BY <1>1, <2>3
      <4>2. q[n] \in Places
        BY <4>1
      <4>3. QED
        BY <4>1, <4>2, PlaceParts DEF Consecutive
    <3>6. After(s, loop, q[n]) = Fold(s, loop, Onward(q[n], 1))
      BY <3>5 DEF After, IsSource
    <3>7. Fold(s, loop, Onward(q[n], 1)) = Fold(s, loop, p)
      BY <1>1, <2>3 DEF Leads
    <3>8. AtHand(s, loop, r, p) = Fold(s, loop, p)
      BY <1>1, <1>2, <2>3 DEF AtHand
    <3>9. QED
      BY <3>4, <3>6, <3>7, <3>8
  <2>4. QED
    BY <1>1, <2>1, <2>2, <2>3
<1>6. QED
  BY <1>2, <1>3, <1>4, <1>5

\* The frames from p on, none of them beyond the end of a loop.
From(s, loop, p, u) ==
  \A i \in 1 .. Len(u) : /\ u[i] = Onward(p, i - 1) /\ u[i].frame < s.len
                         /\ loop /\ HasLoopPoints(s) => u[i].count < s.loopEnd

\* The buffer r is q with the frames u behind, and in order.
Joined(s, loop, q, p, u, o, r) ==
  /\ r \in Seq(Places) /\ Len(r) = Len(q) + Len(u)
  /\ Consecutive(s, loop, r) /\ Leads(s, loop, r, o)
  /\ AtHand(s, loop, r, o) = AtHand(s, loop, q, p)

\* Frames from p on come in behind, and the worker goes on at o.
LEMMA FramesCome ==
  ASSUME NEW s, IsSource(s), NEW loop \in BOOLEAN, NEW q \in Seq(Places), NEW p \in Places,
         Consecutive(s, loop, q), Leads(s, loop, q, p), NEW u \in Seq(Places), NEW o \in Places,
         From(s, loop, p, u), Fold(s, loop, o) = Fold(s, loop, Onward(p, Len(u))),
         NEW r, r = q \o u
  PROVE  Joined(s, loop, q, p, u, o, r)
<1> SUFFICES /\ r \in Seq(Places) /\ Len(r) = Len(q) + Len(u)
             /\ Consecutive(s, loop, r) /\ Leads(s, loop, r, o)
             /\ AtHand(s, loop, r, o) = AtHand(s, loop, q, p)
  BY DEF Joined
<1>1. /\ r \in Seq(Places) /\ Len(r) = Len(q) + Len(u) /\ Len(q) \in Nat /\ Len(u) \in Nat
      /\ \A i \in 1 .. Len(q) : r[i] = q[i]
      /\ \A i \in 1 .. Len(u) : r[Len(q) + i] = u[i]
  <2>1. Len(q) \in Nat /\ Len(u) \in Nat
    OBVIOUS
  <2>2. /\ r \in Seq(Places) /\ Len(r) = Len(q) + Len(u)
        /\ \A i \in 1 .. Len(q) + Len(u) : r[i] = IF i <= Len(q) THEN q[i] ELSE u[i - Len(q)]
    BY ConcatProperties
  <2>3. \A i \in 1 .. Len(q) : i \in 1 .. Len(q) + Len(u) /\ i <= Len(q)
    BY <2>1
  <2>4. \A i \in 1 .. Len(u) : /\ Len(q) + i \in 1 .. Len(q) + Len(u) /\ ~(Len(q) + i <= Len(q))
                               /\ (Len(q) + i) - Len(q) = i
    BY <2>1
  <2>5. \A i \in 1 .. Len(q) : r[i] = q[i]
    BY <2>2, <2>3
  <2>6. \A i \in 1 .. Len(u) : r[Len(q) + i] = u[i]
    BY <2>2, <2>4
  <2>7. QED
    BY <2>1, <2>2, <2>5, <2>6
<1>2. \A i \in 1 .. Len(u) : Fold(s, loop, Onward(p, i - 1)) = Onward(p, i - 1)
  <2> TAKE i \in 1 .. Len(u)
  <2>1. /\ u[i] = Onward(p, i - 1) /\ u[i].frame < s.len
        /\ loop /\ HasLoopPoints(s) => u[i].count < s.loopEnd
    BY DEF From
  <2>2. u[i] \in Places /\ u[i].frame \in Nat /\ u[i].count \in Nat
    BY PlaceParts
  <2>3. Fold(s, loop, u[i]) = u[i]
    BY <2>1, <2>2 DEF Fold, IsSource
  <2>4. QED
    BY <2>1, <2>3
<1>3. Len(u) > 0 => Fold(s, loop, p) = p /\ u[1] = p
  <2> SUFFICES ASSUME Len(u) > 0 PROVE Fold(s, loop, p) = p /\ u[1] = p
    OBVIOUS
  <2>1. 1 \in 1 .. Len(u) /\ 1 - 1 = 0 /\ Onward(p, 0) = p
    BY <1>1, PlaceParts
  <2>2. Fold(s, loop, Onward(p, 1 - 1)) = Onward(p, 1 - 1) /\ u[1] = Onward(p, 1 - 1)
    BY <1>2, <2>1 DEF From
  <2>3. QED
    BY <2>1, <2>2
<1>4. Consecutive(s, loop, r)
  <2> SUFFICES ASSUME NEW i \in 1 .. Len(r)
               PROVE  r[i].frame < s.len /\ (i < Len(r) => r[i + 1] = Fold(s, loop, Onward(r[i], 1)))
    BY DEF Consecutive
  <2>1. CASE i < Len(q)
    <3>1. i \in 1 .. Len(q) /\ i + 1 \in 1 .. Len(q)
      BY <1>1, <2>1
    <3>2. QED
      BY <1>1, <2>1, <3>1 DEF Consecutive
  <2>2. CASE i = Len(q)
    <3>1. i \in 1 .. Len(q) /\ r[i] = q[i] /\ q[i].frame < s.len
      BY <1>1, <2>2 DEF Consecutive
    <3>2. ASSUME i < Len(r) PROVE r[i + 1] = Fold(s, loop, Onward(r[i], 1))
      <4>1. 1 \in 1 .. Len(u) /\ Len(u) > 0
        BY <1>1, <2>2, <3>2
      <4>2. r[i + 1] = p
        BY <1>1, <1>3, <2>2, <4>1
      <4>3. Fold(s, loop, Onward(q[i], 1)) = Fold(s, loop, p)
        BY <2>2, <3>1 DEF Leads
      <4>4. QED
        BY <1>3, <3>1, <4>1, <4>2, <4>3
    <3>3. QED
      BY <3>1, <3>2
  <2>3. CASE i > Len(q)
    <3>1. PICK k \in 1 .. Len(u) : i = Len(q) + k
      <4>1. i - Len(q) \in 1 .. Len(u) /\ i = Len(q) + (i - Len(q))
        BY <1>1, <2>3
      <4>2. QED
        BY <4>1
    <3>2. r[i] = Onward(p, k - 1) /\ r[i].frame < s.len
      BY <1>1, <3>1 DEF From
    <3>3. ASSUME i < Len(r) PROVE r[i + 1] = Fold(s, loop, Onward(r[i], 1))
      <4>1. k + 1 \in 1 .. Len(u) /\ i + 1 = Len(q) + (k + 1)
        BY <1>1, <3>1, <3>3
      <4>2. r[i + 1] = Onward(p, (k + 1) - 1)
        BY <1>1, <4>1 DEF From
      <4>3. Fold(s, loop, Onward(p, (k + 1) - 1)) = Onward(p, (k + 1) - 1)
        BY <1>2, <4>1
      <4>4. Onward(Onward(p, k - 1), 1) = Onward(p, (k + 1) - 1)
        <5>1. k - 1 \in Nat /\ (k - 1) + 1 = (k + 1) - 1
          BY <3>1
        <5>2. QED
          BY <5>1, PlaceParts
      <4>5. QED
        BY <3>2, <4>2, <4>3, <4>4
    <3>4. QED
      BY <3>2, <3>3
  <2>4. i \in Nat /\ Len(q) \in Nat
    BY <1>1
  <2>5. i < Len(q) \/ i = Len(q) \/ i > Len(q)
    BY <2>4
  <2>6. QED
    BY <2>1, <2>2, <2>3, <2>5
<1>5. CASE Len(u) > 0
  <2>1. Len(u) \in 1 .. Len(u) /\ 1 \in 1 .. Len(u)
    BY <1>1, <1>5
  <2>2. r[Len(r)] = Onward(p, Len(u) - 1) /\ Onward(Onward(p, Len(u) - 1), 1) = Onward(p, Len(u))
    <3>1. r[Len(r)] = Onward(p, Len(u) - 1)
      BY <1>1, <2>1 DEF From
    <3>2. Len(u) - 1 \in Nat /\ (Len(u) - 1) + 1 = Len(u)
      BY <1>1, <1>5
    <3>3. QED
      BY <3>1, <3>2, PlaceParts
  <2>3. Leads(s, loop, r, o)
    BY <2>2 DEF Leads
  <2>4. AtHand(s, loop, r, o) = AtHand(s, loop, q, p)
    <3>1. CASE Len(q) > 0
      BY <1>1, <1>5, <3>1 DEF AtHand
    <3>2. CASE Len(q) = 0
      <4>1. r[1] = u[1]
        BY <1>1, <2>1, <3>2
      <4>2. QED
        BY <1>1, <1>3, <1>5, <3>2, <4>1 DEF AtHand
    <3>3. QED
      BY <1>1, <3>1, <3>2
  <2>5. QED
    BY <1>1, <1>4, <2>3, <2>4
<1>6. CASE Len(u) = 0
  <2>1. Fold(s, loop, o) = Fold(s, loop, p) /\ Len(r) = Len(q)
    BY <1>1, <1>6, PlaceParts
  <2>2. Len(q) > 0 => r[Len(r)] = q[Len(q)] /\ r[1] = q[1]
    BY <1>1, <2>1
  <2>3. QED
    BY <1>1, <1>4, <2>1, <2>2 DEF Leads, AtHand
<1>7. QED
  BY <1>1, <1>5, <1>6
----------------------------------------------------------------------------
(* The invariant of the stream.                                            *)

MixType == [playing : BOOLEAN, suspended : BOOLEAN, loop : BOOLEAN, eof : BOOLEAN,
            stopAfterFade : BOOLEAN, samples : Seq(Places), phase : Nat, position : Nat,
            pitch : Pitches]
VoiceType == [producer : Nat, generation : Nat, requestedSeek : Nat \cup {NONE},
              emptyLoopRestart : BOOLEAN, failure : BOOLEAN]
WorkerType == [busy : BOOLEAN, generation : Nat, seek : Nat \cup {NONE}, wanted : Nat]

StreamTypes == /\ source \in Sources /\ mix \in MixType /\ voice \in VoiceType
               /\ worker \in WorkerType /\ decoderAt \in Nat /\ finished \in BOOLEAN

Samples == Consecutive(source, mix.loop, mix.samples)
Reads == [frame |-> NextRead, count |-> voice.producer]
Comes == AtHand(source, mix.loop, mix.samples, Reads)

\* What a voice that plays has and will have in its buffer.
Produced ==
  mix.playing =>
    /\ Leads(source, mix.loop, mix.samples, Reads)
    /\ mix.loop /\ HasLoopPoints(source) => voice.producer < source.loopEnd
    /\ mix.eof => ~mix.loop /\ NextRead >= source.len
    /\ NextRead - voice.producer \in {0, 1}
    /\ ~finished

\* The seek that is asked for is the one the worker is not told of yet.
Reading ==
  /\ worker.busy => worker.generation <= voice.generation /\ worker.wanted > 0
  /\ mix.playing /\ worker.busy =>
       (worker.generation = voice.generation <=> voice.requestedSeek = NONE)

Told == mix.loop => LoopIsTold

\* The position counts as the worker does, or is one step behind it: the end of
\* the file cut a pass short that play() began at the nearest frame.
StepIn(s, loop, at) ==
  IF loop /\ HasLoopPoints(s) /\ at + 1 >= s.loopEnd THEN s.loopStart
  ELSE IF loop /\ s.duration > 0 /\ at + 1 >= Truncated(s.duration) THEN 0
  ELSE at + 1
Near(s, loop, at, x) == \/ x.count = at /\ x.frame - at \in {0, 1}
                        \/ x.frame = StepIn(s, loop, at) /\ x.count = x.frame

Positioned ==
  Told /\ (mix.playing \/ Len(mix.samples) > 0) => Near(source, mix.loop, mix.position, Comes)

StreamInv == StreamTypes /\ Samples /\ Produced /\ Reading /\ Positioned

LEMMA SourceParts ==
  ASSUME StreamTypes
  PROVE  /\ IsSource(source) /\ source.len \in Nat /\ source.loopStart \in Nat
         /\ source.loopEnd \in Nat /\ source.duration \in Nat
BY MediaAssumption DEF StreamTypes, IsSource

LEMMA NoSamples ==
  ASSUME NEW s, NEW loop, NEW p
  PROVE  /\ <<>> \in Seq(Places) /\ Len(<<>>) = 0 /\ Consecutive(s, loop, <<>>)
         /\ Leads(s, loop, <<>>, p) /\ AtHand(s, loop, <<>>, p) = Fold(s, loop, p)
BY DEF Consecutive, Leads, AtHand

LEMMA MixParts ==
  ASSUME StreamTypes
  PROVE  /\ mix.playing \in BOOLEAN /\ mix.loop \in BOOLEAN /\ mix.eof \in BOOLEAN
         /\ mix.samples \in Seq(Places) /\ Len(mix.samples) \in Nat /\ mix.phase \in Nat
         /\ mix.position \in Nat /\ mix.pitch \in Pitches /\ mix.pitch \in Nat
         /\ voice.producer \in Nat /\ voice.generation \in Nat
         /\ voice.requestedSeek \in Nat \cup {NONE}
         /\ worker.busy \in BOOLEAN /\ worker.generation \in Nat /\ worker.wanted \in Nat
         /\ worker.seek \in Nat \cup {NONE} /\ decoderAt \in Nat /\ ReadFrom \in Nat
         /\ NextRead \in Nat /\ Reads \in Places
<1>1. /\ mix.playing \in BOOLEAN /\ mix.loop \in BOOLEAN /\ mix.eof \in BOOLEAN
      /\ mix.samples \in Seq(Places) /\ mix.phase \in Nat
      /\ mix.position \in Nat /\ mix.pitch \in Pitches
  BY DEF StreamTypes, MixType
<1>2. /\ voice.producer \in Nat /\ voice.generation \in Nat
      /\ voice.requestedSeek \in Nat \cup {NONE}
  BY DEF StreamTypes, VoiceType
<1>3. /\ worker.busy \in BOOLEAN /\ worker.generation \in Nat /\ worker.wanted \in Nat
      /\ worker.seek \in Nat \cup {NONE} /\ decoderAt \in Nat
  BY DEF StreamTypes, WorkerType
<1>4. mix.pitch \in Nat
  BY <1>1, MediaAssumption
<1>5. Len(mix.samples) \in Nat
  BY <1>1
<1>6. \A t \in Nat : Rounded(t) \in Nat
  BY TimeParts
<1>7. ReadFrom \in Nat
  BY <1>3, <1>6 DEF ReadFrom
<1>8. NextRead \in Nat
  BY <1>2, <1>3, <1>6, <1>7 DEF NextRead
<1>9. Reads \in Places
  BY <1>2, <1>8 DEF Reads, Places
<1>10. QED
  BY <1>1, <1>2, <1>3, <1>4, <1>5, <1>7, <1>8, <1>9

\* What is to be heard next is ahead of what is at hand.
LEMMA NextHeardIs ==
  StreamTypes => NextHeard = IF mix.playing THEN Ahead(source, mix.loop, Comes, mix.phase) ELSE SILENT
<1> SUFFICES ASSUME StreamTypes
             PROVE  NextHeard = IF mix.playing THEN Ahead(source, mix.loop, Comes, mix.phase)
                                ELSE SILENT
  OBVIOUS
<1>1. mix.samples # <<>> <=> Len(mix.samples) > 0
  BY MixParts, EmptySeq
<1>2. mix.samples # <<>> => Head(mix.samples) = mix.samples[1]
  BY MixParts
<1>3. QED
  BY <1>1, <1>2 DEF NextHeard, Comes, AtHand, Reads

LEMMA NextHeardThen ==
  StreamTypes' => NextHeard' = IF mix'.playing THEN Ahead(source', mix'.loop, Comes', mix'.phase)
                               ELSE SILENT
<1>1. (StreamTypes => NextHeard = IF mix.playing THEN Ahead(source, mix.loop, Comes, mix.phase)
                                  ELSE SILENT)'
  BY NextHeardIs, PTL
<1>2. QED
  BY <1>1

\* No frame is taken from the buffer or comes to it, and the voice goes on or stops.
LEMMA MixStays ==
  ASSUME StreamInv, mix' \in MixType, mix'.samples = mix.samples, mix'.loop = mix.loop,
         mix'.position = mix.position, mix'.eof = mix.eof, mix'.playing => mix.playing,
         UNCHANGED <<source, voice, worker, decoderAt>>, finished' \in BOOLEAN,
         mix'.playing => ~finished'
  PROVE  StreamInv'
<1>1. StreamTypes'
  BY DEF StreamInv, StreamTypes
<1>2. NextRead' = NextRead /\ Reads' = Reads
  BY DEF NextRead, ReadFrom, Reads
<1>3. Samples' /\ Comes' = Comes /\ Told' = Told
  BY <1>2 DEF StreamInv, Samples, Comes, Told, LoopIsTold
<1>4. Produced'
  BY <1>2 DEF StreamInv, Produced
<1>5. Reading'
  BY DEF StreamInv, Reading
<1>6. Positioned'
  BY <1>3 DEF StreamInv, Positioned
<1>7. QED
  BY <1>1, <1>3, <1>4, <1>5, <1>6 DEF StreamInv

\* The voice is silent and its buffer empty.
LEMMA SilentIsFine ==
  ASSUME StreamTypes', ~mix'.playing, mix'.samples = <<>>,
         worker'.busy => worker'.generation <= voice'.generation /\ worker'.wanted > 0
  PROVE  StreamInv'
<1>1. Samples'
  BY NoSamples DEF Samples
<1>2. Produced' /\ Reading'
  BY DEF Produced, Reading
<1>3. Positioned'
  BY NoSamples DEF Positioned
<1>4. QED
  BY <1>1, <1>2, <1>3 DEF StreamInv

LEMMA StreamInitHolds == Init => StreamInv
<1> SUFFICES ASSUME Init PROVE StreamInv
  OBVIOUS
<1>1. 1 \in Pitches
  BY MediaAssumption
<1>2. /\ mix \in MixType /\ mix.samples = <<>> /\ ~mix.playing
  BY <1>1, NoSamples DEF Init, MixType
<1>3. voice \in VoiceType /\ worker \in WorkerType /\ ~worker.busy
  BY DEF Init, VoiceType, WorkerType, Idle
<1>4. StreamTypes
  BY <1>2, <1>3 DEF Init, StreamTypes
<1>5. Samples
  BY <1>2, NoSamples DEF Samples
<1>6. Produced /\ Reading
  BY <1>2, <1>3 DEF Produced, Reading
<1>7. Positioned
  BY <1>2, NoSamples DEF Positioned
<1>8. QED
  BY <1>4, <1>5, <1>6, <1>7 DEF StreamInv

----------------------------------------------------------------------------
(* The game.                                                               *)

\* play() starts inside the duration, before the end of a loop.
LEMMA StartIsInside ==
  ASSUME StreamTypes, NEW loop \in BOOLEAN, NEW offset \in Nat
  PROVE  /\ StartTime(loop, offset) \in 0 .. source.duration
         /\ loop /\ HasLoopPoints(source) => Truncated(StartTime(loop, offset)) < source.loopEnd
<1>1. /\ source.loopStart \in Nat /\ source.loopEnd \in Nat /\ source.duration \in Nat
      /\ Time(source.loopStart) \in Nat /\ Time(source.loopEnd) \in Nat
  BY SourceParts, TimeParts
<1> DEFINE back == (offset - Time(source.loopStart)) % Time(source.loopEnd - source.loopStart)
           folded == IF source.duration = 0 \/ ~loop THEN offset
                     ELSE IF HasLoopPoints(source)
                     THEN IF offset >= Time(source.loopEnd) THEN Time(source.loopStart) + back
                          ELSE offset
                     ELSE offset % source.duration
<1>2. StartTime(loop, offset) = Min({folded, source.duration})
  BY DEF StartTime
<1>3. HasLoopPoints(source) =>
        /\ back \in Nat
        /\ Time(source.loopStart) + back < Time(source.loopEnd)
  <2> SUFFICES ASSUME HasLoopPoints(source)
               PROVE  back \in Nat /\ Time(source.loopStart) + back < Time(source.loopEnd)
    OBVIOUS
  <2>1. PICK d \in Nat \ {0} : d = source.loopEnd - source.loopStart
    BY <1>1 DEF HasLoopPoints
  <2>2. Time(d) \in Nat \ {0} /\ Time(source.loopStart) + Time(d) = Time(source.loopEnd)
    BY <1>1, <2>1, TicksIs DEF Time
  <2>3. offset - Time(source.loopStart) \in Int
    BY <1>1
  <2>4. back \in Nat /\ back < Time(d)
    BY <2>1, <2>2, <2>3, Remainder
  <2> HIDE DEF back
  <2>5. QED
    BY <1>1, <2>2, <2>4
<1>4. source.duration # 0 => offset % source.duration \in Nat
  BY <1>1, Remainder
<1> HIDE DEF back
<1>5. folded \in Nat
  BY <1>1, <1>3, <1>4
<1>6. loop /\ HasLoopPoints(source) /\ source.duration # 0 => folded < Time(source.loopEnd)
  BY <1>1, <1>3
<1> HIDE DEF folded
<1>7. PICK start : start = StartTime(loop, offset)
  OBVIOUS
<1>8. start = IF folded <= source.duration THEN folded ELSE source.duration
  BY <1>1, <1>2, <1>5, <1>7, MinOfTwo
<1>9. start \in 0 .. source.duration /\ start \in Nat /\ start <= folded
  BY <1>1, <1>5, <1>8
<1>10. ASSUME loop, HasLoopPoints(source) PROVE start < Time(source.loopEnd)
  <2>1. Time(source.loopEnd) > 0
    BY <1>1, <1>10, TicksIs DEF HasLoopPoints, Time
  <2>2. QED
    BY <1>1, <1>5, <1>6, <1>9, <1>10, <2>1
<1>11. QED
  BY <1>1, <1>7, <1>9, <1>10, BeforeFrame

LEMMA PlayParts ==
  ASSUME StreamInv, NEW loop \in BOOLEAN, NEW offset \in Offsets, Play(loop, offset)
  PROVE  \E start \in 0 .. source.duration :
           /\ start \in Nat
           /\ loop /\ HasLoopPoints(source) => Truncated(start) < source.loopEnd
           /\ mix' \in MixType /\ mix'.samples = <<>> /\ mix'.phase = 0
           /\ mix'.position = Truncated(start)
           /\ mix'.loop = loop /\ ~mix'.eof /\ mix'.playing
           /\ voice' \in VoiceType /\ voice'.producer = Truncated(start)
           /\ voice'.requestedSeek = start /\ voice'.generation = voice.generation + 1
<1>1. offset \in Nat /\ source.duration \in Nat
  BY SourceParts, TimeParts DEF StreamInv, Offsets
<1>2. PICK start \in 0 .. source.duration : start = StartTime(loop, offset)
  BY <1>1, StartIsInside DEF StreamInv
<1>3. start \in Nat /\ Truncated(start) \in Nat
  BY <1>1, TimeParts
<1>4. mix \in MixType /\ voice \in VoiceType /\ voice.generation \in Nat
  BY MixParts DEF StreamInv, StreamTypes
<1>5. mix' = [mix EXCEPT !.samples = <<>>, !.phase = 0, !.position = Truncated(start),
                         !.loop = loop, !.eof = FALSE, !.playing = TRUE,
                         !.stopAfterFade = FALSE]
  BY <1>2 DEF Play
<1>6. voice' = [voice EXCEPT !.emptyLoopRestart = FALSE, !.producer = Truncated(start),
                             !.requestedSeek = start, !.generation = voice.generation + 1]
  BY <1>2 DEF Play
<1>7. mix' \in MixType
  BY <1>3, <1>4, <1>5, NoSamples DEF MixType
<1>8. /\ mix'.samples = <<>> /\ mix'.phase = 0 /\ mix'.position = Truncated(start)
      /\ mix'.loop = loop /\ ~mix'.eof /\ mix'.playing
  BY <1>4, <1>5 DEF MixType
<1>9. voice' \in VoiceType
  <2>1. voice.generation + 1 \in Nat /\ start \in Nat \cup {NONE}
    BY <1>3, <1>4
  <2>2. QED
    BY <1>3, <1>4, <1>6, <2>1 DEF VoiceType
<1>10. /\ voice'.producer = Truncated(start) /\ voice'.requestedSeek = start
       /\ voice'.generation = voice.generation + 1
  BY <1>4, <1>6 DEF VoiceType
<1>11. loop /\ HasLoopPoints(source) => Truncated(start) < source.loopEnd
  BY <1>1, <1>2, StartIsInside DEF StreamInv
<1>12. QED
  BY <1>3, <1>7, <1>8, <1>9, <1>10, <1>11

\* The worker is to read at the place of the offset.
LEMMA PlayReads ==
  ASSUME NEW start \in Nat, voice'.requestedSeek = start, voice'.producer = Truncated(start)
  PROVE  NextRead' = Rounded(start) /\ Reads' = PlaceAt(start)
<1>1. start # NONE
  BY MediaAssumption
<1>2. QED
  BY <1>1 DEF NextRead, Reads, PlaceAt

\* The loop of a file can be told.
IsTold(s) ==
  IF HasLoopPoints(s)
  THEN s.loopEnd <= s.len /\ (s.duration = 0 \/ s.loopEnd <= Truncated(s.duration))
  ELSE s.loopStart = 0 /\ Truncated(s.duration) = s.len

LEMMA ToldIs == /\ Told = (mix.loop => IsTold(source))
                /\ (Told)' = (mix'.loop => IsTold(source'))
BY DEF Told, LoopIsTold, IsTold, HasLoopPoints

\* Where play() starts, the position is near.
LEMMA PlayIsNear ==
  ASSUME NEW s, IsSource(s), s.duration \in Nat, NEW loop \in BOOLEAN,
         NEW start \in Nat, start <= s.duration, loop => IsTold(s),
         loop /\ HasLoopPoints(s) => Truncated(start) < s.loopEnd
  PROVE  Near(s, loop, Truncated(start), Fold(s, loop, PlaceAt(start)))
<1>1. s.len \in Nat /\ s.loopStart \in Nat /\ s.loopEnd \in Nat
  BY DEF IsSource
<1>2. PICK k \in Nat, r \in Nat :
        k = Truncated(start) /\ r = Rounded(start) /\ PlaceAt(start) = [frame |-> r, count |-> k]
  BY TimeParts DEF PlaceAt
<1>3. r \in {k, k + 1}
  BY <1>2, NearestFrame
<1>4. PICK x : x = Fold(s, loop, PlaceAt(start))
  OBVIOUS
<1>5. CASE x = PlaceAt(start)
  <2>1. x.count = k /\ x.frame - k \in {0, 1}
    BY <1>2, <1>3, <1>5
  <2>2. QED
    BY <1>2, <1>4, <2>1 DEF Near
<1>6. CASE x # PlaceAt(start)
  <2>1. loop /\ r >= s.len /\ x = LoopStart(s)
    BY <1>1, <1>2, <1>4, <1>6 DEF Fold
  <2>2. x.frame = s.loopStart /\ x.count = s.loopStart
    BY <2>1 DEF LoopStart
  <2>3. CASE HasLoopPoints(s)
    <3>1. k + 1 >= s.loopEnd
      BY <1>1, <1>3, <2>1, <2>3 DEF IsTold
    <3>2. StepIn(s, loop, k) = s.loopStart
      BY <2>1, <2>3, <3>1 DEF StepIn
    <3>3. QED
      BY <1>2, <1>4, <2>2, <3>2 DEF Near
  <2>4. CASE ~HasLoopPoints(s)
    <3>1. s.loopStart = 0 /\ Truncated(s.duration) = s.len
      BY <2>1, <2>4 DEF IsTold
    <3>2. CASE s.duration > 0
      <4>1. k + 1 >= s.len
        BY <1>1, <1>3, <2>1
      <4>2. StepIn(s, loop, k) = 0
        BY <2>1, <2>4, <3>1, <3>2, <4>1 DEF StepIn
      <4>3. QED
        BY <1>2, <1>4, <2>2, <3>1, <4>2 DEF Near
    <3>3. CASE s.duration = 0
      <4>1. start = 0 /\ Time(0) = 0
        BY <3>3, TicksIs DEF Time
      <4>2. k = 0
        BY <1>2, <4>1, FrameTime
      <4>3. QED
        BY <1>2, <1>4, <2>2, <3>1, <4>2 DEF Near
    <3>4. QED
      BY <3>2, <3>3
  <2>5. QED
    BY <2>3, <2>4
<1>7. QED
  BY <1>5, <1>6

LEMMA PlayKeeps ==
  ASSUME StreamInv, NEW loop \in BOOLEAN, NEW offset \in Offsets, Play(loop, offset)
  PROVE  StreamInv'
<1>1. PICK start \in 0 .. source.duration :
        /\ start \in Nat
        /\ loop /\ HasLoopPoints(source) => Truncated(start) < source.loopEnd
        /\ mix' \in MixType /\ mix'.samples = <<>> /\ mix'.phase = 0
        /\ mix'.position = Truncated(start)
        /\ mix'.loop = loop /\ ~mix'.eof /\ mix'.playing
        /\ voice' \in VoiceType /\ voice'.producer = Truncated(start)
        /\ voice'.requestedSeek = start /\ voice'.generation = voice.generation + 1
  BY PlayParts
<1>2. finished' = FALSE /\ UNCHANGED <<source, worker, decoderAt>>
  BY DEF Play
<1>3. voice.generation \in Nat /\ worker.generation \in Nat
  BY MixParts DEF StreamInv
<1>4. StreamTypes'
  BY <1>1, <1>2 DEF StreamInv, StreamTypes
<1>5. NextRead' = Rounded(start) /\ Reads' = PlaceAt(start)
  BY <1>1, PlayReads
<1>6. Samples' /\ Comes' = Fold(source, loop, PlaceAt(start))
  BY <1>1, <1>2, <1>5, NoSamples DEF Samples, Comes
<1>7. Produced'
  <2>1. Rounded(start) - Truncated(start) \in {0, 1}
    BY <1>1, TimeParts
  <2>2. NextRead' - voice'.producer \in {0, 1}
    <3>1. PICK a : a = Rounded(start)
      OBVIOUS
    <3>2. PICK b : b = Truncated(start)
      OBVIOUS
    <3>3. a - b \in {0, 1}
      BY <2>1, <3>1, <3>2
    <3>4. NextRead' = a /\ voice'.producer = b
      BY <1>1, <1>5, <3>1, <3>2
    <3>5. QED
      BY <3>3, <3>4
  <2>3. Leads(source, mix.loop, mix.samples, Reads)'
    BY <1>1, NoSamples DEF Leads
  <2>4. QED
    BY <1>1, <1>2, <2>2, <2>3 DEF Produced
<1>8. Reading'
  <2>1. worker.busy => worker.generation <= voice.generation /\ worker.wanted > 0
    BY DEF StreamInv, Reading
  <2>2. worker.busy => worker.generation # voice'.generation
    BY <1>1, <1>3, <2>1
  <2>3. worker.busy => worker.generation <= voice'.generation
    BY <1>1, <1>3, <2>1
  <2>4. start # NONE
    BY <1>1, MediaAssumption
  <2>5. QED
    BY <1>1, <1>2, <2>1, <2>2, <2>3, <2>4 DEF Reading
<1>9. Positioned'
  <2>1. IsSource(source) /\ source.duration \in Nat /\ start <= source.duration
    BY <1>1, SourceParts DEF StreamInv
  <2>2. Told' => Near(source, loop, Truncated(start), Fold(source, loop, PlaceAt(start)))
    BY <1>1, <1>2, <2>1, ToldIs, PlayIsNear
  <2>3. QED
    BY <1>1, <1>2, <1>6, <2>2 DEF Positioned
<1>10. QED
  BY <1>4, <1>6, <1>7, <1>8, <1>9 DEF StreamInv

LEMMA StopKeeps == ASSUME StreamInv, Stop PROVE StreamInv'
<1>1. /\ mix' = [mix EXCEPT !.playing = FALSE, !.stopAfterFade = FALSE, !.samples = <<>>]
      /\ voice' = [voice EXCEPT !.generation = voice.generation + 1]
      /\ UNCHANGED <<source, worker, decoderAt, finished>>
  BY DEF Stop
<1>2. mix \in MixType /\ voice \in VoiceType /\ voice.generation \in Nat /\ worker.generation \in Nat
  BY MixParts DEF StreamInv, StreamTypes
<1>3. mix' \in MixType
  BY <1>1, <1>2, NoSamples DEF MixType
<1>4. ~mix'.playing /\ mix'.samples = <<>>
  BY <1>1, <1>2 DEF MixType
<1>5. voice' \in VoiceType /\ voice'.generation = voice.generation + 1
  BY <1>1, <1>2 DEF VoiceType
<1>6. StreamTypes'
  BY <1>1, <1>3, <1>5 DEF StreamInv, StreamTypes
<1>7. worker.busy => worker.generation <= voice.generation /\ worker.wanted > 0
  BY DEF StreamInv, Reading
<1>8. QED
  BY <1>1, <1>2, <1>4, <1>5, <1>6, <1>7, SilentIsFine

\* fade(), setSuspended() and setParameters() touch no frame.
LEMMA SettingParts ==
  ASSUME StreamInv,
         \/ \E stop, atOnce \in BOOLEAN : Fade(stop, atOnce)
         \/ SetSuspended
         \/ \E p \in Pitches : SetPitch(p)
  PROVE  /\ mix' \in MixType /\ mix'.samples = mix.samples /\ mix'.loop = mix.loop
         /\ mix'.position = mix.position /\ mix'.eof = mix.eof /\ mix'.phase = mix.phase
         /\ mix'.playing => mix.playing
         /\ UNCHANGED <<source, voice, worker, decoderAt, heard, finished>>
<1>1. mix \in MixType
  BY DEF StreamInv, StreamTypes
<1>2. ASSUME NEW stop \in BOOLEAN, NEW atOnce \in BOOLEAN, Fade(stop, atOnce)
      PROVE  /\ mix' \in MixType /\ mix'.samples = mix.samples /\ mix'.loop = mix.loop
             /\ mix'.position = mix.position /\ mix'.eof = mix.eof /\ mix'.phase = mix.phase
             /\ mix'.playing => mix.playing
  <2>1. mix' = [mix EXCEPT !.stopAfterFade = stop, !.playing = mix.playing /\ ~(stop /\ atOnce)]
    BY <1>2 DEF Fade
  <2>2. PICK b \in BOOLEAN : b = (mix.playing /\ ~(stop /\ atOnce))
    OBVIOUS
  <2>3. mix' = [mix EXCEPT !.stopAfterFade = stop, !.playing = b]
    BY <2>1, <2>2
  <2>4. mix' \in MixType
    BY <1>1, <2>3 DEF MixType
  <2>5. QED
    BY <1>1, <2>2, <2>3, <2>4 DEF MixType
<1>3. ASSUME SetSuspended
      PROVE  /\ mix' \in MixType /\ mix'.samples = mix.samples /\ mix'.loop = mix.loop
             /\ mix'.position = mix.position /\ mix'.eof = mix.eof /\ mix'.phase = mix.phase
             /\ mix'.playing => mix.playing
  <2>1. PICK b \in BOOLEAN : b = ~mix.suspended
    OBVIOUS
  <2>2. mix' = [mix EXCEPT !.suspended = b]
    BY <1>3, <2>1 DEF SetSuspended
  <2>3. QED
    BY <1>1, <2>2 DEF MixType
<1>4. ASSUME NEW p \in Pitches, SetPitch(p)
      PROVE  /\ mix' \in MixType /\ mix'.samples = mix.samples /\ mix'.loop = mix.loop
             /\ mix'.position = mix.position /\ mix'.eof = mix.eof /\ mix'.phase = mix.phase
             /\ mix'.playing => mix.playing
  BY <1>1, <1>4 DEF SetPitch, MixType
<1>5. UNCHANGED <<source, voice, worker, decoderAt, heard, finished>>
  BY DEF Fade, SetSuspended, SetPitch
<1>6. QED
  BY <1>2, <1>3, <1>4, <1>5

LEMMA SettingKeeps ==
  ASSUME StreamInv,
         \/ \E stop, atOnce \in BOOLEAN : Fade(stop, atOnce)
         \/ SetSuspended
         \/ \E p \in Pitches : SetPitch(p)
  PROVE  StreamInv'
<1>1. finished \in BOOLEAN /\ (mix.playing => ~finished)
  BY DEF StreamInv, StreamTypes, Produced
<1>2. QED
  BY <1>1, SettingParts, MixStays
----------------------------------------------------------------------------
(* The decode worker.                                                      *)

LEMMA ReclaimKeeps == ASSUME StreamInv, Reclaim PROVE StreamInv'
<1>1. /\ mix' = [mix EXCEPT !.samples = <<>>] /\ ~mix.playing /\ ~worker.busy
      /\ UNCHANGED <<source, voice, worker, decoderAt, finished>>
  BY DEF Reclaim
<1>2. mix \in MixType
  BY DEF StreamInv, StreamTypes
<1>3. mix' \in MixType /\ ~mix'.playing /\ mix'.samples = <<>>
  BY <1>1, <1>2, NoSamples DEF MixType
<1>4. StreamTypes'
  BY <1>1, <1>3 DEF StreamInv, StreamTypes
<1>5. QED
  BY <1>1, <1>3, <1>4, SilentIsFine

LEMMA StartFillKeeps == ASSUME StreamInv, StartFill PROVE StreamInv' /\ Comes' = Comes
<1>1. /\ ~worker.busy /\ mix.playing /\ Len(mix.samples) < BufferFrames
      /\ UNCHANGED <<source, mix, decoderAt, finished>>
  BY DEF StartFill
<1>2. /\ Len(mix.samples) \in Nat /\ BufferFrames \in Nat /\ DecodeFrames \in Nat /\ DecodeFrames > 0
      /\ voice.generation \in Nat /\ voice.requestedSeek \in Nat \cup {NONE}
      /\ voice \in VoiceType
  BY MediaAssumption, MixParts DEF StreamInv, StreamTypes
<1>3. PICK wanted \in Nat :
        wanted > 0 /\ wanted = Min({DecodeFrames, BufferFrames - Len(mix.samples)})
  <2>1. BufferFrames - Len(mix.samples) \in Int /\ BufferFrames - Len(mix.samples) > 0
    BY <1>1, <1>2
  <2>2. Min({DecodeFrames, BufferFrames - Len(mix.samples)}) \in Nat \ {0}
    BY <1>2, <2>1, MinOfTwo
  <2>3. QED
    BY <2>2
<1>4. worker' = [busy |-> TRUE, generation |-> voice.generation, seek |-> voice.requestedSeek,
                 wanted |-> wanted]
  BY <1>3 DEF StartFill
<1>5. /\ worker' \in WorkerType /\ worker'.busy /\ worker'.generation = voice.generation
      /\ worker'.seek = voice.requestedSeek /\ worker'.wanted = wanted
  BY <1>2, <1>4 DEF WorkerType
<1>6. voice' = [voice EXCEPT !.requestedSeek = NONE]
  BY DEF StartFill
<1>7. /\ voice' \in VoiceType /\ voice'.requestedSeek = NONE
      /\ voice'.producer = voice.producer /\ voice'.generation = voice.generation
  BY <1>2, <1>6 DEF VoiceType
<1>8. StreamTypes'
  BY <1>1, <1>5, <1>7 DEF StreamInv, StreamTypes
<1>9. NextRead' = NextRead /\ Reads' = Reads
  <2>1. NextRead' = ReadFrom'
    BY <1>5, <1>7 DEF NextRead
  <2>2. ReadFrom' = NextRead
    BY <1>1, <1>5 DEF ReadFrom, NextRead
  <2>3. QED
    BY <1>7, <2>1, <2>2 DEF Reads
<1>10. Samples' /\ Comes' = Comes /\ (Told)' = Told
  BY <1>1, <1>9, ToldIs DEF StreamInv, Samples, Comes
<1>11. Produced'
  BY <1>1, <1>7, <1>9 DEF StreamInv, Produced
<1>12. Reading'
  BY <1>1, <1>2, <1>3, <1>5, <1>7 DEF Reading
<1>13. Positioned'
  BY <1>1, <1>10 DEF StreamInv, Positioned
<1>14. QED
  BY <1>8, <1>10, <1>11, <1>12, <1>13 DEF StreamInv

LEMMA IdleParts == Idle \in WorkerType /\ ~Idle.busy
BY DEF Idle, WorkerType

\* The decoder reads the frames that stand where it is, as far as there are any.
LEMMA DecodedIs ==
  ASSUME StreamTypes
  PROVE  /\ Decoded \in Seq(Nat) /\ Len(Decoded) \in Nat
         /\ \A i \in 1 .. Len(Decoded) : Decoded[i] = ReadFrom + i - 1 /\ Decoded[i] < source.len
         /\ worker.wanted > 0 /\ Len(Decoded) = 0 => ReadFrom >= source.len
<1>1. source.len \in Nat /\ ReadFrom \in Nat /\ worker.wanted \in Nat
  BY SourceParts, MixParts
<1>2. PICK count : count = Min({worker.wanted, Max({0, source.len - ReadFrom})})
  OBVIOUS
<1>3. /\ count \in Nat /\ (count <= source.len - ReadFrom \/ count = 0)
      /\ worker.wanted > 0 /\ count = 0 => ReadFrom >= source.len
  <2>1. Max({0, source.len - ReadFrom}) =
          IF 0 >= source.len - ReadFrom THEN 0 ELSE source.len - ReadFrom
    BY <1>1, MaxOfTwo
  <2>2. Max({0, source.len - ReadFrom}) \in Nat
    BY <1>1, <2>1
  <2>3. count = IF worker.wanted <= Max({0, source.len - ReadFrom}) THEN worker.wanted
                ELSE Max({0, source.len - ReadFrom})
    BY <1>1, <1>2, <2>2, MinOfTwo
  <2>4. QED
    BY <1>1, <2>1, <2>3
<1>4. count \in Nat
  BY <1>3
<1>5. Decoded = [i \in 1 .. count |-> ReadFrom + i - 1]
  BY <1>2 DEF Decoded
<1>6. \A i \in 1 .. count : ReadFrom + i - 1 \in Nat /\ ReadFrom + i - 1 < source.len
  BY <1>1, <1>3, <1>4
<1>7. Decoded \in Seq(Nat) /\ Len(Decoded) = count
  <2>1. Decoded \in [1 .. count -> Nat]
    BY <1>5, <1>6
  <2>2. QED
    BY <1>4, <1>5, <2>1, SeqDef
<1>8. \A i \in 1 .. count : Decoded[i] = ReadFrom + i - 1
  BY <1>5
<1>9. QED
  BY <1>3, <1>4, <1>6, <1>7, <1>8

LEMMA FillDroppedKeeps ==
  ASSUME StreamInv, FillDropped
  PROVE  StreamInv' /\ (mix.playing => Comes' = Comes)
<1>1. /\ worker.busy /\ ~Current /\ worker' = Idle /\ decoderAt' = ReadFrom + Len(Decoded)
      /\ UNCHANGED <<source, mix, voice, finished>>
  BY DEF FillDropped
<1>2. decoderAt' \in Nat
  <2>1. ReadFrom \in Nat
    BY MixParts DEF StreamInv
  <2>2. Len(Decoded) \in Nat
    BY DecodedIs DEF StreamInv
  <2>3. QED
    BY <1>1, <2>1, <2>2
<1>3. StreamTypes'
  BY <1>1, <1>2, IdleParts DEF StreamInv, StreamTypes
<1>4. mix.playing => Reads' = Reads /\ NextRead' = NextRead
  <2> SUFFICES ASSUME mix.playing PROVE Reads' = Reads /\ NextRead' = NextRead
    OBVIOUS
  <2>1. voice.requestedSeek # NONE
    BY <1>1 DEF StreamInv, Reading, Current
  <2>2. QED
    BY <1>1, <2>1 DEF Reads, NextRead
<1>5. Samples' /\ (Told)' = Told
  BY <1>1, ToldIs DEF StreamInv, Samples
<1>6. mix.playing \/ Len(mix.samples) > 0 => Comes' = Comes
  BY <1>1, <1>4 DEF Comes, AtHand
<1>7. Produced'
  BY <1>1, <1>4 DEF StreamInv, Produced
<1>8. Reading'
  BY <1>1, IdleParts DEF Reading
<1>9. Positioned'
  BY <1>1, <1>5, <1>6 DEF StreamInv, Positioned
<1>10. QED
  BY <1>3, <1>5, <1>6, <1>7, <1>8, <1>9 DEF StreamInv

LEMMA FillFailsKeeps == ASSUME StreamInv, FillFails PROVE StreamInv'
<1>1. /\ mix' = [mix EXCEPT !.playing = FALSE, !.eof = TRUE, !.samples = <<>>]
      /\ voice' = [voice EXCEPT !.failure = TRUE, !.requestedSeek = NONE]
      /\ worker' = Idle /\ UNCHANGED <<source, finished>>
  BY DEF FillFails
<1>2. decoderAt' \in Nat
  BY SourceParts DEF FillFails, StreamInv
<1>3. mix \in MixType /\ voice \in VoiceType
  BY DEF StreamInv, StreamTypes
<1>4. mix' \in MixType
  BY <1>1, <1>3, NoSamples DEF MixType
<1>5. ~mix'.playing /\ mix'.samples = <<>>
  BY <1>1, <1>3 DEF MixType
<1>6. voice' \in VoiceType
  BY <1>1, <1>3 DEF VoiceType
<1>7. StreamTypes'
  BY <1>1, <1>2, <1>4, <1>6, IdleParts DEF StreamInv, StreamTypes
<1>8. QED
  BY <1>1, <1>5, <1>7, IdleParts, SilentIsFine

\* The places on from there.
LEMMA ReadsOnward ==
  ASSUME StreamInv, NEW n \in Nat
  PROVE  /\ Onward(Reads, n) \in Places /\ Onward(Reads, n).frame = NextRead + n
         /\ Onward(Reads, n).count = voice.producer + n
<1>1. PICK a \in Places : a = Reads
  BY MixParts DEF StreamInv
<1>2. /\ Onward(a, n) \in Places
      /\ Onward(a, n).frame = a.frame + n /\ Onward(a, n).count = a.count + n
  BY PlaceParts
<1>3. a.frame = NextRead /\ a.count = voice.producer
  BY <1>1 DEF Reads
<1>4. Onward(a, n) = Onward(Reads, n)
  BY <1>1
<1>5. QED
  BY <1>2, <1>3, <1>4

\* What is appended is counted up to the end of a loop.
LEMMA UsableIs ==
  ASSUME StreamInv, worker.busy, Current
  PROVE  /\ Usable \in Seq(Places) /\ Len(Usable) \in Nat /\ NextRead = ReadFrom
         /\ From(source, mix.loop, Reads, Usable)
         /\ (Usable = <<>> <=> Decoded = <<>>) /\ (Usable = <<>> <=> Len(Usable) = 0)
         /\ (Usable = <<>> => NextRead >= source.len /\ ~EndsLoop)
         /\ ~EndsLoop => Len(Usable) = Len(Decoded)
<1>1. /\ source.len \in Nat /\ source.loopEnd \in Nat /\ voice.producer \in Nat
      /\ mix.loop \in BOOLEAN /\ NextRead \in Nat /\ Reads \in Places
      /\ Reads.frame = NextRead /\ Reads.count = voice.producer
  BY SourceParts, MixParts DEF StreamInv, Reads
<1>2. mix.playing /\ NextRead = ReadFrom /\ worker.wanted > 0
  BY DEF Current, StreamInv, Reading, NextRead
<1>3. PICK d : d = Decoded
  OBVIOUS
<1>4. /\ d \in Seq(Nat) /\ Len(d) \in Nat
      /\ \A i \in 1 .. Len(d) : d[i] = NextRead + i - 1 /\ d[i] < source.len
      /\ Len(d) = 0 => NextRead >= source.len
  BY <1>2, <1>3, DecodedIs DEF StreamInv
<1>5. d = <<>> <=> Len(d) = 0
  BY <1>4, EmptySeq
<1> DEFINE cut == mix.loop /\ HasLoopPoints(source)
<1>6. cut => voice.producer < source.loopEnd
  BY <1>2 DEF StreamInv, Produced
<1>7. PICK k : k = IF mix.loop /\ HasLoopPoints(source) /\ voice.producer < source.loopEnd
                   THEN Min({Len(d), source.loopEnd - voice.producer})
                   ELSE Len(d)
  OBVIOUS
<1>8. /\ k \in 0 .. Len(d) /\ k \in Nat /\ (k = 0 <=> Len(d) = 0)
      /\ cut => voice.producer + k <= source.loopEnd
      /\ ~cut \/ voice.producer + k < source.loopEnd => k = Len(d)
  <2>1. CASE ~cut
    BY <1>4, <1>7, <2>1
  <2>2. CASE cut
    <3>1. source.loopEnd - voice.producer \in Int /\ source.loopEnd - voice.producer > 0
      BY <1>1, <1>6, <2>2
    <3>2. k = IF Len(d) <= source.loopEnd - voice.producer THEN Len(d)
              ELSE source.loopEnd - voice.producer
      BY <1>4, <1>6, <1>7, <2>2, <3>1, MinOfTwo
    <3>3. QED
      BY <1>1, <1>4, <2>2, <3>1, <3>2
  <2>3. QED
    BY <2>1, <2>2
<1>9. PICK u : u = [i \in 1 .. k |-> [frame |-> d[i], count |-> voice.producer + i - 1]]
  OBVIOUS
<1>10. Usable = u
  BY <1>3, <1>7, <1>9 DEF Usable
<1>11. ASSUME NEW i \in 1 .. k
       PROVE  /\ u[i] = Onward(Reads, i - 1) /\ u[i] \in Places /\ u[i].frame < source.len
              /\ cut => u[i].count < source.loopEnd
  <2>1. i \in 1 .. Len(d) /\ i - 1 \in Nat
    BY <1>4, <1>8
  <2>2. d[i] = NextRead + (i - 1) /\ d[i] < source.len
    BY <1>1, <1>4, <2>1
  <2>3. voice.producer + i - 1 = voice.producer + (i - 1)
    BY <1>1, <2>1
  <2>4. u[i] = Onward(Reads, i - 1)
    BY <1>1, <1>9, <2>2, <2>3 DEF Onward
  <2>5. u[i] \in Places /\ u[i].frame = d[i] /\ u[i].count = voice.producer + (i - 1)
    <3>1. PICK n \in Nat : n = i - 1
      BY <2>1
    <3>2. /\ Onward(Reads, n) \in Places /\ Onward(Reads, n).frame = NextRead + n
          /\ Onward(Reads, n).count = voice.producer + n
      BY ReadsOnward
    <3>3. QED
      BY <2>2, <2>4, <3>1, <3>2
  <2>6. cut => voice.producer + (i - 1) < source.loopEnd
    BY <1>1, <1>8, <2>1
  <2>7. QED
    BY <2>2, <2>4, <2>5, <2>6
<1>12. u \in Seq(Places) /\ Len(u) = k
  <2>1. u \in [1 .. k -> Places]
    BY <1>9, <1>11
  <2>2. QED
    BY <1>8, <1>9, <2>1, SeqDef
<1>13. From(source, mix.loop, Reads, u)
  BY <1>11, <1>12 DEF From
<1>14. u = <<>> <=> k = 0
  BY <1>12, EmptySeq
<1>15. EndsLoop <=> cut /\ voice.producer + k >= source.loopEnd
  BY <1>10, <1>12 DEF EndsLoop
<1>16. k = 0 => ~EndsLoop /\ NextRead >= source.len
  <2>1. k = 0 /\ cut => ~(voice.producer + k >= source.loopEnd)
    BY <1>1, <1>6
  <2>2. QED
    BY <1>4, <1>8, <1>15, <2>1
<1>17. ~EndsLoop => k = Len(d)
  <2>1. voice.producer + k >= source.loopEnd \/ voice.producer + k < source.loopEnd
    BY <1>1, <1>8
  <2>2. QED
    BY <1>8, <1>15, <2>1
<1>18. QED
  BY <1>2, <1>3, <1>5, <1>8, <1>10, <1>12, <1>13, <1>14, <1>16, <1>17

LEMMA FillAppendsKeeps == ASSUME StreamInv, FillAppends PROVE StreamInv' /\ Comes' = Comes
<1>1. worker.busy /\ Current /\ mix.playing /\ UNCHANGED <<source, finished>> /\ worker' = Idle
  BY DEF FillAppends, Current
<1>2. /\ source.len \in Nat /\ source.loopStart \in Nat /\ source.loopEnd \in Nat
      /\ IsSource(source) /\ mix.loop \in BOOLEAN /\ mix.eof \in BOOLEAN
      /\ mix.samples \in Seq(Places) /\ voice.producer \in Nat
      /\ mix \in MixType /\ voice \in VoiceType
      /\ NextRead \in Nat /\ Reads \in Places
      /\ Reads.frame = NextRead /\ Reads.count = voice.producer
      /\ LoopStart(source) \in Places
      /\ Fold(source, mix.loop, LoopStart(source)) = LoopStart(source)
  BY SourceParts, MixParts, Folded DEF StreamInv, StreamTypes, Reads
<1>3. PICK u : u = Usable
  OBVIOUS
<1>4. /\ u \in Seq(Places) /\ Len(u) \in Nat /\ NextRead = ReadFrom
      /\ From(source, mix.loop, Reads, u)
      /\ (u = <<>> <=> Decoded = <<>>) /\ (u = <<>> <=> Len(u) = 0)
      /\ (u = <<>> => NextRead >= source.len /\ ~EndsLoop)
      /\ ~EndsLoop => Len(u) = Len(Decoded)
  BY <1>1, <1>3, UsableIs
<1>5. PICK restart \in BOOLEAN : restart = (EndsLoop \/ (Decoded = <<>> /\ mix.loop))
  BY DEF EndsLoop
<1>6. PICK ends \in BOOLEAN : ends = (mix.eof \/ (Decoded = <<>> /\ ~restart))
  BY <1>2
<1>7. PICK r : r = mix.samples \o u
  OBVIOUS
<1>8. mix' = [mix EXCEPT !.samples = r, !.eof = ends]
  BY <1>3, <1>5, <1>6, <1>7 DEF FillAppends
<1>9. PICK empty \in BOOLEAN :
        empty = IF restart THEN Usable = <<>> ELSE voice.emptyLoopRestart /\ Usable = <<>>
  BY <1>2 DEF VoiceType
<1>10. PICK p : p = IF restart THEN source.loopStart ELSE voice.producer + Len(u)
  OBVIOUS
<1>11. p \in Nat
  BY <1>2, <1>4, <1>10
<1>12. PICK w \in Nat \cup {NONE} :
         w = IF restart THEN Time(source.loopStart) ELSE voice.requestedSeek
  BY <1>2, TimeParts DEF VoiceType
<1>13. voice' = [voice EXCEPT !.producer = p, !.requestedSeek = w, !.emptyLoopRestart = empty]
  BY <1>3, <1>5, <1>9, <1>10, <1>12 DEF FillAppends
<1>14. /\ voice' \in VoiceType /\ voice'.producer = p /\ voice'.generation = voice.generation
       /\ voice'.requestedSeek = w
  BY <1>2, <1>11, <1>12, <1>13 DEF VoiceType
<1>15. decoderAt' = NextRead + Len(Decoded) /\ Len(Decoded) \in Nat
  BY <1>4, DecodedIs DEF FillAppends, StreamInv
<1>16. Reads' = IF restart THEN LoopStart(source) ELSE Onward(Reads, Len(u))
  <2>1. CASE restart
    <3>1. w = Time(source.loopStart) /\ w # NONE /\ Rounded(w) = source.loopStart
      BY <1>2, <1>12, <2>1, FrameTime, TimeParts, MediaAssumption
    <3>2. NextRead' = source.loopStart
      BY <1>14, <3>1 DEF NextRead
    <3>3. QED
      BY <1>10, <1>14, <2>1, <3>2 DEF Reads, LoopStart
  <2>2. CASE ~restart
    <3>1. w = NONE
      BY <1>1, <1>12, <2>2 DEF StreamInv, Reading, Current
    <3>2. ~worker'.busy
      BY <1>1, IdleParts
    <3>3. NextRead' = decoderAt'
      BY <1>14, <3>1, <3>2 DEF NextRead
    <3>4. NextRead' = NextRead + Len(u)
      BY <1>4, <1>5, <1>15, <2>2, <3>3
    <3>5. QED
      BY <1>2, <1>10, <1>14, <2>2, <3>4 DEF Reads, Onward
  <2>3. QED
    BY <2>1, <2>2
<1>17. PICK o \in Places : o = Reads'
  BY <1>2, <1>4, <1>16, PlaceParts
<1>18. o.frame = NextRead' /\ o.count = p
  BY <1>14, <1>17 DEF Reads
<1>19. Fold(source, mix.loop, o) = Fold(source, mix.loop, Onward(Reads, Len(u)))
  <2>1. /\ Onward(Reads, Len(u)).frame = NextRead + Len(u)
        /\ Onward(Reads, Len(u)).count = voice.producer + Len(u)
    BY <1>4, ReadsOnward
  <2>2. CASE ~restart
    BY <1>16, <1>17, <2>2
  <2>3. CASE restart /\ EndsLoop
    <3>1. mix.loop /\ HasLoopPoints(source) /\ voice.producer + Len(u) >= source.loopEnd
      BY <1>3, <2>3 DEF EndsLoop
    <3>2. Fold(source, mix.loop, Onward(Reads, Len(u))) = LoopStart(source)
      BY <2>1, <3>1 DEF Fold
    <3>3. QED
      BY <1>2, <1>16, <1>17, <2>3, <3>2
  <2>4. CASE restart /\ ~EndsLoop
    <3>1. Len(u) = 0 /\ mix.loop /\ NextRead >= source.len
      BY <1>4, <1>5, <2>4
    <3>2. NextRead + Len(u) >= source.len
      BY <1>2, <3>1
    <3>3. Fold(source, mix.loop, Onward(Reads, Len(u))) = LoopStart(source)
      BY <2>1, <3>1, <3>2 DEF Fold
    <3>4. QED
      BY <1>2, <1>16, <1>17, <2>4, <3>3
  <2>5. QED
    BY <2>2, <2>3, <2>4
<1>20. /\ r \in Seq(Places) /\ Len(r) = Len(mix.samples) + Len(u)
       /\ Consecutive(source, mix.loop, r) /\ Leads(source, mix.loop, r, o)
       /\ AtHand(source, mix.loop, r, o) = Comes
  <2> DEFINE q == mix.samples
             a == Reads
             loop == mix.loop
  <2>1. Consecutive(source, loop, q)
    BY DEF StreamInv, Samples
  <2>2. Leads(source, loop, q, a)
    BY <1>1 DEF StreamInv, Produced
  <2>3. From(source, loop, a, u)
    BY <1>4
  <2>4. /\ IsSource(source) /\ loop \in BOOLEAN /\ q \in Seq(Places) /\ a \in Places
        /\ u \in Seq(Places) /\ o \in Places
        /\ Fold(source, loop, o) = Fold(source, loop, Onward(a, Len(u))) /\ r = q \o u
    BY <1>2, <1>4, <1>7, <1>17, <1>19
  <2>5. Comes = AtHand(source, loop, q, a)
    BY DEF Comes
  <2> HIDE DEF q, a, loop
  <2>6. Joined(source, loop, q, a, u, o, r)
    BY <2>1, <2>2, <2>3, <2>4, FramesCome
  <2>7. QED
    BY <2>5, <2>6 DEF q, loop, Joined
<1>21. /\ mix' \in MixType /\ mix'.samples = r /\ mix'.eof = ends /\ mix'.loop = mix.loop
       /\ mix'.playing = mix.playing /\ mix'.position = mix.position
  BY <1>2, <1>8, <1>20 DEF MixType
<1>22. decoderAt' \in Nat
  BY <1>2, <1>15
<1>23. StreamTypes'
  BY <1>1, <1>2, <1>14, <1>21, <1>22, IdleParts DEF StreamInv, StreamTypes
<1>24. Samples' /\ Comes' = Comes
  BY <1>1, <1>17, <1>20, <1>21 DEF Samples, Comes
<1>25. Produced'
  <2>1. Leads(source, mix.loop, r, o)
    BY <1>20
  <2>2. mix.loop /\ HasLoopPoints(source) => p < source.loopEnd
    <3>1. CASE restart
      BY <1>2, <1>10, <3>1 DEF HasLoopPoints
    <3>2. CASE ~restart
      <4>1. p = voice.producer + Len(u) /\ ~EndsLoop
        BY <1>5, <1>10, <3>2
      <4>2. mix.loop /\ HasLoopPoints(source) => ~(voice.producer + Len(u) >= source.loopEnd)
        BY <1>3, <4>1 DEF EndsLoop
      <4>3. QED
        BY <1>2, <1>4, <4>1, <4>2
    <3>3. QED
      BY <3>1, <3>2
  <2>3. ends => ~mix.loop /\ o.frame >= source.len
    <3> SUFFICES ASSUME ends PROVE ~mix.loop /\ o.frame >= source.len
      OBVIOUS
    <3>1. ~mix.loop /\ NextRead >= source.len
      <4>1. CASE mix.eof
        BY <1>1, <4>1 DEF StreamInv, Produced
      <4>2. CASE ~mix.eof
        BY <1>4, <1>5, <1>6, <4>2
      <4>3. QED
        BY <4>1, <4>2
    <3>2. ~restart
      BY <1>5, <3>1 DEF EndsLoop
    <3>3. o.frame = NextRead + Len(u)
      BY <1>4, <1>16, <1>17, <3>2, ReadsOnward
    <3>4. QED
      BY <1>2, <1>4, <3>1, <3>3
  <2>4. o.frame - o.count \in {0, 1}
    <3>1. CASE restart
      BY <1>2, <1>16, <1>17, <3>1 DEF LoopStart
    <3>2. CASE ~restart
      <4>1. o.frame = NextRead + Len(u) /\ o.count = voice.producer + Len(u)
        BY <1>4, <1>16, <1>17, <3>2, ReadsOnward
      <4>2. NextRead - voice.producer \in {0, 1}
        BY <1>1 DEF StreamInv, Produced
      <4>3. QED
        BY <1>2, <1>4, <4>1, <4>2
    <3>3. QED
      BY <3>1, <3>2
  <2>5. ~finished
    BY <1>1 DEF StreamInv, Produced
  <2>6. QED
    BY <1>1, <1>14, <1>17, <1>18, <1>21, <2>1, <2>2, <2>3, <2>4, <2>5 DEF Produced
<1>26. Reading'
  BY <1>1, IdleParts DEF Reading
<1>27. Positioned'
  <2>1. (Told)' = Told
    BY <1>1, <1>21, ToldIs
  <2>2. QED
    BY <1>1, <1>21, <1>24, <2>1 DEF StreamInv, Positioned
<1>28. QED
  BY <1>23, <1>24, <1>25, <1>26, <1>27 DEF StreamInv

----------------------------------------------------------------------------
(* The device callback.                                                    *)

\* A buffer, with what the worker reads next behind it.
Buffered(m) == /\ m \in MixType /\ m.loop = mix.loop
               /\ Consecutive(source, m.loop, m.samples)
               /\ Leads(source, m.loop, m.samples, Reads)
First(m) == AtHand(source, m.loop, m.samples, Reads)
Followed(m) == Told => Near(source, mix.loop, m.position, First(m))

\* c is m when its phase is consumed.
Consumes(m, c) ==
  /\ Buffered(c) /\ c.playing = m.playing /\ c.eof = m.eof
  /\ Len(c.samples) > 0 => c.phase = 0
  /\ Ahead(source, mix.loop, First(c), c.phase) = Ahead(source, mix.loop, First(m), m.phase)
  /\ Followed(m) => Followed(c)

\* A position that is near is so one frame on.
LEMMA NearNext ==
  ASSUME NEW s, IsSource(s), s.duration \in Nat, NEW loop \in BOOLEAN, loop => IsTold(s),
         NEW at \in Nat, NEW x \in Places, x.frame < s.len, Near(s, loop, at, x)
  PROVE  Near(s, loop, StepIn(s, loop, at), Fold(s, loop, Onward(x, 1)))
<1>1. /\ s.len \in Nat /\ s.loopStart \in Nat /\ s.loopEnd \in Nat
      /\ x.frame \in Nat /\ x.count \in Nat
  BY PlaceParts DEF IsSource
<1>2. PICK d \in Nat : d = Truncated(s.duration)
  BY TimeParts
<1>3. s.duration = 0 => d = 0
  <2>1. Time(0) = 0
    BY TicksIs DEF Time
  <2>2. QED
    BY <1>2, <2>1, FrameTime
<1>4. PICK y : y = Onward(x, 1)
  OBVIOUS
<1>5. y.frame = x.frame + 1 /\ y.count = x.count + 1
  BY <1>4 DEF Onward
<1>6. PICK z : z = Fold(s, loop, y)
  OBVIOUS
<1>7. z = IF loop /\ (y.frame >= s.len \/ (s.loopEnd > s.loopStart /\ y.count >= s.loopEnd))
          THEN LoopStart(s) ELSE y
  BY <1>6 DEF Fold, HasLoopPoints
<1>8. LoopStart(s).frame = s.loopStart /\ LoopStart(s).count = s.loopStart
  BY DEF LoopStart
<1> DEFINE step(k) == StepIn(s, loop, k)
<1>9. \A k \in Nat : step(k) = IF loop /\ s.loopEnd > s.loopStart /\ k + 1 >= s.loopEnd
                               THEN s.loopStart
                               ELSE IF loop /\ s.duration > 0 /\ k + 1 >= d THEN 0 ELSE k + 1
  BY <1>2 DEF StepIn, HasLoopPoints
<1>10. loop => IF s.loopEnd > s.loopStart
               THEN s.loopEnd <= s.len /\ (s.duration = 0 \/ s.loopEnd <= d)
               ELSE s.loopStart = 0 /\ d = s.len
  BY <1>2 DEF IsTold, HasLoopPoints
<1>11. \/ x.count = at /\ x.frame \in {at, at + 1}
       \/ x.frame = step(at) /\ x.count = x.frame
  BY <1>1 DEF Near
<1>12. SUFFICES \/ z.count = step(at) /\ z.frame - step(at) \in {0, 1}
                \/ z.frame = step(step(at)) /\ z.count = z.frame
  BY <1>4, <1>6 DEF Near
<1> HIDE DEF step
<1>13. CASE ~loop
  <2>1. z = y /\ step(at) = at + 1 /\ step(step(at)) = at + 2
    BY <1>7, <1>9, <1>13
  <2>2. QED
    BY <1>1, <1>5, <1>11, <2>1
<1>14. CASE loop /\ s.loopEnd > s.loopStart
  <2>1. \A k \in Nat : step(k) = IF k + 1 >= s.loopEnd THEN s.loopStart ELSE k + 1
    BY <1>1, <1>9, <1>10, <1>14
  <2>2. step(at) = (IF at + 1 >= s.loopEnd THEN s.loopStart ELSE at + 1) /\ step(at) \in Nat
    BY <1>1, <2>1
  <2>3. step(step(at)) = IF step(at) + 1 >= s.loopEnd THEN s.loopStart ELSE step(at) + 1
    BY <2>1, <2>2
  <2>4. CASE x.count = at /\ x.frame \in {at, at + 1}
    <3>1. CASE at + 1 >= s.loopEnd
      BY <1>1, <1>5, <1>7, <1>8, <1>14, <2>2, <2>4, <3>1
    <3>2. CASE ~(at + 1 >= s.loopEnd) /\ y.frame >= s.len
      BY <1>1, <1>5, <1>7, <1>8, <1>10, <1>14, <2>2, <2>3, <2>4, <3>2
    <3>3. CASE ~(at + 1 >= s.loopEnd) /\ ~(y.frame >= s.len)
      BY <1>1, <1>5, <1>7, <1>14, <2>2, <2>4, <3>3
    <3>4. QED
      BY <3>1, <3>2, <3>3
  <2>5. CASE x.frame = step(at) /\ x.count = x.frame
    <3>1. z = IF x.frame + 1 >= s.loopEnd THEN LoopStart(s) ELSE y
      BY <1>1, <1>5, <1>7, <1>10, <1>14, <2>5
    <3>2. QED
      BY <1>1, <1>5, <1>8, <2>3, <2>5, <3>1
  <2>6. QED
    BY <1>11, <2>4, <2>5
<1>15. CASE loop /\ ~(s.loopEnd > s.loopStart)
  <2>1. s.loopStart = 0 /\ d = s.len /\ s.duration > 0
    BY <1>1, <1>3, <1>10, <1>15
  <2>2. \A k \in Nat : step(k) = IF k + 1 >= s.len THEN 0 ELSE k + 1
    BY <1>9, <1>15, <2>1
  <2>3. step(at) = (IF at + 1 >= s.len THEN 0 ELSE at + 1) /\ step(at) \in Nat
    BY <1>1, <2>2
  <2>4. step(step(at)) = IF step(at) + 1 >= s.len THEN 0 ELSE step(at) + 1
    BY <2>2, <2>3
  <2>5. z = IF x.frame + 1 >= s.len THEN LoopStart(s) ELSE y
    BY <1>5, <1>7, <1>15
  <2>6. CASE x.count = at /\ x.frame \in {at, at + 1}
    BY <1>1, <1>5, <1>8, <2>1, <2>3, <2>4, <2>5, <2>6
  <2>7. CASE x.frame = step(at) /\ x.count = x.frame
    BY <1>1, <1>5, <1>8, <2>1, <2>4, <2>5, <2>7
  <2>8. QED
    BY <1>11, <2>6, <2>7
<1>16. QED
  BY <1>13, <1>14, <1>15

LEMMA StepIs ==
  ASSUME StreamTypes
  PROVE  /\ [at \in Nat |-> Step(at)] \in [Nat -> Nat]
         /\ \A at \in Nat : Step(at) = StepIn(source, mix.loop, at)
<1>1. /\ source.loopStart \in Nat /\ source.loopEnd \in Nat /\ mix.loop \in BOOLEAN
  BY SourceParts, MixParts
<1>2. \A at \in Nat : Step(at) \in Nat
  BY <1>1 DEF Step
<1>3. \A at \in Nat : Step(at) = StepIn(source, mix.loop, at)
  BY DEF Step, StepIn, LoopEnds, DurationEnds
<1>4. QED
  BY <1>2, <1>3

\* The position follows the frames that leave.
LEMMA PositionFollows ==
  ASSUME StreamTypes, Told, NEW q \in Seq(Places), Consecutive(source, mix.loop, q),
         NEW p \in Places, NEW n \in 0 .. Len(q), NEW from \in Nat,
         Near(source, mix.loop, from, AtHand(source, mix.loop, q, p))
  PROVE  Near(source, mix.loop, Iterated([at \in Nat |-> Step(at)], from, n),
              Ahead(source, mix.loop, AtHand(source, mix.loop, q, p), n))
<1> DEFINE f == AtHand(source, mix.loop, q, p)
           step == [at \in Nat |-> Step(at)]
           Good == {i \in Nat : i <= n => Near(source, mix.loop, Iterated(step, from, i),
                                               Ahead(source, mix.loop, f, i))}
<1>1. /\ IsSource(source) /\ source.duration \in Nat /\ mix.loop \in BOOLEAN
      /\ n \in Nat /\ n <= Len(q) /\ Len(q) \in Nat
      /\ mix.loop => IsTold(source)
  <2>1. mix.loop => IsTold(source)
    BY ToldIs
  <2>2. QED
    BY <2>1, SourceParts, MixParts
<1>2. f \in Places
  BY <1>1, AtHandType
<1>3. step \in [Nat -> Nat] /\ \A at \in Nat : step[at] = StepIn(source, mix.loop, at)
  BY StepIs
<1>4. ASSUME NEW i \in Nat, i < n PROVE Ahead(source, mix.loop, f, i).frame < source.len
  <2>1. i < Len(q) /\ i + 1 \in 1 .. Len(q)
    BY <1>1, <1>4
  <2>2. q[i + 1] = Ahead(source, mix.loop, f, i)
    BY <1>1, <2>1, BufferIsAhead
  <2>3. q[i + 1].frame < source.len
    BY <2>1 DEF Consecutive
  <2>4. QED
    BY <2>2, <2>3
<1>5. 0 \in Good
  <2>1. Near(source, mix.loop, from, f)
    OBVIOUS
  <2> HIDE DEF f, step
  <2>2. Iterated(step, from, 0) = from
    BY <1>3, IteratedNone
  <2>3. Ahead(source, mix.loop, f, 0) = f
    BY <1>1, <1>2, AheadSteps
  <2>4. QED
    BY <2>1, <2>2, <2>3
<1> HIDE DEF f, step
<1>6. ASSUME NEW i \in Nat, i \in Good PROVE i + 1 \in Good
  <2> SUFFICES ASSUME i + 1 <= n
               PROVE  Near(source, mix.loop, Iterated(step, from, i + 1),
                           Ahead(source, mix.loop, f, i + 1))
    OBVIOUS
  <2>1. i < n /\ i <= n
    BY <1>1
  <2>2. PICK k, x : k = Iterated(step, from, i) /\ x = Ahead(source, mix.loop, f, i)
    OBVIOUS
  <2>3. k \in Nat /\ x \in Places /\ x.frame < source.len /\ Near(source, mix.loop, k, x)
    <3>1. k \in Nat
      BY <1>3, <2>2, IteratedType
    <3>2. x \in Places
      BY <1>1, <1>2, <2>2, AheadSteps
    <3>3. QED
      BY <1>4, <1>6, <2>1, <2>2, <3>1, <3>2
  <2>4. Iterated(step, from, i + 1) = StepIn(source, mix.loop, k)
    <3>1. Iterated(step, from, i + 1) = step[Iterated(step, from, i)]
      BY <1>3, IteratedSteps
    <3>2. QED
      BY <1>3, <2>2, <2>3, <3>1
  <2>5. Ahead(source, mix.loop, f, i + 1) = Fold(source, mix.loop, Onward(x, 1))
    <3>1. Ahead(source, mix.loop, f, i + 1) = After(source, mix.loop, x)
      BY <1>1, <1>2, <2>2, AheadSteps
    <3>2. source.len \in Nat /\ x.frame \in Nat
      BY <1>1, <2>3, PlaceParts DEF IsSource
    <3>3. QED
      BY <2>3, <3>1, <3>2 DEF After
  <2>6. QED
    BY <1>1, <2>3, <2>4, <2>5, NearNext
<1> HIDE DEF Good
<1>7. \A i \in Nat : i \in Good
  BY <1>5, <1>6, Induction
<1>8. n \in Good
  BY <1>1, <1>7
<1>9. QED
  BY <1>1, <1>8 DEF Good, f, step

LEMMA ConsumedIs ==
  ASSUME StreamTypes, NEW m, Buffered(m)
  PROVE  Consumes(m, Consumed(m))
<1>1. /\ IsSource(source) /\ mix.loop \in BOOLEAN /\ Reads \in Places
  BY SourceParts, MixParts
<1>2. /\ m \in MixType /\ m.loop = mix.loop /\ m.samples \in Seq(Places) /\ m.phase \in Nat
      /\ m.position \in Nat /\ Len(m.samples) \in Nat
  BY DEF Buffered, MixType
<1>3. PICK q, f : q = m.samples /\ f = First(m)
  OBVIOUS
<1>4. /\ q \in Seq(Places) /\ Len(q) \in Nat /\ Consecutive(source, mix.loop, q)
      /\ Leads(source, mix.loop, q, Reads)
      /\ f = AtHand(source, mix.loop, q, Reads)
  BY <1>2, <1>3 DEF Buffered, First
<1>5. f \in Places
  BY <1>1, <1>4, AtHandType
<1>6. PICK n : n = Min({m.phase, Len(q)})
  OBVIOUS
<1>7. n \in 0 .. Len(q) /\ n \in Nat /\ m.phase - n \in Nat /\ (n = Len(q) \/ n = m.phase)
  <2>1. n = IF m.phase <= Len(q) THEN m.phase ELSE Len(q)
    <3>1. PICK k \in Int, l \in Int : k = m.phase /\ l = Len(q)
      BY <1>2, <1>4
    <3>2. n = Min({k, l})
      BY <1>6, <3>1
    <3>3. Min({k, l}) = IF k <= l THEN k ELSE l
      BY MinOfTwo
    <3>4. QED
      BY <3>1, <3>2, <3>3
  <2>2. CASE m.phase <= Len(q)
    <3>1. n = m.phase
      BY <2>1, <2>2
    <3>2. QED
      BY <1>2, <1>4, <2>2, <3>1
  <2>3. CASE ~(m.phase <= Len(q))
    <3>1. n = Len(q)
      BY <2>1, <2>3
    <3>2. QED
      BY <1>2, <1>4, <2>3, <3>1
  <2>4. QED
    BY <2>2, <2>3
<1>8. PICK r, at : r = SubSeq(q, n + 1, Len(q)) /\ at = Iterated([g \in Nat |-> Step(g)], m.position, n)
  OBVIOUS
<1>9. Consumed(m) = [m EXCEPT !.samples = r, !.phase = m.phase - n, !.position = at]
  BY <1>3, <1>6, <1>8 DEF Consumed
<1>10. /\ r \in Seq(Places) /\ Len(r) = Len(q) - n
       /\ Consecutive(source, mix.loop, r) /\ Leads(source, mix.loop, r, Reads)
       /\ AtHand(source, mix.loop, r, Reads) = Ahead(source, mix.loop, f, n)
  <2>1. Shortened(source, mix.loop, q, Reads, n, r)
    BY <1>1, <1>4, <1>7, <1>8, FramesLeave
  <2>2. QED
    BY <1>4, <2>1 DEF Shortened
<1>11. at \in Nat
  BY <1>2, <1>7, <1>8, StepIs, IteratedType
<1>12. PICK c : c = Consumed(m)
  OBVIOUS
<1>13. c \in MixType
  BY <1>2, <1>7, <1>9, <1>10, <1>11, <1>12 DEF MixType
<1>14. /\ c.samples = r /\ c.phase = m.phase - n /\ c.position = at /\ c.loop = mix.loop
       /\ c.playing = m.playing /\ c.eof = m.eof
  BY <1>2, <1>9, <1>12 DEF MixType
<1>15. Buffered(c) /\ First(c) = Ahead(source, mix.loop, f, n)
  BY <1>10, <1>13, <1>14 DEF Buffered, First
<1>16. Len(c.samples) > 0 => c.phase = 0
  BY <1>2, <1>4, <1>7, <1>10, <1>14
<1>17. Ahead(source, mix.loop, First(c), c.phase) = Ahead(source, mix.loop, f, m.phase)
  <2>1. n + (m.phase - n) = m.phase
    BY <1>2, <1>7
  <2>2. PICK k \in Nat : k = m.phase - n
    BY <1>7
  <2>3. Ahead(source, mix.loop, Ahead(source, mix.loop, f, n), k) = Ahead(source, mix.loop, f, n + k)
    BY <1>1, <1>5, <1>7, AheadAdds
  <2>4. QED
    BY <1>14, <1>15, <2>1, <2>2, <2>3
<1>18. ASSUME Followed(m) PROVE Followed(c)
  <2> SUFFICES ASSUME Told PROVE Near(source, mix.loop, at, First(c))
    BY <1>14 DEF Followed
  <2>1. PICK k \in Nat : k = m.position
    BY <1>2
  <2>2. Near(source, mix.loop, k, AtHand(source, mix.loop, q, Reads))
    BY <1>3, <1>4, <1>18, <2>1 DEF Followed
  <2>3. Near(source, mix.loop, at, Ahead(source, mix.loop, f, n))
    BY <1>1, <1>4, <1>7, <1>8, <2>1, <2>2, PositionFollows
  <2>4. QED
    BY <1>15, <2>3
<1>19. QED
  BY <1>3, <1>12, <1>14, <1>15, <1>16, <1>17, <1>18 DEF Consumes

LEMMA ReadyIs ==
  ASSUME StreamInv, mix.playing
  PROVE  /\ Buffered(mix) /\ Consumes(mix, Ready) /\ Ready \in MixType /\ Ready.loop = mix.loop
         /\ Ready.samples \in Seq(Places) /\ Len(Ready.samples) \in Nat
         /\ Ready.samples = <<>> <=> Len(Ready.samples) = 0
         /\ NextHeard = Ahead(source, mix.loop, First(Ready), Ready.phase)
         /\ NextHeard \in Places
         /\ Followed(Ready)
<1>1. /\ mix \in MixType /\ IsSource(source) /\ mix.loop \in BOOLEAN /\ mix.samples \in Seq(Places)
      /\ mix.phase \in Nat /\ Reads \in Places
  BY SourceParts, MixParts DEF StreamInv, StreamTypes
<1>2. Buffered(mix) /\ First(mix) = Comes /\ First(mix) \in Places
  BY <1>1, AtHandType DEF StreamInv, Samples, Produced, Buffered, First, Comes
<1>3. Consumes(mix, Ready)
  BY <1>2, ConsumedIs DEF Ready, StreamInv
<1>4. Ready \in MixType /\ Ready.loop = mix.loop /\ Ready.samples \in Seq(Places)
  BY <1>3 DEF Consumes, Buffered, MixType
<1>5. Len(Ready.samples) \in Nat /\ (Ready.samples = <<>> <=> Len(Ready.samples) = 0)
  BY <1>4, EmptySeq
<1>6. NextHeard = Ahead(source, mix.loop, First(mix), mix.phase)
  BY <1>2, NextHeardIs DEF StreamInv
<1>7. NextHeard \in Places
  BY <1>1, <1>2, <1>6, AheadSteps
<1>8. NextHeard = Ahead(source, mix.loop, First(Ready), Ready.phase)
  BY <1>3, <1>6 DEF Consumes
<1>9. Followed(Ready)
  <2>1. Followed(mix)
    BY <1>2 DEF StreamInv, Positioned, Followed
  <2>2. QED
    BY <1>3, <2>1 DEF Consumes
<1>10. QED
  BY <1>2, <1>3, <1>4, <1>5, <1>7, <1>8, <1>9

\* Frames leave the buffer, and the voice goes on or stops.
LEMMA BufferedKeeps ==
  ASSUME StreamInv, mix.playing, Buffered(mix'), mix'.eof = mix.eof,
         Followed(mix'),
         UNCHANGED <<source, voice, worker, decoderAt>>, finished' \in BOOLEAN,
         mix'.playing => ~finished'
  PROVE  StreamInv'
<1>1. /\ mix' \in MixType /\ mix'.loop = mix.loop
      /\ Consecutive(source, mix.loop, mix'.samples)
      /\ Leads(source, mix.loop, mix'.samples, Reads)
  BY DEF Buffered
<1>2. StreamTypes'
  BY <1>1 DEF StreamInv, StreamTypes
<1>3. NextRead' = NextRead /\ Reads' = Reads
  BY DEF NextRead, ReadFrom, Reads
<1>4. Samples' /\ (Told)' = Told /\ Comes' = First(mix')
  BY <1>1, <1>3, ToldIs DEF Samples, Comes, First
<1>5. Produced'
  BY <1>1, <1>3 DEF StreamInv, Produced
<1>6. Reading'
  BY DEF StreamInv, Reading
<1>7. Positioned'
  BY <1>1, <1>4 DEF Positioned, Followed
<1>8. QED
  BY <1>2, <1>4, <1>5, <1>6, <1>7 DEF StreamInv

\* The buffer of a record does not depend on whether its voice plays.
LEMMA SilencedIs ==
  ASSUME NEW m, Buffered(m), NEW b \in BOOLEAN, NEW c, c = [m EXCEPT !.playing = b]
  PROVE  /\ Buffered(c) /\ First(c) = First(m) /\ c.playing = b /\ c.eof = m.eof
         /\ c.position = m.position /\ c.loop = m.loop /\ c.phase = m.phase
<1>1. m \in MixType
  BY DEF Buffered
<1>2. c \in MixType
  BY <1>1 DEF MixType
<1>3. /\ c.samples = m.samples /\ c.playing = b /\ c.eof = m.eof /\ c.phase = m.phase
      /\ c.position = m.position /\ c.loop = m.loop
  BY <1>1 DEF MixType
<1>4. QED
  BY <1>2, <1>3 DEF Buffered, First

\* The callback takes what is pending, and mixes nothing.
LEMMA CallbackWaitsParts ==
  ASSUME StreamInv, CallbackWaits
  PROVE  StreamInv' /\ mix'.playing /\ mix.playing /\ mix'.loop = mix.loop /\ NextHeard' = NextHeard
<1>1. mix.playing /\ mix' = Ready /\ UNCHANGED <<source, voice, worker, decoderAt, finished>>
  BY DEF CallbackWaits, Mixing
<1>2. /\ Buffered(mix') /\ mix'.playing /\ mix'.eof = mix.eof /\ mix'.loop = mix.loop
      /\ Followed(mix')
      /\ NextHeard = Ahead(source, mix.loop, First(mix'), mix'.phase)
  BY <1>1, ReadyIs DEF Consumes
<1>3. finished \in BOOLEAN /\ ~finished
  BY <1>1 DEF StreamInv, StreamTypes, Produced
<1>4. StreamInv'
  BY <1>1, <1>2, <1>3, BufferedKeeps
<1>5. First(mix') = Comes'
  BY <1>1 DEF First, Comes, Reads, NextRead, ReadFrom
<1>6. NextHeard' = Ahead(source, mix.loop, First(mix'), mix'.phase)
  BY <1>1, <1>2, <1>4, <1>5, NextHeardThen DEF StreamInv
<1>7. QED
  BY <1>1, <1>2, <1>4, <1>6

\* A voice whose buffer is empty at the end of its file has been heard to the end.
LEMMA HeardToTheEnd ==
  ASSUME StreamInv, mix.playing, mix.eof, NEW m, Buffered(m), Len(m.samples) = 0,
         NEW n \in Nat
  PROVE  ~mix.loop /\ Ahead(source, mix.loop, First(m), n).frame >= source.len
<1>1. ~mix.loop /\ NextRead >= source.len
  BY DEF StreamInv, Produced
<1>2. IsSource(source) /\ mix.loop \in BOOLEAN
  BY SourceParts, MixParts DEF StreamInv
<1>3. PICK x \in Places : x = Reads
  BY MixParts DEF StreamInv
<1>4. x.frame >= source.len
  BY <1>1, <1>3 DEF Reads
<1>5. First(m) = x
  <2>1. First(m) = Fold(source, mix.loop, Reads)
    BY DEF First, AtHand, Buffered
  <2>2. QED
    BY <1>1, <1>3, <2>1 DEF Fold
<1>6. Ahead(source, mix.loop, x, n) = x
  BY <1>2, <1>4, AheadEnds
<1>7. QED
  BY <1>1, <1>4, <1>5, <1>6

LEMMA CallbackEndsParts ==
  ASSUME StreamInv, CallbackEnds
  PROVE  StreamInv' /\ mix.playing /\ ~mix'.playing /\ mix'.loop = mix.loop
         /\ ~mix.loop /\ NextHeard.frame >= source.len
<1>1. /\ mix.playing /\ mix' = [Ready EXCEPT !.playing = FALSE] /\ finished' = TRUE
      /\ Ready.samples = <<>> /\ Ready.eof /\ UNCHANGED <<source, voice, worker, decoderAt>>
  BY DEF CallbackEnds, Mixing, AtEnd
<1>2. /\ Buffered(Ready) /\ Ready.eof = mix.eof /\ Len(Ready.samples) = 0 /\ Ready.loop = mix.loop
      /\ Followed(Ready)
      /\ NextHeard = Ahead(source, mix.loop, First(Ready), Ready.phase)
      /\ Ready.phase \in Nat
  BY <1>1, ReadyIs DEF Consumes, MixType
<1>3. /\ Buffered(mix') /\ First(mix') = First(Ready) /\ ~mix'.playing /\ mix'.eof = mix.eof
      /\ mix'.loop = mix.loop /\ Followed(mix')
  <2>1. PICK b \in BOOLEAN : ~b /\ mix' = [Ready EXCEPT !.playing = b]
    BY <1>1
  <2>2. /\ Buffered(mix') /\ First(mix') = First(Ready) /\ mix'.playing = b
        /\ mix'.eof = Ready.eof /\ mix'.position = Ready.position /\ mix'.loop = Ready.loop
    BY <1>2, <2>1, SilencedIs
  <2>3. QED
    BY <1>2, <2>1, <2>2 DEF Followed
<1>4. StreamInv'
  BY <1>1, <1>2, <1>3, BufferedKeeps
<1>5. ~mix.loop /\ NextHeard.frame >= source.len
  BY <1>1, <1>2, HeardToTheEnd
<1>6. QED
  BY <1>1, <1>3, <1>4, <1>5

LEMMA CallbackFadesOutParts ==
  ASSUME StreamInv, CallbackFadesOut
  PROVE  StreamInv' /\ mix.playing /\ ~mix'.playing /\ mix'.loop = mix.loop
<1>1. /\ mix.playing /\ mix' = [Ready EXCEPT !.playing = FALSE]
      /\ UNCHANGED <<source, voice, worker, decoderAt, finished>>
  BY DEF CallbackFadesOut, Mixing
<1>2. /\ Buffered(Ready) /\ Ready.eof = mix.eof /\ Ready.loop = mix.loop
      /\ Followed(Ready)
  BY <1>1, ReadyIs DEF Consumes
<1>3. /\ Buffered(mix') /\ First(mix') = First(Ready) /\ ~mix'.playing /\ mix'.eof = mix.eof
      /\ mix'.loop = mix.loop /\ Followed(mix')
  <2>1. PICK b \in BOOLEAN : ~b /\ mix' = [Ready EXCEPT !.playing = b]
    BY <1>1
  <2>2. /\ Buffered(mix') /\ First(mix') = First(Ready) /\ mix'.playing = b
        /\ mix'.eof = Ready.eof /\ mix'.position = Ready.position /\ mix'.loop = Ready.loop
    BY <1>2, <2>1, SilencedIs
  <2>3. QED
    BY <1>2, <2>1, <2>2 DEF Followed
<1>4. finished \in BOOLEAN
  BY DEF StreamInv, StreamTypes
<1>5. StreamInv'
  BY <1>1, <1>2, <1>3, <1>4, BufferedKeeps
<1>6. QED
  BY <1>1, <1>3, <1>5

LEMMA CallbackMixesParts ==
  ASSUME StreamInv, CallbackMixes
  PROVE  /\ StreamInv' /\ mix.playing /\ mix'.loop = mix.loop
         /\ NextHeard.frame < source.len /\ heard' = NextHeard.frame
         /\ \/ mix'.playing /\ NextHeard' = Ahead(source, mix.loop, NextHeard, mix.pitch)
            \/ /\ ~mix'.playing /\ finished' /\ ~mix.loop
               /\ Ahead(source, mix.loop, NextHeard, mix.pitch).frame >= source.len
<1> DEFINE more == [Ready EXCEPT !.phase = @ + mix.pitch]
<1>1. PICK m : m = more
  OBVIOUS
<1>2. PICK c : c = Consumed(m)
  OBVIOUS
<1>3. PICK ends \in BOOLEAN : ends = (~mix.loop /\ c.eof /\ c.samples = <<>>)
  OBVIOUS
<1>4. /\ mix.playing /\ mix' = [c EXCEPT !.playing = ~ends] /\ finished' = ends
      /\ heard' = Head(Ready.samples).frame /\ UNCHANGED <<source, voice, worker, decoderAt>>
  BY <1>1, <1>2, <1>3 DEF CallbackMixes, Mixing
<1>5. Ready.samples # <<>>
  BY DEF CallbackMixes, Underrun, AtEnd
<1>6. /\ IsSource(source) /\ mix.loop \in BOOLEAN /\ mix.pitch \in Nat
  BY SourceParts, MixParts DEF StreamInv
<1>7. /\ Buffered(Ready) /\ Ready \in MixType /\ Ready.eof = mix.eof /\ Ready.loop = mix.loop
      /\ Ready.playing /\ Ready.samples \in Seq(Places) /\ Len(Ready.samples) > 0 /\ Ready.phase = 0
      /\ Followed(Ready)
      /\ NextHeard = Ahead(source, mix.loop, First(Ready), 0) /\ NextHeard \in Places
  <2>1. /\ Buffered(Ready) /\ Ready \in MixType /\ Ready.eof = mix.eof /\ Ready.loop = mix.loop
        /\ Ready.playing = mix.playing /\ Ready.samples \in Seq(Places)
        /\ Len(Ready.samples) > 0 => Ready.phase = 0
        /\ Followed(Ready)
    BY <1>4, ReadyIs DEF Consumes
  <2>2. Len(Ready.samples) > 0
    BY <1>4, <1>5, ReadyIs
  <2>3. NextHeard = Ahead(source, mix.loop, First(Ready), Ready.phase) /\ NextHeard \in Places
    BY <1>4, ReadyIs
  <2>4. Ready.playing
    BY <1>4, <2>1
  <2>5. Ready.phase = 0
    BY <2>1, <2>2
  <2>6. NextHeard = Ahead(source, mix.loop, First(Ready), 0)
    BY <2>3, <2>5
  <2>7. QED
    BY <2>1, <2>2, <2>3, <2>4, <2>5, <2>6
<1>8. First(Ready) = Ready.samples[1] /\ Head(Ready.samples) = Ready.samples[1]
  BY <1>7 DEF First, AtHand
<1>9. Ready.samples[1] \in Places /\ Ready.samples[1].frame < source.len
  <2>1. 1 \in 1 .. Len(Ready.samples)
    BY <1>7
  <2>2. QED
    BY <1>7, <2>1 DEF Buffered, Consecutive
<1>10. NextHeard = First(Ready) /\ heard' = NextHeard.frame /\ NextHeard.frame < source.len
  <2>1. Ahead(source, mix.loop, First(Ready), 0) = First(Ready)
    BY <1>6, <1>8, <1>9, AheadSteps
  <2>2. QED
    BY <1>4, <1>7, <1>8, <1>9, <2>1
<1>11. /\ Buffered(m) /\ First(m) = NextHeard /\ m.phase = mix.pitch /\ m.playing /\ m.eof = mix.eof
       /\ Followed(m)
  <2>1. m \in MixType
    BY <1>1, <1>6, <1>7 DEF MixType
  <2>2. /\ m.samples = Ready.samples /\ m.loop = Ready.loop /\ m.phase = mix.pitch
        /\ m.playing /\ m.eof = mix.eof /\ m.position = Ready.position
    BY <1>1, <1>6, <1>7 DEF MixType
  <2>3. QED
    BY <1>7, <1>10, <2>1, <2>2 DEF Buffered, First, Followed
<1>12. Consumes(m, c)
  BY <1>2, <1>11, ConsumedIs DEF StreamInv
<1>13. /\ Buffered(c) /\ c.eof = mix.eof /\ c.samples \in Seq(Places) /\ c.phase \in Nat
       /\ Ahead(source, mix.loop, First(c), c.phase) = Ahead(source, mix.loop, NextHeard, mix.pitch)
       /\ Followed(c)
  BY <1>7, <1>10, <1>11, <1>12 DEF Consumes, Buffered, MixType
<1>14. /\ Buffered(mix') /\ First(mix') = First(c) /\ mix'.playing = ~ends /\ mix'.eof = mix.eof
       /\ mix'.loop = mix.loop /\ mix'.phase = c.phase /\ Followed(mix')
  <2>1. PICK b \in BOOLEAN : b = ~ends
    OBVIOUS
  <2>2. mix' = [c EXCEPT !.playing = b]
    BY <1>4, <2>1
  <2>3. c.loop = mix.loop
    BY <1>13 DEF Buffered
  <2>4. /\ Buffered(mix') /\ First(mix') = First(c) /\ mix'.playing = b /\ mix'.eof = c.eof
        /\ mix'.position = c.position /\ mix'.loop = c.loop /\ mix'.phase = c.phase
    BY <1>13, <2>2, SilencedIs
  <2>5. QED
    BY <1>13, <2>1, <2>3, <2>4 DEF Followed
<1>15. StreamInv'
  BY <1>4, <1>13, <1>14, BufferedKeeps
<1>16. CASE ~ends
  <2>1. First(mix') = Comes'
    BY <1>4 DEF First, Comes, Reads, NextRead, ReadFrom
  <2>2. NextHeard' = Ahead(source, mix.loop, First(mix'), mix'.phase)
    BY <1>4, <1>14, <1>15, <1>16, <2>1, NextHeardThen DEF StreamInv
  <2>3. QED
    BY <1>4, <1>10, <1>13, <1>14, <1>15, <1>16, <2>2
<1>17. CASE ends
  <2>1. ~mix.loop /\ mix.eof /\ Len(c.samples) = 0
    BY <1>3, <1>13, <1>17
  <2>2. Ahead(source, mix.loop, First(c), c.phase).frame >= source.len
    BY <1>4, <1>13, <2>1, HeardToTheEnd
  <2>3. QED
    BY <1>4, <1>10, <1>13, <1>14, <1>15, <1>17, <2>1, <2>2
<1>18. QED
  BY <1>16, <1>17

----------------------------------------------------------------------------
(* The invariant.                                                          *)

LEMMA StreamNextKeeps == StreamInv /\ [Next]_vars => StreamInv'
<1> SUFFICES ASSUME StreamInv, [Next]_vars PROVE StreamInv'
  OBVIOUS
<1>1. CASE Game
  BY <1>1, PlayKeeps, StopKeeps, SettingKeeps DEF Game
<1>2. CASE Worker
  BY <1>2, ReclaimKeeps, StartFillKeeps, FillDroppedKeeps, FillAppendsKeeps, FillFailsKeeps DEF Worker
<1>3. CASE Callback
  BY <1>3, CallbackWaitsParts, CallbackEndsParts, CallbackFadesOutParts, CallbackMixesParts
     DEF Callback
<1>4. CASE UNCHANGED vars
  <2>1. UNCHANGED <<source, mix, voice, worker, decoderAt, finished>>
    BY <1>4 DEF vars
  <2>2. QED
    BY <2>1 
       DEF StreamInv, StreamTypes, Samples, Comes, Produced, Reading, NextRead, Reads, ReadFrom,
           Positioned, Told, LoopIsTold
<1>5. QED
  BY <1>1, <1>2, <1>3, <1>4 DEF Next

LEMMA StreamStaysSound == Spec => []StreamInv
BY StreamInitHolds, StreamNextKeeps, PTL DEF Spec

\* position() names the frame that is heard next, or the one before it.
THEOREM PositionStaysNext == Spec => []PositionIsNext
<1>1. StreamInv => PositionIsNext
  <2> SUFFICES ASSUME StreamInv, mix.samples # <<>>, Told
               PROVE  \/ Head(mix.samples).frame - mix.position \in {0, 1}
                      \/ Head(mix.samples).frame = Step(mix.position)
    BY DEF PositionIsNext, Told
  <2>1. mix.samples \in Seq(Places) /\ Len(mix.samples) > 0 /\ Head(mix.samples) = mix.samples[1]
    BY MixParts, EmptySeq DEF StreamInv
  <2>2. Near(source, mix.loop, mix.position, Comes) /\ Comes = Head(mix.samples)
    BY <2>1 DEF StreamInv, Positioned, Comes, AtHand
  <2>3. mix.position \in Nat /\ Step(mix.position) = StepIn(source, mix.loop, mix.position)
    BY MixParts, StepIs DEF StreamInv
  <2>4. QED
    BY <2>2, <2>3 DEF Near
<1>2. QED
  BY <1>1, StreamStaysSound, PTL

----------------------------------------------------------------------------
(* The refinement of Playback.                                             *)

\* The order of frames is the same in both.
LEMMA SameOrder ==
  ASSUME NEW s, NEW loop, NEW f, NEW n
  PROVE  /\ AsHeard!Fold(s, loop, f) = Fold(s, loop, f) /\ AsHeard!PlaceAt(n) = PlaceAt(n)
         /\ AsHeard!Ahead(s, loop, f, n) = Ahead(s, loop, f, n)
BY DEF AsHeard!Fold, AsHeard!HasLoopPoints, AsHeard!Ahead, AsHeard!Following, AsHeard!Iterated,
       AsHeard!LoopStart, AsHeard!Onward, AsHeard!PlaceAt, AsHeard!Truncated, AsHeard!Rounded,
       AsHeard!Places, Fold, HasLoopPoints, Ahead, Following, Iterated, LoopStart, Onward,
       PlaceAt, Truncated, Rounded, Places

\* What the device gets does not change.
Unheard ==
  /\ UNCHANGED <<source, heard, finished>>
  /\ mix'.playing = mix.playing /\ mix'.loop = mix.loop /\ NextHeard' = NextHeard

LEMMA UnheardStutters == Unheard => UNCHANGED AsHeard!vars
BY DEF Unheard, AsHeard!vars

\* A voice that is silenced is cut, and a silent one stays as it is.
LEMMA SilencedPlays ==
  ASSUME StreamInv, UNCHANGED <<source, heard, finished>>, ~mix'.playing, mix'.loop = mix.loop
  PROVE  [AsHeard!Next]_(AsHeard!vars)
<1>1. NextHeard' = SILENT /\ (~mix.playing => NextHeard = SILENT)
  BY DEF NextHeard
<1>2. mix.playing => ~finished
  BY DEF StreamInv, Produced
<1>3. CASE mix.playing
  <2>1. AsHeard!Cut
    BY <1>1, <1>2, <1>3 DEF AsHeard!Cut
  <2>2. QED
    BY <2>1 DEF AsHeard!Next
<1>4. CASE ~mix.playing
  BY <1>1, <1>4 DEF AsHeard!vars
<1>5. QED
  BY <1>3, <1>4

\* Steps of the game and the worker that leave what comes, and the phase, alone.
LEMMA SameComes ==
  ASSUME StreamInv, StreamInv', UNCHANGED <<source, heard, finished>>,
         mix'.playing => Comes' = Comes, mix'.phase = mix.phase, mix'.loop = mix.loop, mix'.playing => mix.playing
  PROVE  [AsHeard!Next]_(AsHeard!vars)
<1>1. CASE mix'.playing
  <2>1. NextHeard' = NextHeard
    BY <1>1, NextHeardIs, NextHeardThen DEF StreamInv
  <2>2. mix.playing = mix'.playing
    <3>1. mix.playing \in BOOLEAN /\ (mix.playing \in BOOLEAN)'
      BY DEF StreamInv, StreamTypes, MixType
    <3>2. QED
      BY <1>1, <3>1
  <2>3. QED
    BY <2>1, <2>2, UnheardStutters DEF Unheard
<1>2. CASE ~mix'.playing
  BY <1>2, SilencedPlays
<1>3. QED
  BY <1>1, <1>2

LEMMA PlayPlays ==
  ASSUME StreamInv, NEW loop \in BOOLEAN, NEW offset \in Offsets, Play(loop, offset)
  PROVE  AsHeard!Next
<1>1. PICK start \in 0 .. source.duration :
        /\ start \in Nat /\ mix'.samples = <<>> /\ mix'.phase = 0
        /\ mix'.loop = loop /\ mix'.playing
        /\ voice'.requestedSeek = start /\ voice'.producer = Truncated(start)
  BY PlayParts
<1>2. heard' = SILENT /\ UNCHANGED source
  BY DEF Play
<1>3. Comes' = Fold(source, loop, PlaceAt(start))
  BY <1>1, <1>2, PlayReads, NoSamples DEF Comes
<1>4. NextHeard' = Ahead(source, loop, Fold(source, loop, PlaceAt(start)), 0)
  <2>1. StreamTypes'
    BY PlayKeeps DEF StreamInv
  <2>2. QED
    BY <1>1, <1>2, <1>3, <2>1, NextHeardThen
<1>5. NextHeard' = Fold(source, loop, PlaceAt(start))
  <2>1. IsSource(source)
    BY SourceParts DEF StreamInv
  <2>2. PlaceAt(start) \in Places
    BY <1>1, TimeParts DEF PlaceAt, Places
  <2>3. Fold(source, loop, PlaceAt(start)) \in Places
    BY <2>1, <2>2, Folded
  <2>4. QED
    BY <1>4, <2>1, <2>3, AheadSteps
<1>6. AsHeard!Play(start, loop)
  BY <1>1, <1>2, <1>5, SameOrder DEF AsHeard!Play
<1>7. QED
  BY <1>1, <1>2, <1>6 DEF AsHeard!Next

LEMMA FillAppendsPlays == ASSUME StreamInv, FillAppends PROVE [AsHeard!Next]_(AsHeard!vars)
<1>1. mix \in MixType /\ UNCHANGED <<source, heard, finished>>
  BY DEF StreamInv, StreamTypes, FillAppends
<1>2. PICK r, e : mix' = [mix EXCEPT !.samples = r, !.eof = e]
  BY DEF FillAppends
<1>3. mix'.phase = mix.phase /\ mix'.loop = mix.loop /\ mix'.playing = mix.playing
  BY <1>1, <1>2 DEF MixType
<1>4. QED
  BY <1>1, <1>3, FillAppendsKeeps, SameComes

LEMMA WorkerPlays == ASSUME StreamInv, Worker PROVE [AsHeard!Next]_(AsHeard!vars)
<1>1. mix \in MixType
  BY DEF StreamInv, StreamTypes
<1>2. CASE Reclaim
  <2>1. mix' = [mix EXCEPT !.samples = <<>>] /\ ~mix.playing /\ UNCHANGED <<source, heard, finished>>
    BY <1>2 DEF Reclaim
  <2>2. ~mix'.playing /\ mix'.loop = mix.loop
    BY <1>1, <2>1 DEF MixType
  <2>3. QED
    BY <2>1, <2>2, SilencedPlays
<1>3. CASE StartFill
  <2>1. UNCHANGED <<source, mix, heard, finished>>
    BY <1>3 DEF StartFill
  <2>2. Comes' = Comes /\ StreamInv'
    BY <1>3, StartFillKeeps
  <2>3. QED
    BY <2>1, <2>2, SameComes
<1>4. CASE FillDropped
  <2>1. UNCHANGED <<source, mix, voice, heard, finished>>
    BY <1>4 DEF FillDropped
  <2>2. (mix.playing => Comes' = Comes) /\ StreamInv'
    BY <1>4, FillDroppedKeeps
  <2>3. QED
    BY <2>1, <2>2, SameComes
<1>5. CASE FillAppends
  BY <1>5, FillAppendsPlays
<1>6. CASE FillFails
  <2>1. /\ mix' = [mix EXCEPT !.playing = FALSE, !.eof = TRUE, !.samples = <<>>]
        /\ UNCHANGED <<source, heard, finished>>
    BY <1>6 DEF FillFails
  <2>2. ~mix'.playing /\ mix'.loop = mix.loop
    BY <1>1, <2>1 DEF MixType
  <2>3. QED
    BY <2>1, <2>2, SilencedPlays
<1>7. QED
  BY <1>2, <1>3, <1>4, <1>5, <1>6 DEF Worker

LEMMA GamePlays == ASSUME StreamInv, Game PROVE [AsHeard!Next]_(AsHeard!vars)
<1>1. CASE \E loop \in BOOLEAN, offset \in Offsets : Play(loop, offset)
  BY <1>1, PlayPlays
<1>2. CASE Stop
  <2>1. /\ mix' = [mix EXCEPT !.playing = FALSE, !.stopAfterFade = FALSE, !.samples = <<>>]
        /\ UNCHANGED <<source, heard, finished>>
    BY <1>2 DEF Stop
  <2>2. ~mix'.playing /\ mix'.loop = mix.loop
    BY <2>1 DEF StreamInv, StreamTypes, MixType
  <2>3. QED
    BY <2>1, <2>2, SilencedPlays
<1>3. CASE \/ \E stop, atOnce \in BOOLEAN : Fade(stop, atOnce)
           \/ SetSuspended
           \/ \E p \in Pitches : SetPitch(p)
  <2>1. /\ mix'.samples = mix.samples /\ mix'.loop = mix.loop /\ mix'.phase = mix.phase
        /\ mix'.playing => mix.playing
        /\ UNCHANGED <<source, voice, worker, decoderAt, heard, finished>>
    BY <1>3, SettingParts
  <2>2. Comes' = Comes
    BY <2>1 DEF Comes, Reads, NextRead, ReadFrom
  <2>3. StreamInv'
    BY <1>3, SettingKeeps
  <2>4. QED
    BY <2>1, <2>2, <2>3, SameComes
<1>4. QED
  BY <1>1, <1>2, <1>3 DEF Game

LEMMA CallbackPlays == ASSUME StreamInv, Callback PROVE [AsHeard!Next]_(AsHeard!vars)
<1>1. CASE CallbackWaits
  <2>1. UNCHANGED <<source, heard, finished>>
    BY <1>1 DEF CallbackWaits
  <2>2. /\ mix'.playing /\ mix.playing /\ mix'.loop = mix.loop /\ NextHeard' = NextHeard /\ StreamInv'
    BY <1>1, CallbackWaitsParts
  <2>3. mix'.playing = mix.playing
    <3>1. mix.playing \in BOOLEAN /\ (mix.playing \in BOOLEAN)'
      BY <2>2 DEF StreamInv, StreamTypes, MixType
    <3>2. QED
      BY <2>2, <3>1
  <2>4. QED
    BY <2>1, <2>2, <2>3, UnheardStutters DEF Unheard
<1>2. CASE CallbackEnds
  <2>1. UNCHANGED <<source, heard>> /\ finished' = TRUE
    BY <1>2 DEF CallbackEnds
  <2>2. mix.playing /\ ~mix'.playing /\ mix'.loop = mix.loop /\ ~mix.loop /\ NextHeard.frame >= source.len
    BY <1>2, CallbackEndsParts
  <2>3. NextHeard' = SILENT
    BY <2>2 DEF NextHeard
  <2>4. AsHeard!Finish
    BY <2>1, <2>2, <2>3 DEF AsHeard!Finish
  <2>5. QED
    BY <2>1, <2>4 DEF AsHeard!Next
<1>3. CASE CallbackFadesOut
  <2>1. UNCHANGED <<source, heard, finished>>
    BY <1>3 DEF CallbackFadesOut
  <2>2. QED
    BY <1>3, <2>1, CallbackFadesOutParts, SilencedPlays
<1>4. CASE CallbackMixes
  <2>1. UNCHANGED source
    BY <1>4 DEF CallbackMixes
  <2>2. /\ mix.playing /\ mix'.loop = mix.loop /\ NextHeard.frame < source.len /\ heard' = NextHeard.frame
        /\ \/ mix'.playing /\ NextHeard' = Ahead(source, mix.loop, NextHeard, mix.pitch)
           \/ /\ ~mix'.playing /\ finished' /\ ~mix.loop
              /\ Ahead(source, mix.loop, NextHeard, mix.pitch).frame >= source.len
    BY <1>4, CallbackMixesParts
  <2>3. ~mix'.playing => NextHeard' = SILENT
    BY DEF NextHeard
  <2>4. PICK p : p = mix.pitch
    OBVIOUS
  <2>5. p \in Pitches
    BY <2>4, MixParts DEF StreamInv
  <2>6. AsHeard!Hear(p)
    BY <2>2, <2>3, <2>4, SameOrder DEF AsHeard!Hear
  <2>7. QED
    BY <2>1, <2>5, <2>6 DEF AsHeard!Next
<1>5. QED
  BY <1>1, <1>2, <1>3, <1>4 DEF Callback

\* What play() starts is heard: the buffer that the worker fills and the callback
\* empties implements Playback.
THEOREM StreamPlays == Spec => Plays
<1>1. Init => AsHeard!Init
  <2> SUFFICES ASSUME Init PROVE AsHeard!Init
    OBVIOUS
  <2>1. ~mix.playing /\ ~mix.loop /\ mix.loop = FALSE /\ finished = FALSE /\ heard = SILENT
    BY DEF Init
  <2>2. NextHeard = SILENT
    BY <2>1 DEF NextHeard
  <2>3. QED
    BY <2>1, <2>2 DEF AsHeard!Init
<1>2. StreamInv /\ [Next]_vars => [AsHeard!Next]_(AsHeard!vars)
  <2> SUFFICES ASSUME StreamInv, [Next]_vars PROVE [AsHeard!Next]_(AsHeard!vars)
    OBVIOUS
  <2>1. CASE UNCHANGED vars
    BY <2>1 DEF vars, AsHeard!vars, NextHeard, NextRead, ReadFrom
  <2>2. QED
    BY <2>1, GamePlays, WorkerPlays, CallbackPlays DEF Next
<1>3. QED
  BY <1>1, <1>2, StreamStaysSound, PTL DEF Spec, Plays, AsHeard!Spec
===============================================================================
