----------------------------- MODULE ImageLoads -----------------------------
(***************************************************************************)
(* Images from the src of an element to the store that owns their pixels:  *)
(* js/pmjs-web/image-element.js, the asynchronous loads of                 *)
(* src/node_addon_resources.cpp and the references of ImageStore in        *)
(* src/resources.cpp.  Loads of one file share one job of the thread pool  *)
(* and each of its callers owns a reference; a job may run more than once, *)
(* because its prepared pages turn out invalid or a caller asks for CPU    *)
(* pixels when they are validated already.  Meanwhile elements change      *)
(* their src, code loads the same file synchronously, frames hold images   *)
(* in flight and the store drops what nobody uses.                         *)
(***************************************************************************)
EXTENDS Naturals, FiniteSets, FiniteSetsExt

CONSTANTS Elements,       \* img elements
          Files, Blobs,   \* sources: files of the game, and object URLs
          Slots,          \* image slots of the store
          None,           \* no source, no slot, no job
          Fallback,       \* the checkerboard shown for an image that failed
          MaxLoads        \* bound on the src assignments of all elements

Requests == Elements \X (1 .. MaxLoads)

\* A slot of the store, and a job of the thread pool.
Image == [file : Files \cup {None}, references : Nat, inFlight : 0 .. 1,
          prepared : BOOLEAN, pixels : BOOLEAN, retainCpu : BOOLEAN]
Job == [at : {"queued", "executed"}, prepared : BOOLEAN, prepareCpu : BOOLEAN, retainCpu : BOOLEAN,
        cpu : BOOLEAN, decoded : BOOLEAN, callers : SUBSET Requests]

ASSUME ImagesOK ==
  /\ MaxLoads \in Nat /\ IsFiniteSet(Elements) /\ IsFiniteSet(Slots)
  /\ Files \cap Blobs = {} /\ None \notin Files \cup Blobs \cup Slots /\ Fallback \notin Slots \cup {None}
  /\ None \notin Image /\ None \notin Job

VARIABLES slots,      \* slots_: [Slots -> slot or None]
          pathCache,  \* pathCache_: [Files -> slot or None]
          jobs,       \* pendingImageLoads: [Files -> job or None]
          elements,   \* per element: _loadGeneration and _nativeImage
          requests,   \* the load that each src assignment began
          held        \* the slot a synchronous loader holds, or None

imageVars == <<slots, pathCache, jobs, elements, requests, held>>

Ended == [at |-> "over"]
Live(s) == slots[s] # None
current(r) == elements[r[1]].generation = r[2]

ImagesInit == /\ slots = [s \in Slots |-> None] /\ pathCache = [f \in Files |-> None]
              /\ jobs = [f \in Files |-> None] /\ held = None
              /\ elements = [e \in Elements |-> [generation |-> 0, shows |-> None]]
              /\ requests = [r \in Requests |-> Ended]

----------------------------------------------------------------------------
(* ImageStore.  The operators take the slots they change.                  *)

\* A slot nobody can find by its file dies with its last use.
Settled(slot) == IF slot.file = None /\ slot.references = 0 /\ slot.inFlight = 0 THEN None ELSE slot

release(sl, s) ==
  IF s \in Slots THEN [sl EXCEPT ![s] = Settled([sl[s] EXCEPT !.references = @ - 1])] ELSE sl

retain(sl, s, n) == [sl EXCEPT ![s].references = @ + n]

WithPixels(sl, s) == [sl EXCEPT ![s].retainCpu = TRUE, ![s].pixels = TRUE]

\* The pixels of an image that has none are read back, which may fail; its
\* callers do not ask whether it did.
retainCpuPixels(sl, s) == {WithPixels(sl, s)} \cup (IF sl[s].pixels THEN {} ELSE {sl})

NewSlot(file, prepared, pixels, retainCpu) ==
  [file |-> file, references |-> 1, inFlight |-> 0, prepared |-> prepared, pixels |-> pixels,
   retainCpu |-> retainCpu]

\* What an installation may come to: a slot that another load installed
\* meanwhile, a new one, or, when a page or a slot cannot be had, none.
\* cpu: the job brings the pixels of a prepared image.
Found(f, cpu, retainCpu) ==
  LET s == pathCache[f]
      sl == retain(slots, s, 1)
      kept == IF ~retainCpu THEN {sl}
              ELSE IF cpu /\ slots[s].prepared THEN {WithPixels(sl, s)} ELSE retainCpuPixels(sl, s)
  IN {[slot |-> s, cache |-> pathCache, slots |-> k] : k \in kept}
Failed == [slot |-> None, cache |-> pathCache, slots |-> slots]
Created(f, new) ==
  {[slot |-> s, slots |-> [slots EXCEPT ![s] = new],
    cache |-> IF f \in Files THEN [pathCache EXCEPT ![f] = s] ELSE pathCache] :
      s \in {t \in Slots : ~Live(t)}}

\* installPreparedLoad() and installDecoded().
Installations(f, prepared, cpu, retainCpu) ==
  IF pathCache[f] # None THEN Found(f, prepared /\ cpu, retainCpu)
  ELSE {Failed} \cup Created(f, NewSlot(f, prepared, IF prepared THEN cpu ELSE retainCpu, retainCpu))

----------------------------------------------------------------------------
(* The element.                                                            *)

\* src = ...: the generation moves on; no source shows nothing at once.
SetSource(e, from) ==
  LET g == elements[e].generation + 1 IN
  /\ MapThenSumSet(LAMBDA x : elements[x].generation, Elements) < MaxLoads
  /\ IF from = None
     THEN /\ elements' = [elements EXCEPT ![e] = [generation |-> g, shows |-> None]]
          /\ slots' = release(slots, elements[e].shows)
          /\ UNCHANGED requests
     ELSE /\ elements' = [elements EXCEPT ![e].generation = g]
          /\ requests' = [requests EXCEPT ![<<e, g>>] = [at |-> "task", source |-> from]]
          /\ UNCHANGED slots
  /\ UNCHANGED <<pathCache, jobs, held>>

Arriving(from, s) == [at |-> "arriving", source |-> from, image |-> s]
Waiting(f, retainCpu) == [at |-> "waiting", source |-> f, retainCpu |-> retainCpu]

\* The task of the assignment finds a newer one.
Superseded(r) == /\ requests[r].at = "task" /\ ~current(r)
                 /\ requests' = [requests EXCEPT ![r] = Ended]
                 /\ UNCHANGED <<slots, pathCache, jobs, elements, held>>

\* An object URL: its bytes are awaited, checked for a newer src, and decoded.
StartBytes(r) == /\ requests[r].at = "task" /\ current(r) /\ requests[r].source \in Blobs
                 /\ requests' = [requests EXCEPT ![r].at = "buffer"]
                 /\ UNCHANGED <<slots, pathCache, jobs, elements, held>>

BytesRead(r) == /\ requests[r].at = "buffer"
                /\ requests' = [requests EXCEPT ![r] = IF current(r) THEN [@ EXCEPT !.at = "bytes"]
                                                       ELSE Arriving(@.source, None)]
                /\ UNCHANGED <<slots, pathCache, jobs, elements, held>>

\* executeImageMemoryLoad() and completeImageMemoryLoad().
BytesDecoded(r) ==
  /\ requests[r].at = "bytes"
  /\ \E i \in {Failed} \cup Created(None, NewSlot(None, FALSE, TRUE, TRUE)) :
       /\ slots' = i.slots
       /\ requests' = [requests EXCEPT ![r] = Arriving(@.source, i.slot)]
  /\ UNCHANGED <<pathCache, jobs, elements, held>>

----------------------------------------------------------------------------
(* queueImageLoad().                                                       *)

\* A cached image will do, unless CPU pixels have to be read back from pages.
Serves(s, retainCpu) == ~retainCpu \/ ~slots[s].prepared \/ slots[s].pixels

Starts(r, f) == requests[r].at = "task" /\ current(r) /\ requests[r].source = f

LoadCached(r, f, retainCpu) ==
  LET s == pathCache[f] IN
  /\ Starts(r, f) /\ s # None /\ Serves(s, retainCpu)
  /\ \E i \in Found(f, FALSE, retainCpu) : slots' = i.slots
  /\ requests' = [requests EXCEPT ![r] = Arriving(f, s)]
  /\ UNCHANGED <<pathCache, jobs, elements, held>>

Misses(f, retainCpu) == IF pathCache[f] = None THEN TRUE ELSE ~Serves(pathCache[f], retainCpu)

LoadCoalesced(r, f, retainCpu) ==
  /\ Starts(r, f) /\ Misses(f, retainCpu) /\ jobs[f] # None
  /\ jobs' = [jobs EXCEPT ![f].retainCpu = @ \/ retainCpu, ![f].callers = @ \cup {r}]
  /\ requests' = [requests EXCEPT ![r] = Waiting(f, retainCpu)]
  /\ UNCHANGED <<slots, pathCache, elements, held>>

\* A new job, with prepared pages if the file has any that still match it.
LoadQueued(r, f, retainCpu) ==
  /\ Starts(r, f) /\ Misses(f, retainCpu) /\ jobs[f] = None
  /\ \E prepared \in BOOLEAN :
       jobs' = [jobs EXCEPT ![f] =
         [at |-> "queued", prepared |-> prepared, prepareCpu |-> retainCpu, retainCpu |-> retainCpu,
          cpu |-> FALSE, decoded |-> FALSE, callers |-> {r}]]
  /\ requests' = [requests EXCEPT ![r] = Waiting(f, retainCpu)]
  /\ UNCHANGED <<slots, pathCache, elements, held>>

\* The file cannot be opened or the work not queued: the promise is rejected.
LoadRefused(r, f) ==
  /\ Starts(r, f)
  /\ requests' = [requests EXCEPT ![r] = Arriving(f, None)]
  /\ UNCHANGED <<slots, pathCache, jobs, elements, held>>

----------------------------------------------------------------------------
\* executeImageLoad(), on a thread of the pool: it sees prepareCpu as it was
\* when the work was queued, and touches nothing but its own job.
executeImageLoad(f) ==
  /\ jobs[f] # None /\ jobs[f].at = "queued"
  /\ \/ /\ jobs[f].prepared      \* validatePrepared()
        /\ jobs' = [jobs EXCEPT ![f].at = "executed", ![f].cpu = jobs[f].prepareCpu]
     \/ \E decoded \in BOOLEAN : \* invalid pages, or none: decodeFile()
          jobs' = [jobs EXCEPT ![f].at = "executed", ![f].prepared = FALSE, ![f].decoded = decoded]
  /\ UNCHANGED <<slots, pathCache, elements, requests, held>>

\* Mutant of Callers: only one of them.
FirstCallers(j) == {CHOOSE r \in j.callers : TRUE}

\* The callers that the end of a job answers.
Callers(j) == j.callers

Answered(f, s) ==
  [r \in Requests |-> IF r \in Callers(jobs[f]) THEN Arriving(f, s) ELSE requests[r]]

Ends(f, s) == /\ jobs' = [jobs EXCEPT ![f] = None]
              /\ requests' = Answered(f, s)

Rejects(f) == Ends(f, None) /\ UNCHANGED <<slots, pathCache>>

Requeues(f, job) == /\ jobs' = [jobs EXCEPT ![f] = job]
                    /\ UNCHANGED <<slots, pathCache, requests>>

\* Mutant of WantsPixels: the pixels are left to whoever reads them.
WantsNothing(j) == FALSE

\* A caller asked for CPU pixels after the pages were validated without them.
WantsPixels(j) == j.prepared /\ j.retainCpu /\ ~j.prepareCpu

completeImageLoad(f) ==
  LET j == jobs[f] IN
  /\ j # None /\ j.at = "executed"
  /\ IF WantsPixels(j)
     THEN Rejects(f) \/ Requeues(f, [j EXCEPT !.at = "queued", !.prepareCpu = TRUE])
     ELSE IF ~j.prepared /\ ~j.decoded
     THEN Rejects(f)
     ELSE \E i \in Installations(f, j.prepared, j.cpu, j.retainCpu) :
            IF i.slot # None
            THEN /\ slots' = retain(i.slots, i.slot, Cardinality(j.callers) - 1)
                 /\ pathCache' = i.cache
                 /\ Ends(f, i.slot)
            ELSE \/ Rejects(f)
                 \/ j.prepared /\ Requeues(f, [j EXCEPT !.at = "queued", !.prepared = FALSE])
  /\ UNCHANGED <<elements, held>>

----------------------------------------------------------------------------
\* Mutant of Arrives: an image that comes too late is forgotten.
ArrivesForgotten(r) ==
  LET q == requests[r]
      e == r[1]
  IN /\ q.at = "arriving"
     /\ IF current(r)
        THEN /\ slots' = release(slots, elements[e].shows)
             /\ elements' = [elements EXCEPT ![e].shows =
                               IF q.image = None /\ q.source \in Files THEN Fallback ELSE q.image]
        ELSE UNCHANGED <<slots, elements>>
     /\ requests' = [requests EXCEPT ![r] = Ended]
     /\ UNCHANGED <<pathCache, jobs, held>>

\* The task of deliver(): the image replaces the one shown, or is discarded.
Arrives(r) ==
  LET q == requests[r]
      e == r[1]
  IN /\ q.at = "arriving"
     /\ IF current(r)
        THEN /\ slots' = release(slots, elements[e].shows)
             /\ elements' = [elements EXCEPT ![e].shows =
                               IF q.image = None /\ q.source \in Files THEN Fallback ELSE q.image]
        ELSE slots' = release(slots, q.image) /\ UNCHANGED elements
     /\ requests' = [requests EXCEPT ![r] = Ended]
     /\ UNCHANGED <<pathCache, jobs, held>>

----------------------------------------------------------------------------
(* The rest of the store's users.                                          *)

\* loadPng(): the same file, synchronously.
loadPng(f, retainCpu) ==
  /\ held = None
  /\ \E prepared \in BOOLEAN :
       \E i \in Installations(f, prepared, retainCpu, retainCpu) :
         /\ i.slot # None
         /\ slots' = i.slots /\ pathCache' = i.cache /\ held' = i.slot
  /\ UNCHANGED <<jobs, elements, requests>>

ReleaseHeld == /\ held # None
               /\ slots' = release(slots, held) /\ held' = None
               /\ UNCHANGED <<pathCache, jobs, elements, requests>>

\* A command of the frame uses an image, and lets go of it when it is drawn.
beginUse(s) == /\ s = held \/ \E e \in Elements : elements[e].shows = s
               /\ slots[s].inFlight = 0
               /\ slots' = [slots EXCEPT ![s].inFlight = 1]
               /\ UNCHANGED <<pathCache, jobs, elements, requests, held>>

endUse(s) == /\ Live(s) /\ slots[s].inFlight > 0
             /\ slots' = [slots EXCEPT ![s] = Settled([slots[s] EXCEPT !.inFlight = @ - 1])]
             /\ UNCHANGED <<pathCache, jobs, elements, requests, held>>

\* update(), once a frame: CPU copies that can be made again go when they
\* have been idle long enough, images without a user when the budget asks.
MayDropPixels(s) == Live(s) /\ slots[s].pixels /\ (~slots[s].retainCpu \/ slots[s].prepared)

Warm(s) == Live(s) /\ slots[s].references = 0 /\ slots[s].inFlight = 0 /\ slots[s].file # None

update ==
  \E evicted \in SUBSET {s \in Slots : Warm(s)}, idle \in SUBSET {s \in Slots : MayDropPixels(s)} :
    /\ slots' = [s \in Slots |-> IF s \in evicted THEN None
                                 ELSE IF s \in idle THEN [slots[s] EXCEPT !.pixels = FALSE]
                                 ELSE slots[s]]
    /\ pathCache' = [f \in Files |-> IF pathCache[f] \in evicted THEN None ELSE pathCache[f]]
    /\ UNCHANGED <<jobs, elements, requests, held>>

----------------------------------------------------------------------------
Start(r) == \/ Superseded(r) \/ StartBytes(r)
            \/ \E f \in Files : \/ LoadRefused(r, f)
                                \/ \E retainCpu \in BOOLEAN : \/ LoadCached(r, f, retainCpu)
                                                              \/ LoadCoalesced(r, f, retainCpu)
                                                              \/ LoadQueued(r, f, retainCpu)

Proceeds(r) == Start(r) \/ BytesRead(r) \/ BytesDecoded(r) \/ Arrives(r)
Works(f) == executeImageLoad(f) \/ completeImageLoad(f)

ImagesNext == \/ \E e \in Elements, from \in Files \cup Blobs \cup {None} : SetSource(e, from)
              \/ \E r \in Requests : Proceeds(r)
              \/ \E f \in Files : Works(f)
              \/ \E f \in Files, retainCpu \in BOOLEAN : loadPng(f, retainCpu)
              \/ ReleaseHeld \/ update
              \/ \E s \in Slots : beginUse(s) \/ endUse(s)

\* Tasks are run (TaskScheduler), queued work is executed and completed by
\* the pool and the loop of Node.
ImagesFairness == (\A r \in Requests : WF_imageVars(Proceeds(r))) /\ (\A f \in Files : WF_imageVars(Works(f)))

ImagesSpec == ImagesInit /\ [][ImagesNext]_imageVars /\ ImagesFairness

----------------------------------------------------------------------------
(* Properties.                                                             *)

\* Who owns a reference of a slot: the elements that show it, the results on
\* their way, and the synchronous loader.
Showing(s) == {e \in Elements : elements[e].shows = s}
Bringing(s) == {r \in Requests : requests[r].at = "arriving" /\ requests[r].image = s}
Owners(s) == Cardinality(Showing(s)) + Cardinality(Bringing(s)) + (IF held = s THEN 1 ELSE 0)

\* Every reference of a slot has its owner, and every owner's slot is alive
\* and holds the file it asked for: no job, eviction or late result leaks a
\* reference or drops another's (node_addon_resources.cpp:237-290,
\* resources.cpp:2115-2205, image-element.js:87-117).
ReferencesAreOwned ==
  /\ \A s \in Slots : IF Live(s) THEN slots[s].references = Owners(s) ELSE Owners(s) = 0
  /\ \A r \in Requests : requests[r].at = "arriving" /\ requests[r].image # None =>
       slots[requests[r].image].file = IF requests[r].source \in Files THEN requests[r].source ELSE None
  /\ \A f \in Files, s \in Slots : pathCache[f] = s <=> Live(s) /\ slots[s].file = f

\* A caller that asked for CPU pixels and gets an image gets one that has
\* them, though the job it joined began without; but for an image that was in
\* the store without them and whose texture has to be read back, unless it is
\* a prepared one and the job brings its pixels (node_addon_resources.cpp:
\* 249-262, resources.cpp:2487-2495).
PixelsComeWithTheImage ==
  [][\A r \in Requests :
       LET q == requests[r]
           s == requests'[r].image
       IN q.at = "waiting" /\ q.retainCpu /\ requests'[r].at = "arriving" /\ s # None
            => \/ slots'[s].pixels
               \/ Live(s) /\ ~slots[s].pixels /\ ~(slots[s].prepared /\ jobs[q.source].prepared)]_imageVars

\* Every src assignment comes to an end: its image arrives, or its failure.
LoadsArrive == \A r \in Requests : requests[r].at # "over" ~> requests[r].at = "over"
=============================================================================
