--------------------------- MODULE WebStorageProofs ---------------------------
(***************************************************************************)
(* A theorem about WebStorage, for any keys, values and number of cuts:    *)
(* one cut revives nothing.  The invariant says what the two files of each *)
(* key hold between the steps of a call, and that before the first cut no  *)
(* key has both, unless its call is just about to remove the older one.    *)
(***************************************************************************)
EXTENDS WebStorage, TLAPS

Stored == Values \cup {Nothing}

TypeInv ==
  /\ current \in [Keys -> Stored] /\ legacy \in [Keys -> Stored]
  /\ asked \in [Keys -> [before : Stored, to : Stored]]
  /\ done \subseteq Keys /\ cuts \in Nat
  /\ \A k \in Keys : legacy[k] # Nothing => k \in LegacyKeys

IsCall ==
  \/ /\ call = [at |-> call.at, on |-> call.on]
     /\ call.at \in {"write", "current", "legacy"}
  \/ /\ call = [at |-> call.at, on |-> call.on, left |-> call.left]
     /\ call.at \in {"clearLegacy", "clearCurrent"} /\ call.on = Keys /\ call.left \subseteq Keys

CallInv == call = Idle \/ (IsCall /\ call.on \subseteq Keys /\ call.on \cap done = {})

Busy == IF call = Idle THEN {} ELSE call.on

\* What the files of a key hold when its call has come to each step.
Halfway(k) ==
  /\ call.at = "write" => asked[k].to # Nothing
  /\ call.at = "current" => asked[k].to = Nothing
  /\ call.at = "legacy" => current[k] = asked[k].to
  /\ call.at \in {"clearLegacy", "clearCurrent"} => asked[k].to = Nothing
  /\ call.at = "clearLegacy" /\ legacy[k] # Nothing => k \in call.left
  /\ call.at = "clearCurrent" => legacy[k] = Nothing /\ (current[k] # Nothing => k \in call.left)

OneOf(k) == readWebStorage(k) \in {asked[k].before, asked[k].to}

\* What a key that no call is working on holds.
Settled(k) == /\ OneOf(k)
              /\ k \in done => readWebStorage(k) = asked[k].to

KeysInv ==
  cuts < 2 => \A k \in Keys : IF k \in Busy THEN Halfway(k) ELSE Settled(k)

BeforeCuts ==
  cuts = 0 => \A k \in Keys :
    /\ OneOf(k)
    /\ current[k] = Nothing \/ legacy[k] = Nothing \/ (k \in Busy /\ call.at = "legacy")

IInv == TypeInv /\ CallInv /\ KeysInv /\ BeforeCuts

----------------------------------------------------------------------------
\* Before a call the value of every key is among those asked for.
LEMMA AskingKeeps ==
  ASSUME IInv, NEW ks \in SUBSET Keys, NEW v \in Stored, Asks(ks, v),
         UNCHANGED <<current, legacy, cuts>>, CallInv', call' # Idle, call'.on = ks,
         call'.at # "legacy", \A k \in ks : Halfway(k)'
  PROVE  IInv'
<1>1. /\ call = Idle /\ done' = done \ ks
      /\ asked' = [k \in Keys |-> IF k \in ks THEN [before |-> readWebStorage(k), to |-> v]
                                  ELSE asked[k]]
  BY DEF Asks
<1>2. \A k \in Keys : readWebStorage(k)' = readWebStorage(k) /\ readWebStorage(k) \in Stored
  BY DEF readWebStorage, IInv, TypeInv
<1>3. TypeInv'
  BY <1>1, <1>2 DEF IInv, TypeInv
<1>4. Busy = {} /\ Busy' = ks
  BY <1>1 DEF Busy
<1>5. \A k \in ks : asked'[k].before = readWebStorage(k)
  BY <1>1
<1>6. \A k \in Keys \ ks : asked'[k] = asked[k] /\ (k \in done' <=> k \in done)
  BY <1>1
<1>7. KeysInv'
  <2> SUFFICES ASSUME cuts < 2, NEW k \in Keys \ ks PROVE Settled(k)'
    BY <1>4 DEF KeysInv
  <2>1. Settled(k)
    BY <1>4 DEF IInv, KeysInv
  <2> QED
    BY <1>2, <1>6, <2>1 DEF Settled, OneOf
<1>8. BeforeCuts'
  <2> SUFFICES ASSUME cuts = 0, NEW k \in Keys
               PROVE  OneOf(k)' /\ (current[k] = Nothing \/ legacy[k] = Nothing)
    BY DEF BeforeCuts
  <2>1. OneOf(k) /\ (current[k] = Nothing \/ legacy[k] = Nothing)
    BY <1>4 DEF IInv, BeforeCuts
  <2>2. OneOf(k)'
    BY <1>2, <1>5, <1>6, <2>1 DEF OneOf
  <2> QED
    BY <2>1, <2>2
<1> QED
  BY <1>3, <1>7, <1>8 DEF IInv

\* A step inside a call touches the files of its keys alone.
LEMMA GoingOnKeeps ==
  ASSUME IInv, call # Idle, UNCHANGED <<asked, done, cuts>>, CallInv', call' # Idle,
         call'.on = call.on, TypeInv',
         \A k \in Keys \ call.on : current'[k] = current[k] /\ legacy'[k] = legacy[k],
         cuts < 2 => \A k \in call.on : Halfway(k)',
         cuts = 0 => \A k \in call.on :
           /\ OneOf(k)'
           /\ current'[k] = Nothing \/ legacy'[k] = Nothing \/ call'.at = "legacy"
  PROVE  IInv'
<1>1. Busy = call.on /\ Busy' = call.on
  BY DEF Busy
<1>2. \A k \in Keys \ call.on : /\ Settled(k) => Settled(k)'
                                /\ OneOf(k) => OneOf(k)'
  BY DEF Settled, OneOf, readWebStorage
<1>3. KeysInv'
  BY <1>1, <1>2 DEF IInv, KeysInv
<1>4. BeforeCuts'
  BY <1>1, <1>2 DEF IInv, BeforeCuts
<1> QED
  BY <1>3, <1>4 DEF IInv

\* A call returns when its keys hold what it asked for, in one file at most.
LEMMA ReturningKeeps ==
  ASSUME IInv, call # Idle, UNCHANGED <<asked, cuts>>, Returns, TypeInv',
         \A k \in Keys \ call.on : current'[k] = current[k] /\ legacy'[k] = legacy[k],
         cuts < 2 => \A k \in call.on : current'[k] = asked[k].to /\ legacy'[k] = Nothing
  PROVE  IInv'
<1>1. call' = Idle /\ done' = done \cup call.on /\ Busy = call.on /\ Busy' = {}
  BY DEF Returns, Busy
<1>2. ASSUME NEW k \in Keys \ call.on
      PROVE  (Settled(k) => Settled(k)') /\ (OneOf(k) => OneOf(k)')
  BY <1>1 DEF Settled, OneOf, readWebStorage
<1>3. cuts < 2 => \A k \in call.on : readWebStorage(k)' = asked'[k].to
  BY DEF readWebStorage
<1>4. KeysInv'
  BY <1>1, <1>2, <1>3 DEF IInv, KeysInv, Settled, OneOf
<1>5. BeforeCuts'
  BY <1>1, <1>2, <1>3 DEF IInv, BeforeCuts, OneOf
<1> QED
  BY <1>1, <1>4, <1>5 DEF IInv, CallInv

\* A call begins with its key as it is.
LEMMA SetItemKeeps == ASSUME IInv, NEW k \in Keys, NEW v \in Values, SetItem(k, v) PROVE IInv'
<1>1. call' = [at |-> "write", on |-> {k}] /\ done' = done \ {k}
  BY DEF SetItem, Asks
<1>2. asked'[k].to = v /\ v # Nothing
  BY KeysOK DEF SetItem, Asks
<1>3. CallInv' /\ call' # Idle
  BY <1>1 DEF CallInv, IsCall, Idle
<1>4. Halfway(k)'
  BY <1>1, <1>2 DEF Halfway
<1> QED
  BY <1>1, <1>3, <1>4, AskingKeeps DEF SetItem, Stored

\* So does a removal.
LEMMA RemoveItemKeeps == ASSUME IInv, NEW k \in Keys, RemoveItem(k) PROVE IInv'
<1>1. call' = [at |-> "current", on |-> {k}] /\ done' = done \ {k}
  BY DEF RemoveItem, Asks
<1>2. asked'[k].to = Nothing
  BY DEF RemoveItem, Asks
<1>3. CallInv' /\ call' # Idle
  BY <1>1 DEF CallInv, IsCall, Idle
<1>4. Halfway(k)'
  BY <1>1, <1>2 DEF Halfway
<1> QED
  BY <1>1, <1>3, <1>4, AskingKeeps DEF RemoveItem, Stored

\* A clear begins with every legacy file left to remove.
LEMMA ClearKeeps == ASSUME IInv, Clear PROVE IInv'
<1>1. call' = [at |-> "clearLegacy", on |-> Keys, left |-> Present(legacy)] /\ done' = done \ Keys
  BY DEF Clear, Asks
<1>2. \A k \in Keys : asked'[k].to = Nothing
  BY DEF Clear, Asks
<1>3. CallInv' /\ call' # Idle
  BY <1>1 DEF CallInv, IsCall, Idle, Present
<1>4. Asks(Keys, Nothing) /\ UNCHANGED <<current, legacy, cuts>>
  BY DEF Clear
<1>5. call'.on = Keys /\ call'.at = "clearLegacy" /\ call'.left = Present(legacy)
  BY <1>1
<1>6. \A k \in Keys : Halfway(k)'
  BY <1>2, <1>4, <1>5 DEF Halfway, Present
<1>7. Keys \in SUBSET Keys /\ Nothing \in Stored
  BY DEF Stored
<1> QED
  BY <1>3, <1>4, <1>5, <1>6, <1>7, AskingKeeps

\* The new file decides what its key holds.
LEMMA WriteKeeps == ASSUME IInv, Write PROVE IInv'
<1>1. /\ call.at = "write" /\ call # Idle /\ call.on \subseteq Keys /\ call.on \cap done = {}
  BY DEF Write, IInv, CallInv, Idle
<1>2. /\ call' = [at |-> "legacy", on |-> call.on] /\ call' # Idle
      /\ UNCHANGED <<legacy, asked, done, cuts>>
  BY DEF Write, Idle
<1>3. CallInv'
  BY <1>1, <1>2 DEF CallInv, IsCall
<1>4. /\ current' \in [Keys -> Stored]
      /\ \A k \in call.on : current'[k] = asked[k].to
      /\ \A k \in Keys \ call.on : current'[k] = current[k]
  BY <1>1 DEF Write, Written, IInv, TypeInv
<1>5. TypeInv'
  BY <1>2, <1>4 DEF IInv, TypeInv
<1>6. \A k \in call.on : Halfway(k)'
  BY <1>2, <1>4 DEF Halfway
<1>7. cuts = 0 => \A k \in call.on : OneOf(k)'
  <2> SUFFICES ASSUME cuts = 0, NEW k \in call.on PROVE OneOf(k)'
    OBVIOUS
  <2>1. asked[k].to # Nothing
    BY <1>1 DEF IInv, KeysInv, Busy, Halfway
  <2> QED
    BY <1>2, <1>4, <2>1 DEF OneOf, readWebStorage
<1> QED
  BY <1>1, <1>2, <1>3, <1>4, <1>5, <1>6, <1>7, GoingOnKeeps

\* Before a cut a key without its current file holds what it held or nothing.
LEMMA RemoveCurrentKeeps == ASSUME IInv, RemoveCurrent PROVE IInv'
<1>1. /\ call.at = "current" /\ call # Idle /\ call.on \subseteq Keys /\ call.on \cap done = {}
  BY DEF RemoveCurrent, IInv, CallInv, Idle
<1>2. /\ call' = [at |-> "legacy", on |-> call.on] /\ call' # Idle
      /\ UNCHANGED <<legacy, asked, done, cuts>>
  BY DEF RemoveCurrent, Idle
<1>3. CallInv'
  BY <1>1, <1>2 DEF CallInv, IsCall
<1>4. /\ current' \in [Keys -> Stored]
      /\ \A k \in call.on : current'[k] = Nothing
      /\ \A k \in Keys \ call.on : current'[k] = current[k]
  BY <1>1 DEF RemoveCurrent, IInv, TypeInv, Stored
<1>5. TypeInv'
  BY <1>2, <1>4 DEF IInv, TypeInv
<1>6. cuts < 2 => \A k \in call.on : asked[k].to = Nothing
  BY <1>1 DEF IInv, KeysInv, Busy, Halfway
<1>7. cuts < 2 => \A k \in call.on : Halfway(k)'
  BY <1>2, <1>4, <1>6 DEF Halfway
<1>8. cuts = 0 => \A k \in call.on : OneOf(k)'
  <2> SUFFICES ASSUME cuts = 0, NEW k \in call.on PROVE OneOf(k)'
    OBVIOUS
  <2>1. OneOf(k) /\ (current[k] = Nothing \/ legacy[k] = Nothing)
    BY <1>1 DEF IInv, BeforeCuts
  <2> QED
    BY <1>2, <1>4, <1>6, <2>1 DEF OneOf, readWebStorage
<1> QED
  BY <1>1, <1>2, <1>3, <1>4, <1>5, <1>7, <1>8, GoingOnKeeps

\* With the legacy file gone the current one is all there is.
LEMMA RemoveLegacyKeeps == ASSUME IInv, RemoveLegacy PROVE IInv'
<1>1. /\ call.at = "legacy" /\ call # Idle /\ call.on \subseteq Keys
  BY DEF RemoveLegacy, IInv, CallInv, Idle
<1>2. Returns /\ UNCHANGED <<current, asked, cuts>>
  BY DEF RemoveLegacy
<1>3. /\ legacy' \in [Keys -> Stored]
      /\ \A k \in call.on : legacy'[k] = Nothing
      /\ \A k \in Keys \ call.on : legacy'[k] = legacy[k]
  BY <1>1 DEF RemoveLegacy, IInv, TypeInv, Stored
<1>4. TypeInv'
  BY <1>1, <1>2, <1>3 DEF IInv, TypeInv, Returns
<1>5. cuts < 2 => \A k \in call.on : current[k] = asked[k].to
  BY <1>1 DEF IInv, KeysInv, Busy, Halfway
<1> QED
  BY <1>1, <1>2, <1>3, <1>4, <1>5, ReturningKeeps

\* No legacy file is forgotten.
LEMMA ClearLegacyKeeps == ASSUME IInv, ClearLegacy PROVE IInv'
<1>1. /\ call.at = "clearLegacy" /\ call # Idle /\ call.on = Keys /\ call.left \subseteq Keys
      /\ call = [at |-> "clearLegacy", on |-> Keys, left |-> call.left]
      /\ Keys \cap done = {}
  <2>1. call.at = "clearLegacy" /\ call # Idle
    BY DEF ClearLegacy, Idle
  <2>2. IsCall /\ call.on \cap done = {}
    BY <2>1 DEF IInv, CallInv
  <2>3. /\ call = [at |-> call.at, on |-> call.on, left |-> call.left]
        /\ call.on = Keys /\ call.left \subseteq Keys
    BY <2>1, <2>2 DEF IsCall
  <2>4. call = [at |-> "clearLegacy", on |-> Keys, left |-> call.left]
    BY <2>1, <2>3
  <2> QED
    BY <2>1, <2>2, <2>3, <2>4
<1>2. UNCHANGED <<current, asked, done, cuts>>
  BY DEF ClearLegacy
<1>3. cuts < 2 => \A k \in Keys : asked[k].to = Nothing /\ (legacy[k] # Nothing => k \in call.left)
  BY <1>1 DEF IInv, KeysInv, Busy, Halfway
<1>4. cuts = 0 => \A k \in Keys : OneOf(k) /\ (current[k] = Nothing \/ legacy[k] = Nothing)
  BY <1>1 DEF IInv, BeforeCuts
<1>5. ASSUME NEW k \in call.left, legacy' = [legacy EXCEPT ![k] = Nothing],
             call' = [call EXCEPT !.left = @ \ {k}]
      PROVE  IInv'
  <2>1. call' = [at |-> "clearLegacy", on |-> Keys, left |-> call.left \ {k}] /\ call' # Idle
    BY <1>1, <1>5 DEF Idle
  <2>2. CallInv'
    BY <1>1, <1>2, <2>1 DEF CallInv, IsCall
  <2>3. /\ legacy' \in [Keys -> Stored]
        /\ \A j \in Keys : legacy'[j] = IF j = k THEN Nothing ELSE legacy[j]
    BY <1>1, <1>5 DEF IInv, TypeInv, Stored
  <2>4. TypeInv'
    BY <1>2, <2>3 DEF IInv, TypeInv
  <2>5. cuts < 2 => \A j \in Keys : Halfway(j)'
    BY <1>2, <1>3, <2>1, <2>3 DEF Halfway
  <2>6. cuts = 0 => \A j \in Keys : OneOf(j)' /\ (current'[j] = Nothing \/ legacy'[j] = Nothing)
    BY <1>2, <1>3, <1>4, <2>3 DEF OneOf, readWebStorage
  <2> QED
    BY <1>1, <1>2, <2>1, <2>2, <2>4, <2>5, <2>6, GoingOnKeeps
<1>6. ASSUME call.left = {}, legacy' = legacy,
             call' = [call EXCEPT !.at = "clearCurrent", !.left = Present(current)]
      PROVE  IInv'
  <2>1. call' = [at |-> "clearCurrent", on |-> Keys, left |-> Present(current)] /\ call' # Idle
    BY <1>1, <1>6 DEF Idle
  <2>2. CallInv'
    BY <1>1, <1>2, <2>1 DEF CallInv, IsCall, Present
  <2>3. TypeInv'
    BY <1>2, <1>6 DEF IInv, TypeInv
  <2>4. cuts < 2 => \A j \in Keys : Halfway(j)'
    BY <1>2, <1>3, <1>6, <2>1 DEF Halfway, Present
  <2>5. cuts = 0 => \A j \in Keys : OneOf(j)' /\ (current'[j] = Nothing \/ legacy'[j] = Nothing)
    BY <1>2, <1>4, <1>6 DEF OneOf, readWebStorage
  <2> QED
    BY <1>1, <1>2, <2>1, <2>2, <2>3, <2>4, <2>5, GoingOnKeeps
<1> QED
  BY <1>5, <1>6 DEF ClearLegacy

\* No current file is forgotten.
LEMMA ClearCurrentKeeps == ASSUME IInv, ClearCurrent PROVE IInv'
<1>1. /\ call.at = "clearCurrent" /\ call # Idle /\ call.on = Keys /\ call.left \subseteq Keys
      /\ call = [at |-> "clearCurrent", on |-> Keys, left |-> call.left]
      /\ Keys \cap done = {}
  <2>1. call.at = "clearCurrent" /\ call # Idle
    BY DEF ClearCurrent, Idle
  <2>2. IsCall /\ call.on \cap done = {}
    BY <2>1 DEF IInv, CallInv
  <2>3. /\ call = [at |-> call.at, on |-> call.on, left |-> call.left]
        /\ call.on = Keys /\ call.left \subseteq Keys
    BY <2>1, <2>2 DEF IsCall
  <2>4. call = [at |-> "clearCurrent", on |-> Keys, left |-> call.left]
    BY <2>1, <2>3
  <2> QED
    BY <2>1, <2>2, <2>3, <2>4
<1>2. UNCHANGED <<legacy, asked, cuts>>
  BY DEF ClearCurrent
<1>3. cuts < 2 => \A k \in Keys : /\ asked[k].to = Nothing /\ legacy[k] = Nothing
                                  /\ current[k] # Nothing => k \in call.left
  BY <1>1 DEF IInv, KeysInv, Busy, Halfway
<1>4. cuts = 0 => \A k \in Keys : OneOf(k)
  BY <1>1 DEF IInv, BeforeCuts
<1>5. ASSUME NEW k \in call.left, current' = [current EXCEPT ![k] = Nothing],
             call' = [call EXCEPT !.left = @ \ {k}], done' = done
      PROVE  IInv'
  <2>1. call' = [at |-> "clearCurrent", on |-> Keys, left |-> call.left \ {k}] /\ call' # Idle
    BY <1>1, <1>5 DEF Idle
  <2>2. CallInv'
    BY <1>1, <1>5, <2>1 DEF CallInv, IsCall
  <2>3. /\ current' \in [Keys -> Stored]
        /\ \A j \in Keys : current'[j] = IF j = k THEN Nothing ELSE current[j]
    BY <1>1, <1>5 DEF IInv, TypeInv, Stored
  <2>4. TypeInv'
    BY <1>2, <1>5, <2>3 DEF IInv, TypeInv
  <2>5. cuts < 2 => \A j \in Keys : Halfway(j)'
    BY <1>2, <1>3, <2>1, <2>3 DEF Halfway
  <2>6. cuts = 0 => \A j \in Keys : OneOf(j)' /\ (current'[j] = Nothing \/ legacy'[j] = Nothing)
    BY <1>2, <1>3, <1>4, <2>3 DEF OneOf, readWebStorage
  <2> QED
    BY <1>1, <1>2, <1>5, <2>1, <2>2, <2>4, <2>5, <2>6, GoingOnKeeps
<1>6. ASSUME call.left = {}, Returns, current' = current
      PROVE  IInv'
  <2>1. TypeInv'
    BY <1>1, <1>2, <1>6 DEF IInv, TypeInv, Returns
  <2>2. cuts < 2 => \A k \in Keys : current'[k] = asked[k].to /\ legacy'[k] = Nothing
    BY <1>2, <1>3, <1>6
  <2> QED
    BY <1>1, <1>2, <1>6, <2>1, <2>2, ReturningKeeps
<1> QED
  BY <1>5, <1>6 DEF ClearCurrent

\* The first cut leaves every key with one of its two values.
LEMMA CutKeeps == ASSUME IInv, Cut PROVE IInv'
<1>1. /\ call' = Idle /\ cuts' = cuts + 1 /\ UNCHANGED <<current, legacy, asked, done>>
      /\ cuts \in Nat /\ Busy' = {} /\ call # Idle /\ Busy = call.on /\ call.on \cap done = {}
  BY DEF Cut, IInv, TypeInv, CallInv, Busy
<1>2. KeysInv'
  <2> SUFFICES ASSUME cuts = 0, NEW k \in Keys PROVE Settled(k)'
    BY <1>1 DEF KeysInv
  <2>1. OneOf(k)
    BY DEF IInv, BeforeCuts
  <2>2. k \notin Busy => Settled(k)
    BY DEF IInv, KeysInv
  <2> QED
    BY <1>1, <2>1, <2>2 DEF Settled, OneOf, readWebStorage
<1> QED
  BY <1>1, <1>2 DEF IInv, TypeInv, CallInv, BeforeCuts

\* As long as one call at most was cut short, a key whose last call returned
\* holds what that call asked for, and any other what it held or what was
\* asked for: no older value comes back (js/pmjs-web/storage.js:19-52).
THEOREM FirstCutRevivesNothing == Spec => []OneCutRevivesNothing
<1>1. Init => IInv
  <2> SUFFICES ASSUME Init PROVE IInv
    OBVIOUS
  <2>1. \A k \in Keys : readWebStorage(k) \in Stored
    BY DEF Init, readWebStorage, Stored
  <2>2. TypeInv
    BY <2>1 DEF Init, TypeInv, Present, Stored
  <2>3. \A k \in Keys : asked[k].before = readWebStorage(k) /\ asked[k].to = readWebStorage(k)
    BY DEF Init
  <2>4. \A k \in Keys : current[k] = Nothing \/ legacy[k] = Nothing
    BY DEF Init, Present
  <2> QED
    BY <2>2, <2>3, <2>4 DEF Init, IInv, CallInv, KeysInv, BeforeCuts, Settled, OneOf, Busy
<1>2. IInv /\ [Next]_vars => IInv'
  <2> SUFFICES ASSUME IInv, [Next]_vars PROVE IInv'
    OBVIOUS
  <2>1. CASE UNCHANGED vars
    BY <2>1 DEF vars, IInv, TypeInv, CallInv, IsCall, KeysInv, BeforeCuts, Busy, Halfway, Settled,
                OneOf, readWebStorage
  <2> QED
    BY <2>1, SetItemKeeps, RemoveItemKeeps, WriteKeeps, RemoveCurrentKeeps, RemoveLegacyKeeps,
       ClearKeeps, ClearLegacyKeeps, ClearCurrentKeeps, CutKeeps DEF Next
<1>3. IInv => OneCutRevivesNothing
  BY DEF IInv, KeysInv, Settled, OneOf, Busy, OneCutRevivesNothing
<1> QED
  BY <1>1, <1>2, <1>3, PTL DEF Spec
=============================================================================
