----------------------------- MODULE WebStorage -----------------------------
(***************************************************************************)
(* localStorage: js/pmjs-web/storage.js over runner/storage.cjs.  A key    *)
(* has a file in web-storage-v2 and, from older versions, one in           *)
(* web-storage, which is read when the first is missing.  setItem(),       *)
(* removeItem() and clear() are several atomic file steps; a step may fail *)
(* and the process may end between two of them.                            *)
(***************************************************************************)
EXTENDS Naturals, FiniteSets

CONSTANTS Keys, LegacyKeys,   \* keys, and those that may have a file in web-storage
          Values, Nothing,    \* stored values, and no file
          MaxCuts             \* bound on the calls cut short by a failure or a restart

ASSUME KeysOK == LegacyKeys \subseteq Keys /\ Nothing \notin Values /\ MaxCuts \in Nat

VARIABLES current, legacy,  \* the files of web-storage-v2 and of web-storage
          call,             \* the call in progress and the files it has left to remove
          asked,            \* per key, the value before the last call that named it and the value it asked for
          done,             \* keys whose last call returned
          cuts              \* calls cut short so far

vars == <<current, legacy, call, asked, done, cuts>>
Idle == [at |-> "idle"]

readWebStorage(k) == IF current[k] # Nothing THEN current[k] ELSE legacy[k]
Present(files) == {k \in Keys : files[k] # Nothing}

Init == /\ current \in [Keys -> Values \cup {Nothing}]
        /\ legacy \in [Keys -> Values \cup {Nothing}]
        /\ Present(legacy) \subseteq LegacyKeys /\ Present(current) \cap Present(legacy) = {}
        /\ call = Idle /\ cuts = 0 /\ done = Keys
        /\ asked = [k \in Keys |-> [before |-> readWebStorage(k), to |-> readWebStorage(k)]]

Asks(ks, v) == /\ call = Idle
               /\ asked' = [k \in Keys |-> IF k \in ks THEN [before |-> readWebStorage(k), to |-> v]
                                           ELSE asked[k]]
               /\ done' = done \ ks

Returns == call' = Idle /\ done' = done \cup call.on

\* A step throws, or the process ends and starts again.
Cut == /\ call # Idle /\ cuts < MaxCuts
       /\ call' = Idle /\ cuts' = cuts + 1
       /\ UNCHANGED <<current, legacy, asked, done>>

----------------------------------------------------------------------------
\* setItem(): the new file, then the legacy file goes.
SetItem(k, v) == /\ Asks({k}, v)
                 /\ call' = [at |-> "write", on |-> {k}]
                 /\ UNCHANGED <<current, legacy, cuts>>

Written == [k \in Keys |-> IF k \in call.on THEN asked[k].to ELSE current[k]]

\* Mutant of Write: the legacy file goes first.
WriteLast == /\ call.at = "write"
             /\ \/ /\ \E k \in call.on : legacy[k] # Nothing
                   /\ legacy' = [k \in Keys |-> IF k \in call.on THEN Nothing ELSE legacy[k]]
                   /\ UNCHANGED <<current, call>>
                \/ /\ \A k \in call.on : legacy[k] = Nothing
                   /\ current' = Written
                   /\ call' = [at |-> "legacy", on |-> call.on]
                   /\ UNCHANGED legacy
             /\ UNCHANGED <<asked, done, cuts>>

Write == /\ call.at = "write"
         /\ current' = Written
         /\ call' = [at |-> "legacy", on |-> call.on]
         /\ UNCHANGED <<legacy, asked, done, cuts>>

\* removeItem(): the current file, then the legacy file.
RemoveItem(k) == /\ Asks({k}, Nothing)
                 /\ call' = [at |-> "current", on |-> {k}]
                 /\ UNCHANGED <<current, legacy, cuts>>

RemoveCurrent == /\ call.at = "current"
                 /\ current' = [k \in Keys |-> IF k \in call.on THEN Nothing ELSE current[k]]
                 /\ call' = [at |-> "legacy", on |-> call.on]
                 /\ UNCHANGED <<legacy, asked, done, cuts>>

\* The last step of both: a key without a legacy path has nothing to remove.
RemoveLegacy == /\ call.at = "legacy"
                /\ legacy' = [k \in Keys |-> IF k \in call.on \cap LegacyKeys THEN Nothing ELSE legacy[k]]
                /\ Returns
                /\ UNCHANGED <<current, asked, cuts>>

----------------------------------------------------------------------------
\* clear(): every legacy file, then every current file, in directory order.
Clear == /\ Asks(Keys, Nothing)
         /\ call' = [at |-> "clearLegacy", on |-> Keys, left |-> Present(legacy)]
         /\ UNCHANGED <<current, legacy, cuts>>

ClearLegacy == /\ call.at = "clearLegacy"
               /\ \/ \E k \in call.left : /\ legacy' = [legacy EXCEPT ![k] = Nothing]
                                          /\ call' = [call EXCEPT !.left = @ \ {k}]
                  \/ /\ call.left = {}
                     /\ call' = [call EXCEPT !.at = "clearCurrent", !.left = Present(current)]
                     /\ UNCHANGED legacy
               /\ UNCHANGED <<current, asked, done, cuts>>

ClearCurrent == /\ call.at = "clearCurrent"
                /\ \/ \E k \in call.left : /\ current' = [current EXCEPT ![k] = Nothing]
                                           /\ call' = [call EXCEPT !.left = @ \ {k}]
                                           /\ UNCHANGED done
                   \/ call.left = {} /\ Returns /\ UNCHANGED current
                /\ UNCHANGED <<legacy, asked, cuts>>

Next == \/ \E k \in Keys, v \in Values : SetItem(k, v)
        \/ \E k \in Keys : RemoveItem(k)
        \/ Write \/ RemoveCurrent \/ RemoveLegacy \/ Clear \/ ClearLegacy \/ ClearCurrent \/ Cut

Spec == Init /\ [][Next]_vars

----------------------------------------------------------------------------
(* Properties.                                                             *)

\* A call that returned is what getItem() sees, and one cut short leaves the
\* value before it or the value it asked for: it takes two cuts, of a
\* setItem() before it removed the legacy file and of a removeItem() before
\* the same, to bring an older value back (js/pmjs-web/storage.js:19-52).
OneCutRevivesNothing ==
  call = Idle /\ cuts < 2 =>
    \A k \in Keys : readWebStorage(k) \in
      IF k \in done THEN {asked[k].to} ELSE {asked[k].before, asked[k].to}

=============================================================================
