--------------------------- MODULE PreparationState ---------------------------
(***************************************************************************)
(* The cache of prepared assets (runner/preparation-state.cjs, -lifetime,  *)
(* -catalog), shared by all processes that run the game.                   *)
(*                                                                         *)
(* Outputs are directories.  The state file says which of them are results *)
(* and which of these failed; the startup catalog is a shortcut for a      *)
(* start with nothing to prepare; a lease file names the outputs a running *)
(* process may read; an invalidation marker names a source whose result    *)
(* the game could not use.  All but the end of a lease happens under a     *)
(* lock of the kernel, so there is at most one session, that of the        *)
(* process that holds the lock: `at` is its next step and `session` its    *)
(* memory.  A process may die between any two steps, and any step that     *)
(* writes may fail.                                                        *)
(***************************************************************************)
EXTENDS Naturals

CONSTANTS
  Processes,
  Outputs,        \* directories of prepared files
  Sources,        \* what they are made from
  SourceOf,       \* the source of an output
  FREE            \* nobody holds the lock

ASSUME PreparationAssumption ==
  SourceOf \in [Outputs -> Sources] /\ FREE \notin Processes

VARIABLES
  \* on disk
  dirs,      \* directories that exist
  state,     \* preparation-state.json
  catalog,   \* startup-catalog.json
  markers,   \* invalidations/: the sources they name
  lease,     \* of each running process
  dead,      \* leases left behind by processes that died
  \* in the processes
  life,      \* "off", "starting", "preparing", "playing", "unprepared", "ending"
  using,     \* outputs a playing process was given, under its lease
  left,      \* outputs of a catalog that was rejected which are still installed
  lock, at, session,
  \* history
  reported,  \* outputs for which a report of the game was recorded
  needed     \* what leases of living processes named when the session made its own

disk == <<dirs, state, catalog, markers, lease, dead>>
vars == <<dirs, state, catalog, markers, lease, dead, life, using, left, lock, at, session,
          reported, needed>>

NoState   == [present |-> FALSE, results |-> {}, failed |-> {}]
NoCatalog == [present |-> FALSE, entries |-> {}, keys |-> {}]
NoSession == [results |-> {}, failed |-> {}, touched |-> {}, renamed |-> {}, dirty |-> FALSE,
              warned |-> FALSE, committed |-> FALSE, leased |-> FALSE, retained |-> {}]

Init ==
  /\ dirs = {} /\ state = NoState /\ catalog = NoCatalog /\ markers = {}
  /\ lease = [p \in Processes |-> {}] /\ dead = {}
  /\ life = [p \in Processes |-> "off"] /\ using = [p \in Processes |-> {}]
  /\ left = [p \in Processes |-> {}]
  /\ lock = FREE /\ at = "none" /\ session = NoSession
  /\ reported = {} /\ needed = {}

(***************************************************************************)
(* Processes.                                                              *)
(***************************************************************************)

Start(p) ==
  /\ life[p] = "off"
  /\ life' = [life EXCEPT ![p] = "starting"]
  /\ UNCHANGED <<disk, using, left, lock, at, session, reported, needed>>

Release == lock' = FREE /\ at' = "none" /\ session' = NoSession /\ needed' = {}

Ends(p) ==
  /\ life' = [life EXCEPT ![p] = "off"]
  /\ using' = [using EXCEPT ![p] = {}]
  /\ left' = [left EXCEPT ![p] = {}]
  /\ lease' = [lease EXCEPT ![p] = {}]

\* At exit the leases are unlinked, without the lock.
Exit(p) ==
  /\ life[p] \in {"playing", "unprepared"}
  /\ Ends(p)
  /\ UNCHANGED <<dirs, state, catalog, markers, dead, lock, at, session, reported, needed>>

\* The kernel releases the lock; the lease stays, with an owner that is not alive.
Crash(p) ==
  /\ life[p] # "off"
  /\ Ends(p)
  /\ dead' = dead \cup lease[p]
  /\ IF lock = p THEN Release ELSE UNCHANGED <<lock, at, session, needed>>
  /\ UNCHANGED <<dirs, state, catalog, markers, reported>>

Acquire(p, step) ==
  /\ lock = FREE
  /\ lock' = p /\ at' = step /\ session' = NoSession
  /\ UNCHANGED <<disk, using, left, reported, needed>>

Plays(p, outputs) ==
  /\ life' = [life EXCEPT ![p] = "playing"]
  /\ using' = [using EXCEPT ![p] = outputs]

\* loadCatalog() is not asked for, fails before it has the lock or does not get it.
CatalogUnavailable(p) ==
  /\ life[p] = "starting" /\ lock # p
  /\ life' = [life EXCEPT ![p] = "preparing"]
  /\ UNCHANGED <<disk, using, left, lock, at, session, reported, needed>>

\* openPreparation() does not get the lock in time, or fails before there is a
\* session.  The game starts without a lease and with no way to report; nothing
\* is cleared, so what a rejected catalog installed stays installed.
PreparationUnavailable(p) ==
  /\ life[p] = "preparing"
  /\ life' = [life EXCEPT ![p] = "unprepared"]
  /\ \/ lock # p /\ UNCHANGED <<lock, at, session, needed>>
     \/ lock = p /\ at \in {"apply", "unmark"} /\ Release
  /\ UNCHANGED <<disk, using, left, reported>>

(***************************************************************************)
(* loadCatalog(): start from the catalog.                                  *)
(***************************************************************************)

LoadCatalog(p) ==
  /\ life[p] = "starting"
  /\ Acquire(p, "catalog")
  /\ UNCHANGED life

\* Anything that is not as it should be, or a pending invalidation.  The lease
\* ends; any of the entries may have been installed before the one that failed.
CatalogMissed(p) ==
  /\ lock = p /\ at \in {"catalog", "install"}
  /\ life' = [life EXCEPT ![p] = "preparing"]
  /\ lease' = [lease EXCEPT ![p] = {}]
  /\ \E installed \in SUBSET (IF at = "install" THEN catalog.entries ELSE {}) :
       left' = [left EXCEPT ![p] = installed]
  /\ Release
  /\ UNCHANGED <<dirs, state, catalog, markers, dead, using, reported>>

CatalogLeases(p) ==
  /\ lock = p /\ at = "catalog"
  /\ markers = {} /\ catalog.present
  /\ lease' = [lease EXCEPT ![p] = catalog.keys]
  /\ at' = "install"
  /\ UNCHANGED <<dirs, state, catalog, markers, dead, life, using, left, lock, session, reported, needed>>

CatalogInstalled(p) ==
  /\ lock = p /\ at = "install"
  /\ Plays(p, catalog.entries)
  /\ Release
  /\ UNCHANGED <<disk, left, reported>>

(***************************************************************************)
(* openPreparation().                                                      *)
(***************************************************************************)

\* Mutant of OpenPreparation: the catalog is left until a new one is saved.
OpenKeepsCatalog(p) ==
  /\ life[p] = "preparing" /\ lock = FREE
  /\ lock' = p /\ at' = "apply" /\ session' = NoSession
  /\ UNCHANGED <<disk, life, using, left, reported, needed>>
OpenPreparation(p) ==
  /\ life[p] = "preparing" /\ lock = FREE
  /\ lock' = p /\ at' = "apply" /\ session' = NoSession
  /\ catalog' = NoCatalog
  /\ UNCHANGED <<dirs, state, markers, lease, dead, life, using, left, reported, needed>>

\* applyPendingInvalidations(): the results the markers are about.
Invalidated == {o \in state.results : SourceOf[o] \in markers}

\* Mutant of ApplyMarkers: the markers go first.
ApplyAfterRemoval(p) ==
  /\ lock = p /\ at = "apply" /\ markers # {} /\ state.present
  /\ session' = [session EXCEPT !.failed = Invalidated]
  /\ at' = "unmark"
  /\ UNCHANGED <<disk, life, using, left, lock, reported, needed>>
\* The state that reflects them is renamed into place.
ApplyMarkers(p) ==
  /\ lock = p /\ at = "apply" /\ markers # {} /\ state.present
  /\ state' = [state EXCEPT !.failed = @ \cup Invalidated]
  /\ at' = "unmark"
  /\ UNCHANGED <<dirs, catalog, markers, lease, dead, life, using, left, lock, session, reported, needed>>

RemoveMarker(p, s) ==
  /\ lock = p /\ at = "unmark" /\ s \in markers
  /\ markers' = markers \ {s}
  /\ UNCHANGED <<dirs, state, catalog, lease, dead, life, using, left, lock, at, session, reported, needed>>

\* With or without an error on the way, the state is read as it is.
LoadState(p) ==
  /\ lock = p /\ at \in {"apply", "unmark"}
  /\ session' = [NoSession EXCEPT !.results = state.results, !.failed = state.failed]
  /\ at' = "phases"
  /\ UNCHANGED <<disk, life, using, left, lock, reported, needed>>

(***************************************************************************)
(* The phases.                                                             *)
(***************************************************************************)

InPhases(p) == lock = p /\ at = "phases"
Quiet == UNCHANGED <<life, using, left, lock>>

\* validatedManifest(): a result that did not fail is used again.
Reuse(p, o) ==
  /\ InPhases(p) /\ session.renamed = {}
  /\ o \in session.results \ session.failed
  /\ session' = [session EXCEPT !.touched = @ \cup {o}]
  /\ Quiet /\ UNCHANGED <<disk, at, reported, needed>>

\* A stage is renamed to a directory that does not exist.
Generate(p, o) ==
  /\ InPhases(p) /\ session.renamed = {}
  /\ o \notin dirs
  /\ dirs' = dirs \cup {o}
  /\ session' = [session EXCEPT !.renamed = {o}]
  /\ Quiet /\ UNCHANGED <<state, catalog, markers, lease, dead, at, reported, needed>>

\* publishManifest(), and discard() of an inferior result it replaces.
Publish(p) ==
  /\ InPhases(p) /\ session.renamed # {}
  /\ \E inferior \in SUBSET {o \in session.touched :
                               \E n \in session.renamed : SourceOf[o] = SourceOf[n]} :
       session' = [session EXCEPT
         !.results = (@ \cup session.renamed) \ inferior,
         !.failed  = @ \ (session.renamed \cup inferior),
         !.touched = (@ \cup session.renamed) \ inferior,
         !.renamed = {}, !.dirty = TRUE]
  /\ Quiet /\ UNCHANGED <<disk, at, reported, needed>>

\* The renderer rejects a result.
Reject(p, o) ==
  /\ InPhases(p) /\ session.renamed = {}
  /\ o \in session.touched \ session.failed
  /\ session' = [session EXCEPT !.failed = @ \cup {o}, !.dirty = TRUE]
  /\ Quiet /\ UNCHANGED <<disk, at, reported, needed>>

\* checkpoint(), which writes nothing unless something changed.
Saved == /\ state' = [present |-> TRUE, results |-> session.results, failed |-> session.failed]
         /\ UNCHANGED <<dirs, catalog, markers, lease, dead>>

CheckpointPhase(p) ==
  /\ InPhases(p) /\ session.renamed = {} /\ session.dirty
  /\ \/ Saved /\ session' = [session EXCEPT !.dirty = FALSE]
     \/ UNCHANGED disk /\ session' = [session EXCEPT !.warned = TRUE]
  /\ Quiet /\ UNCHANGED <<at, reported, needed>>

\* Cancelled, or a phase threw.
Abandon(p) ==
  /\ InPhases(p)
  /\ at' = "close"
  /\ life' = [life EXCEPT ![p] = "ending"]
  /\ UNCHANGED <<disk, using, left, lock, session, reported, needed>>

(***************************************************************************)
(* finish().                                                               *)
(***************************************************************************)

\* Results of completed phases that no phase touched are dropped.
Finish(p) ==
  /\ InPhases(p) /\ session.renamed = {}
  /\ \E completed \in SUBSET Sources :
       LET kept == {o \in session.results : SourceOf[o] \in completed => o \in session.touched}
       IN  session' = [session EXCEPT !.results = kept, !.failed = @ \cap kept,
                                      !.dirty = @ \/ kept # session.results]
  /\ at' = "commit"
  /\ Quiet /\ UNCHANGED <<disk, reported, needed>>

Commit(p) ==
  /\ lock = p /\ at = "commit"
  /\ \/ /\ IF session.dirty THEN Saved ELSE UNCHANGED disk
        /\ session' = [session EXCEPT !.dirty = FALSE, !.committed = TRUE]
     \/ /\ session.dirty /\ UNCHANGED disk
        /\ session' = [session EXCEPT !.warned = TRUE]
  /\ at' = "lease"
  /\ Quiet /\ UNCHANGED <<reported, needed>>

MakeLease(p) ==
  /\ lock = p /\ at = "lease"
  /\ lease' = [lease EXCEPT ![p] = session.results]
  /\ session' = [session EXCEPT !.leased = TRUE]
  /\ needed' = UNION {lease'[q] : q \in Processes}
  /\ at' = IF session.committed THEN "retain" ELSE "save"
  /\ Quiet /\ UNCHANGED <<dirs, state, catalog, markers, dead, reported>>

\* Without a lease the game gets its originals.
LeaseFails(p) ==
  /\ lock = p /\ at = "lease"
  /\ at' = "close"
  /\ Quiet /\ UNCHANGED <<disk, session, reported, needed>>

\* Mutant of RetainLeases: a lease retains before its owner is looked at.
RetainEveryLease(p) ==
  /\ lock = p /\ at = "retain"
  /\ session' = [session EXCEPT !.retained = session.results \cup dead \cup UNION {lease[q] : q \in Processes}]
  /\ dead' = {} /\ at' = "prune"
  /\ Quiet /\ UNCHANGED <<dirs, state, catalog, markers, lease, reported, needed>>
\* retainLeases(): leases of the living retain, the others are removed.
RetainLeases(p) ==
  /\ lock = p /\ at = "retain"
  /\ session' = [session EXCEPT !.retained = session.results \cup UNION {lease[q] : q \in Processes}]
  /\ dead' = {} /\ at' = "prune"
  /\ Quiet /\ UNCHANGED <<dirs, state, catalog, markers, lease, reported, needed>>

\* A directory that is gone may be made again: what was reported is gone too.
Prune(p, o) ==
  /\ lock = p /\ at = "prune"
  /\ o \in dirs \ session.retained
  /\ dirs' = dirs \ {o}
  /\ reported' = reported \ {o}
  /\ Quiet /\ UNCHANGED <<state, catalog, markers, lease, dead, at, session, needed>>

Pruned(p) ==
  /\ lock = p /\ at = "prune"
  /\ dirs \subseteq session.retained
  /\ at' = "save"
  /\ Quiet /\ UNCHANGED <<disk, session, reported, needed>>

\* An error defers what is left of the cleanup.
PruneDeferred(p) ==
  /\ lock = p /\ at \in {"retain", "prune"}
  /\ at' = "save"
  /\ Quiet /\ UNCHANGED <<disk, session, reported, needed>>

\* saveCatalog(): unless anything at all went wrong.
SaveCatalog(p) ==
  /\ lock = p /\ at = "save"
  /\ \/ /\ ~session.warned
        /\ catalog' = [present |-> TRUE, entries |-> session.touched \ session.failed,
                       keys |-> session.results]
     \/ UNCHANGED catalog
  /\ at' = "close"
  /\ Quiet /\ UNCHANGED <<dirs, state, markers, lease, dead, session, reported, needed>>

\* close(): a last checkpoint, and the lock.  The installation of a phase
\* replaces what was installed before, a phase that fails before it leaves it;
\* without a lease, or when the game does not start, nothing is left.
Close(p) ==
  /\ lock = p /\ at = "close"
  /\ \/ session.dirty /\ Saved
     \/ UNCHANGED disk
  /\ IF life[p] = "ending"
     THEN life' = [life EXCEPT ![p] = "off"] /\ UNCHANGED using
     ELSE Plays(p, IF session.leased THEN session.touched \ session.failed ELSE {})
  /\ \/ left' = [left EXCEPT ![p] = {}]
     \/ session.leased /\ life[p] # "ending" /\ UNCHANGED left
  /\ Release
  /\ UNCHANGED reported

(***************************************************************************)
(* The game.                                                               *)
(***************************************************************************)

\* invalidateResults(): the marker of a source, under the lock.  An output may
\* be reported because it is gone.
Report(p, o) ==
  /\ life[p] = "playing" /\ lock = FREE
  /\ o \in using[p] \cup left[p]
  /\ markers' = markers \cup {SourceOf[o]}
  /\ reported' = reported \cup ({o} \cap dirs)
  /\ UNCHANGED <<dirs, state, catalog, lease, dead, life, using, left, lock, at, session, needed>>

\* invalidateCatalog(), for a failure that no source is named for.
InvalidateCatalog(p) ==
  /\ life[p] = "playing" /\ using[p] \cup left[p] # {}
  /\ lock = FREE /\ catalog.present
  /\ catalog' = NoCatalog
  /\ UNCHANGED <<dirs, state, markers, lease, dead, life, using, left, lock, at, session, reported, needed>>

(***************************************************************************)

Process(p) ==
  \/ Start(p) \/ Exit(p) \/ Crash(p)
  \/ CatalogUnavailable(p) \/ PreparationUnavailable(p)
  \/ LoadCatalog(p) \/ CatalogMissed(p) \/ CatalogLeases(p) \/ CatalogInstalled(p)
  \/ InvalidateCatalog(p) \/ \E o \in Outputs : Report(p, o)

Session(p) ==
  \/ OpenPreparation(p) \/ ApplyMarkers(p) \/ LoadState(p)
  \/ \E s \in Sources : RemoveMarker(p, s)
  \/ \E o \in Outputs : Reuse(p, o) \/ Generate(p, o) \/ Reject(p, o) \/ Prune(p, o)
  \/ Publish(p) \/ CheckpointPhase(p) \/ Abandon(p)
  \/ Finish(p) \/ Commit(p) \/ MakeLease(p) \/ LeaseFails(p)
  \/ RetainLeases(p) \/ Pruned(p) \/ PruneDeferred(p) \/ SaveCatalog(p) \/ Close(p)

Next == \E p \in Processes : Process(p) \/ Session(p)

Spec == Init /\ [][Next]_vars

(***************************************************************************)
(* Properties.                                                             *)
(***************************************************************************)

CatalogType == [present : BOOLEAN, entries : SUBSET Outputs, keys : SUBSET Outputs]
StateType   == [present : BOOLEAN, results : SUBSET Outputs, failed : SUBSET Outputs]
SessionType == [results : SUBSET Outputs, failed : SUBSET Outputs, touched : SUBSET Outputs,
                renamed : SUBSET Outputs, dirty : BOOLEAN, warned : BOOLEAN,
                committed : BOOLEAN, leased : BOOLEAN, retained : SUBSET Outputs]

\* The types of the variables.
TypeOK ==
  /\ dirs \subseteq Outputs /\ dead \subseteq Outputs /\ reported \subseteq Outputs /\ needed \subseteq Outputs
  /\ state \in StateType
  /\ catalog \in CatalogType
  /\ markers \subseteq Sources
  /\ lease \in [Processes -> SUBSET Outputs] /\ using \in [Processes -> SUBSET Outputs]
  /\ left \in [Processes -> SUBSET Outputs]
  /\ life \in [Processes -> {"off", "starting", "preparing", "playing", "unprepared", "ending"}]
  /\ lock \in Processes \cup {FREE}
  /\ at \in {"none", "catalog", "install", "apply", "unmark", "phases", "commit", "lease",
             "retain", "prune", "save", "close"}
  /\ session \in SessionType

\* Whatever fails or dies, no output is pruned that a running game was given
\* by a session or a catalog, that the state on disk counts as a result, or that
\* the catalog would install (finish() and retainLeases()).  What a rejected
\* catalog left installed is not among them: no lease names it, and a game that
\* goes on with it (PreparationUnavailable) may find it pruned.
NothingNeededIsPruned ==
  /\ \A p \in Processes : using[p] \subseteq dirs
  /\ state.results \subseteq dirs
  /\ catalog.keys \subseteq dirs /\ catalog.entries \subseteq dirs

\* A result the game reported is not taken for good afterwards: the state knows
\* that it failed, or a marker will tell it; and a start from the catalog, which
\* does not look at results, does not install it (applyPendingInvalidations(),
\* loadCatalog()).
ReportsAreRemembered ==
  /\ \A o \in reported \cap state.results : o \in state.failed \/ SourceOf[o] \in markers
  /\ at = "install" => reported \cap catalog.entries = {}

\* A cleanup that was not deferred leaves only what the new state counts as a
\* result or a living process had leased: outputs of dead processes and of
\* abandoned sessions do not pile up.
CleanupIsComplete ==
  [][\A p \in Processes : Pruned(p) =>
       dirs \subseteq state.results \cup needed]_vars
=============================================================================
