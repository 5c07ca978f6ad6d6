------------------------ MODULE PreparationStateProofs ------------------------
(***************************************************************************)
(* Theorems about PreparationState, for any processes, outputs and         *)
(* sources: what is needed is not pruned, what was reported is remembered, *)
(* and a cleanup is complete.                                              *)
(*                                                                         *)
(* IInv adds what a session knows and holds at each of its steps.  Every   *)
(* conjunct has a proof that all actions keep it.                          *)
(***************************************************************************)
EXTENDS PreparationState, TLAPS

\* The steps of a session that has read the state file.
Loaded == {"phases", "commit", "lease", "retain", "prune", "save", "close"}
\* The steps of a session, from the removal of the catalog until it may save one.
NoCatalogYet == {"apply", "unmark", "phases", "commit", "lease", "retain", "prune", "save"}

\* Who holds the lock, and that nobody reads outputs without playing.
Holder ==
  /\ lock = FREE <=> at = "none"
  /\ \A p \in Processes : life[p] # "playing" => using[p] = {}
  /\ lock # FREE => life[lock] \notin {"playing", "unprepared"}
  /\ at \in {"catalog", "install"} => session = NoSession

\* Every reference from the disk is to a directory that exists.
References ==
  /\ state.results \subseteq dirs
  /\ catalog.keys \subseteq dirs /\ catalog.entries \subseteq catalog.keys
  /\ \A p \in Processes : using[p] \subseteq lease[p] /\ lease[p] \subseteq dirs
  /\ at \in NoCatalogYet => catalog = NoCatalog

\* What the session holds exists, and what it found unchanged is on disk.
InSession ==
  /\ session.results \subseteq dirs /\ session.touched \subseteq session.results
  /\ session.renamed \subseteq dirs
  /\ session.renamed # {} => at \in {"phases", "close"}
  /\ at \in Loaded /\ ~session.dirty =>
       state.results = session.results /\ session.failed = state.failed
  /\ session.failed \subseteq session.results
  /\ state.failed \subseteq state.results
  /\ at \in {"retain", "prune"} => ~session.dirty
  /\ at = "prune" => /\ session.results \subseteq session.retained
                     /\ \A p \in Processes : lease[p] \subseteq session.retained
  /\ at = "install" => lease[lock] = catalog.keys
  /\ session.leased => at \in Loaded /\ lease[lock] = session.results
  /\ at \in {"phases", "commit", "lease"} => ~session.leased
  /\ at \in {"phases", "commit"} => ~session.committed
  /\ at \in {"lease", "retain"} /\ session.committed => ~session.dirty

\* What is known of an output that was reported.
Reports ==
  /\ reported \subseteq dirs
  /\ \A o \in reported :
       /\ o \in state.results => o \in state.failed \/ SourceOf[o] \in markers
       /\ o \in catalog.entries => SourceOf[o] \in markers
       /\ at \in Loaded /\ o \in session.results =>
            o \in session.failed \/ SourceOf[o] \in markers
       /\ o \notin session.renamed
  /\ at = "unmark" => \A o \in state.results : SourceOf[o] \in markers => o \in state.failed
  /\ at = "install" => reported \cap catalog.entries = {}

\* Leases end while a cleanup goes on, but none begins.
Cleanup ==
  /\ at \in {"retain", "prune"} => \A p \in Processes : lease[p] \subseteq needed
  /\ at = "prune" => session.retained \subseteq session.results \cup needed

IInv == TypeOK /\ Holder /\ References /\ InSession /\ Reports /\ Cleanup

\* The records a session begins with and the one it writes are well typed.
LEMMA NoSessionTyped == NoSession \in SessionType
  BY DEF SessionType, NoSession

LEMMA SavedTyped == ASSUME session \in SessionType, Saved PROVE state' \in StateType
  BY DEF Saved, SessionType, StateType

\* Every action keeps the types.
LEMMA TypeKept ==
  ASSUME IInv, NEW p \in Processes, Process(p) \/ Session(p)
  PROVE  TypeOK'
<1> USE PreparationAssumption DEF IInv, disk
<1> USE DEF TypeOK
<1>1. CASE Start(p)
  BY <1>1 DEF Start
<1>2. CASE Exit(p)
  BY <1>2 DEF Exit, Ends
<1>3. CASE Crash(p)
  BY <1>3, NoSessionTyped DEF Crash, Ends, Release
<1>4. CASE CatalogUnavailable(p)
  BY <1>4 DEF CatalogUnavailable
<1>5. CASE LoadCatalog(p)
  BY <1>5, NoSessionTyped DEF LoadCatalog, Acquire
<1>6. CASE CatalogMissed(p)
  <2>1. PICK installed \in SUBSET Outputs : left' = [left EXCEPT ![p] = installed]
    BY <1>6 DEF CatalogMissed, CatalogType
  <2> QED BY <1>6, <2>1, NoSessionTyped DEF CatalogMissed, Release
<1>7. CASE CatalogLeases(p)
  BY <1>7 DEF CatalogLeases, CatalogType
<1>8. CASE CatalogInstalled(p)
  BY <1>8, NoSessionTyped DEF CatalogInstalled, Plays, Release, CatalogType
<1>9. CASE InvalidateCatalog(p)
  BY <1>9 DEF InvalidateCatalog, NoCatalog, CatalogType
<1>10. CASE OpenPreparation(p)
  BY <1>10, NoSessionTyped DEF OpenPreparation, NoCatalog, CatalogType
<1>11. CASE ApplyMarkers(p)
  BY <1>11 DEF ApplyMarkers, Invalidated, StateType
<1>12. CASE LoadState(p)
  BY <1>12 DEF LoadState, NoSession, StateType, SessionType
<1>13. CASE Publish(p)
  <2>1. PICK inferior \in SUBSET session.touched :
          session' = [session EXCEPT
            !.results = (@ \cup session.renamed) \ inferior,
            !.failed  = @ \ (session.renamed \cup inferior),
            !.touched = (@ \cup session.renamed) \ inferior,
            !.renamed = {}, !.dirty = TRUE]
    BY <1>13 DEF Publish
  <2>2. session' \in SessionType
    BY <2>1 DEF SessionType
  <2> QED BY <1>13, <2>2 DEF Publish, Quiet
<1>14. CASE CheckpointPhase(p)
  <2>1. session' = [session EXCEPT !.dirty = FALSE] \/ session' = [session EXCEPT !.warned = TRUE]
    BY <1>14 DEF CheckpointPhase
  <2>2. session' \in SessionType
    BY <2>1 DEF SessionType
  <2>3. state' \in StateType
    BY <1>14, SavedTyped DEF CheckpointPhase
  <2> QED BY <1>14, <2>2, <2>3 DEF CheckpointPhase, Saved, Quiet
<1>15. CASE Abandon(p)
  BY <1>15 DEF Abandon, InPhases
<1>16. CASE Finish(p)
  <2>1. PICK completed \in SUBSET Sources :
          session' = LET kept == {o \in session.results :
                                    SourceOf[o] \in completed => o \in session.touched}
                     IN  [session EXCEPT !.results = kept, !.failed = @ \cap kept,
                                         !.dirty = @ \/ kept # session.results]
    BY <1>16 DEF Finish
  <2> DEFINE kept == {o \in session.results : SourceOf[o] \in completed => o \in session.touched}
  <2>2. session' = [session EXCEPT !.results = kept, !.failed = @ \cap kept,
                                   !.dirty = @ \/ kept # session.results]
    BY <2>1
  <2>3. kept \in SUBSET Outputs
    BY DEF SessionType
  <2>4. session' \in SessionType
    <3> HIDE DEF kept
    <3> QED BY <2>2, <2>3 DEF SessionType
  <2> QED BY <1>16, <2>4 DEF Finish, Quiet
<1>17. CASE Commit(p)
  <2>1. session' \in SessionType
    BY <1>17 DEF Commit, SessionType
  <2>2. state' \in StateType
    BY <1>17, SavedTyped DEF Commit
  <2> QED BY <1>17, <2>1, <2>2 DEF Commit, Saved, Quiet
<1>18. CASE MakeLease(p)
  <2>1. session' \in SessionType /\ lease' \in [Processes -> SUBSET Outputs]
    BY <1>18 DEF MakeLease, SessionType
  <2> QED BY <1>18, <2>1 DEF MakeLease, Quiet
<1>19. CASE LeaseFails(p)
  BY <1>19 DEF LeaseFails, Quiet
<1>20. CASE RetainLeases(p)
  BY <1>20 DEF RetainLeases, Quiet, SessionType
<1>21. CASE Pruned(p)
  BY <1>21 DEF Pruned, Quiet
<1>22. CASE PruneDeferred(p)
  BY <1>22 DEF PruneDeferred, Quiet
<1>23. CASE SaveCatalog(p)
  <2>1. catalog' \in CatalogType
    <3>1. CASE UNCHANGED catalog
      BY <3>1
    <3>2. CASE catalog' = [present |-> TRUE, entries |-> session.touched \ session.failed,
                           keys |-> session.results]
      BY <3>2 DEF SessionType, CatalogType
    <3> QED BY <1>23, <3>1, <3>2 DEF SaveCatalog
  <2> QED BY <1>23, <2>1 DEF SaveCatalog, Quiet
<1>24. CASE Close(p)
  <2>1. session' \in SessionType /\ state' \in StateType
    BY <1>24, SavedTyped, NoSessionTyped DEF Close, Release
  <2> QED BY <1>24, <2>1 DEF Close, Saved, Plays, Release, SessionType
<1>25. CASE \E o \in Outputs : Report(p, o)
  BY <1>25 DEF Report
<1>26. CASE \E o \in Outputs : Reuse(p, o)
  BY <1>26 DEF Reuse, InPhases, Quiet, SessionType
<1>27. CASE \E o \in Outputs : Generate(p, o)
  BY <1>27 DEF Generate, InPhases, Quiet, SessionType
<1>28. CASE \E o \in Outputs : Reject(p, o)
  <2>1. PICK o \in Outputs : Reject(p, o)
    BY <1>28
  <2>2. session' \in SessionType
    BY <2>1 DEF Reject, SessionType
  <2> QED BY <2>1, <2>2 DEF Reject, Quiet
<1>29. CASE \E o \in Outputs : Prune(p, o)
  BY <1>29 DEF Prune, Quiet
<1>30. CASE \E s \in Sources : RemoveMarker(p, s)
  BY <1>30 DEF RemoveMarker
<1>31. CASE PreparationUnavailable(p)
  BY <1>31, NoSessionTyped DEF PreparationUnavailable, Release
<1> QED
  BY <1>1, <1>2, <1>3, <1>4, <1>5, <1>6, <1>7, <1>8, <1>9, <1>10, <1>11, <1>12,
     <1>13, <1>14, <1>15, <1>16, <1>17, <1>18, <1>19, <1>20, <1>21, <1>22, <1>23, <1>24,
     <1>25, <1>26, <1>27, <1>28, <1>29, <1>30, <1>31 DEF Process, Session

\* Every action keeps Holder.
LEMMA HolderKept ==
  ASSUME IInv, NEW p \in Processes, Process(p) \/ Session(p)
  PROVE  Holder'
<1> USE PreparationAssumption DEF IInv, disk, NoCatalog, NoSession, Loaded, NoCatalogYet, SessionType, StateType, CatalogType
<1> USE DEF TypeOK, Holder
<1>1. CASE Start(p)
  BY <1>1 DEF Start
<1>2. CASE Exit(p)
  BY <1>2 DEF Exit, Ends
<1>3. CASE Crash(p)
  BY <1>3 DEF Crash, Ends, Release
<1>4. CASE CatalogUnavailable(p)
  BY <1>4 DEF CatalogUnavailable
<1>5. CASE LoadCatalog(p)
  BY <1>5 DEF LoadCatalog, Acquire
<1>6. CASE CatalogMissed(p)
  BY <1>6 DEF CatalogMissed, Release
<1>7. CASE CatalogLeases(p)
  BY <1>7 DEF CatalogLeases
<1>8. CASE CatalogInstalled(p)
  BY <1>8 DEF CatalogInstalled, Plays, Release
<1>9. CASE InvalidateCatalog(p)
  BY <1>9 DEF InvalidateCatalog
<1>10. CASE OpenPreparation(p)
  BY <1>10 DEF OpenPreparation
<1>11. CASE ApplyMarkers(p)
  BY <1>11 DEF ApplyMarkers, Invalidated
<1>12. CASE LoadState(p)
  BY <1>12 DEF LoadState
<1>13. CASE Publish(p)
  BY <1>13 DEF Publish, InPhases, Quiet
<1>14. CASE CheckpointPhase(p)
  BY <1>14 DEF CheckpointPhase, InPhases, Quiet, Saved
<1>15. CASE Abandon(p)
  BY <1>15 DEF Abandon, InPhases
<1>16. CASE Finish(p)
  BY <1>16 DEF Finish, InPhases, Quiet
<1>17. CASE Commit(p)
  BY <1>17 DEF Commit, Quiet, Saved
<1>18. CASE MakeLease(p)
  BY <1>18 DEF MakeLease, Quiet
<1>19. CASE LeaseFails(p)
  BY <1>19 DEF LeaseFails, Quiet
<1>20. CASE RetainLeases(p)
  BY <1>20 DEF RetainLeases, Quiet
<1>21. CASE Pruned(p)
  BY <1>21 DEF Pruned, Quiet
<1>22. CASE PruneDeferred(p)
  BY <1>22 DEF PruneDeferred, Quiet
<1>23. CASE SaveCatalog(p)
  BY <1>23 DEF SaveCatalog, Quiet
<1>24. CASE Close(p)
  BY <1>24 DEF Close, Saved, Plays, Release
<1>25. CASE \E o \in Outputs : Report(p, o)
  BY <1>25 DEF Report
<1>26. CASE \E o \in Outputs : Reuse(p, o)
  BY <1>26 DEF Reuse, InPhases, Quiet
<1>27. CASE \E o \in Outputs : Generate(p, o)
  BY <1>27 DEF Generate, InPhases, Quiet
<1>28. CASE \E o \in Outputs : Reject(p, o)
  BY <1>28 DEF Reject, InPhases, Quiet
<1>29. CASE \E o \in Outputs : Prune(p, o)
  BY <1>29 DEF Prune, Quiet
<1>30. CASE \E s \in Sources : RemoveMarker(p, s)
  BY <1>30 DEF RemoveMarker
<1>31. CASE PreparationUnavailable(p)
  BY <1>31 DEF PreparationUnavailable, Release
<1> QED
  BY <1>1, <1>2, <1>3, <1>4, <1>5, <1>6, <1>7, <1>8, <1>9, <1>10, <1>11, <1>12,
     <1>13, <1>14, <1>15, <1>16, <1>17, <1>18, <1>19, <1>20, <1>21, <1>22, <1>23, <1>24,
     <1>25, <1>26, <1>27, <1>28, <1>29, <1>30, <1>31 DEF Process, Session

\* Every action keeps References.
LEMMA ReferencesKept ==
  ASSUME IInv, NEW p \in Processes, Process(p) \/ Session(p)
  PROVE  References'
<1> USE PreparationAssumption DEF IInv, disk, NoCatalog, NoSession, Loaded, NoCatalogYet, SessionType, StateType, CatalogType
<1> USE DEF TypeOK, Holder, References, InSession
<1>1. CASE Start(p)
  BY <1>1 DEF Start
<1>2. CASE Exit(p)
  BY <1>2 DEF Exit, Ends
<1>3. CASE Crash(p)
  BY <1>3 DEF Crash, Ends, Release
<1>4. CASE CatalogUnavailable(p)
  BY <1>4 DEF CatalogUnavailable
<1>5. CASE LoadCatalog(p)
  BY <1>5 DEF LoadCatalog, Acquire
<1>6. CASE CatalogMissed(p)
  BY <1>6 DEF CatalogMissed, Release
<1>7. CASE CatalogLeases(p)
  BY <1>7 DEF CatalogLeases
<1>8. CASE CatalogInstalled(p)
  BY <1>8 DEF CatalogInstalled, Plays, Release
<1>9. CASE InvalidateCatalog(p)
  BY <1>9 DEF InvalidateCatalog
<1>10. CASE OpenPreparation(p)
  BY <1>10 DEF OpenPreparation
<1>11. CASE ApplyMarkers(p)
  BY <1>11 DEF ApplyMarkers, Invalidated
<1>12. CASE LoadState(p)
  BY <1>12 DEF LoadState
<1>13. CASE Publish(p)
  BY <1>13 DEF Publish, InPhases, Quiet
<1>14. CASE CheckpointPhase(p)
  BY <1>14 DEF CheckpointPhase, InPhases, Quiet, Saved
<1>15. CASE Abandon(p)
  BY <1>15 DEF Abandon, InPhases
<1>16. CASE Finish(p)
  BY <1>16 DEF Finish, InPhases, Quiet
<1>17. CASE Commit(p)
  BY <1>17 DEF Commit, Quiet, Saved
<1>18. CASE MakeLease(p)
  BY <1>18 DEF MakeLease, Quiet
<1>19. CASE LeaseFails(p)
  BY <1>19 DEF LeaseFails, Quiet
<1>20. CASE RetainLeases(p)
  BY <1>20 DEF RetainLeases, Quiet
<1>21. CASE Pruned(p)
  BY <1>21 DEF Pruned, Quiet
<1>22. CASE PruneDeferred(p)
  BY <1>22 DEF PruneDeferred, Quiet
<1>23. CASE SaveCatalog(p)
  BY <1>23 DEF SaveCatalog, Quiet
<1>24. CASE Close(p)
  BY <1>24 DEF Close, Saved, Plays, Release
<1>25. CASE \E o \in Outputs : Report(p, o)
  BY <1>25 DEF Report
<1>26. CASE \E o \in Outputs : Reuse(p, o)
  BY <1>26 DEF Reuse, InPhases, Quiet
<1>27. CASE \E o \in Outputs : Generate(p, o)
  BY <1>27 DEF Generate, InPhases, Quiet
<1>28. CASE \E o \in Outputs : Reject(p, o)
  BY <1>28 DEF Reject, InPhases, Quiet
<1>29. CASE \E o \in Outputs : Prune(p, o)
  BY <1>29 DEF Prune, Quiet
<1>30. CASE \E s \in Sources : RemoveMarker(p, s)
  BY <1>30 DEF RemoveMarker
<1>31. CASE PreparationUnavailable(p)
  BY <1>31 DEF PreparationUnavailable, Release
<1> QED
  BY <1>1, <1>2, <1>3, <1>4, <1>5, <1>6, <1>7, <1>8, <1>9, <1>10, <1>11, <1>12,
     <1>13, <1>14, <1>15, <1>16, <1>17, <1>18, <1>19, <1>20, <1>21, <1>22, <1>23, <1>24,
     <1>25, <1>26, <1>27, <1>28, <1>29, <1>30, <1>31 DEF Process, Session

\* Every action keeps InSession.
LEMMA InSessionKept ==
  ASSUME IInv, NEW p \in Processes, Process(p) \/ Session(p)
  PROVE  InSession'
<1> USE PreparationAssumption DEF IInv, disk, NoCatalog, NoSession, Loaded, NoCatalogYet, SessionType, StateType, CatalogType
<1> USE DEF TypeOK, Holder, References, InSession
<1>1. CASE Start(p)
  BY <1>1 DEF Start
<1>2. CASE Exit(p)
  BY <1>2 DEF Exit, Ends
<1>3. CASE Crash(p)
  BY <1>3 DEF Crash, Ends, Release
<1>4. CASE CatalogUnavailable(p)
  BY <1>4 DEF CatalogUnavailable
<1>5. CASE LoadCatalog(p)
  BY <1>5 DEF LoadCatalog, Acquire
<1>6. CASE CatalogMissed(p)
  BY <1>6 DEF CatalogMissed, Release
<1>7. CASE CatalogLeases(p)
  BY <1>7 DEF CatalogLeases
<1>8. CASE CatalogInstalled(p)
  BY <1>8 DEF CatalogInstalled, Plays, Release
<1>9. CASE InvalidateCatalog(p)
  BY <1>9 DEF InvalidateCatalog
<1>10. CASE OpenPreparation(p)
  BY <1>10 DEF OpenPreparation
<1>11. CASE ApplyMarkers(p)
  BY <1>11 DEF ApplyMarkers, Invalidated
<1>12. CASE LoadState(p)
  BY <1>12 DEF LoadState
<1>13. CASE Publish(p)
  <2>1. PICK inferior \in SUBSET session.touched :
          session' = [session EXCEPT
            !.results = (@ \cup session.renamed) \ inferior,
            !.failed  = @ \ (session.renamed \cup inferior),
            !.touched = (@ \cup session.renamed) \ inferior,
            !.renamed = {}, !.dirty = TRUE]
    BY <1>13 DEF Publish
  <2>2. /\ session'.results = (session.results \cup session.renamed) \ inferior
        /\ session'.failed  = session.failed \ (session.renamed \cup inferior)
        /\ session'.touched = (session.touched \cup session.renamed) \ inferior
        /\ session'.renamed = {} /\ session'.dirty
        /\ session'.leased = session.leased /\ session'.committed = session.committed
    BY <2>1
  <2>3. at = "phases" /\ at' = at /\ UNCHANGED <<dirs, state, catalog, lease, lock>>
    BY <1>13 DEF Publish, InPhases, Quiet
  <2>4. ~session.leased
    BY <2>3
  <2> QED BY <2>2, <2>3, <2>4
<1>14. CASE CheckpointPhase(p)
  BY <1>14 DEF CheckpointPhase, InPhases, Quiet, Saved
<1>15. CASE Abandon(p)
  BY <1>15 DEF Abandon, InPhases
<1>16. CASE Finish(p)
  <2>1. PICK completed \in SUBSET Sources :
          session' = LET kept == {o \in session.results :
                                    SourceOf[o] \in completed => o \in session.touched}
                     IN  [session EXCEPT !.results = kept, !.failed = @ \cap kept,
                                         !.dirty = @ \/ kept # session.results]
    BY <1>16 DEF Finish
  <2> DEFINE kept == {o \in session.results : SourceOf[o] \in completed => o \in session.touched}
  <2>2. session' = [session EXCEPT !.results = kept, !.failed = @ \cap kept,
                                   !.dirty = @ \/ kept # session.results]
    BY <2>1
  <2>3. /\ session'.results = kept /\ session'.failed = session.failed \cap kept
        /\ session'.dirty = (session.dirty \/ kept # session.results)
        /\ session'.touched = session.touched /\ session'.renamed = session.renamed
        /\ session'.leased = session.leased /\ session'.committed = session.committed
    BY <2>2
  <2>4. kept \subseteq session.results /\ session.touched \subseteq kept
    OBVIOUS
  <2>5. /\ at = "phases" /\ at' = "commit" /\ session.renamed = {}
        /\ UNCHANGED <<dirs, state, catalog, lease, lock>>
    BY <1>16 DEF Finish, InPhases, Quiet
  <2> HIDE DEF kept
  <2> QED BY <2>3, <2>4, <2>5
<1>17. CASE Commit(p)
  <2>1. CASE session.dirty /\ Saved /\ session' = [session EXCEPT !.dirty = FALSE, !.committed = TRUE]
    BY <1>17, <2>1 DEF Commit, Saved, Quiet
  <2>2. CASE ~session.dirty /\ UNCHANGED disk /\ session' = [session EXCEPT !.dirty = FALSE, !.committed = TRUE]
    BY <1>17, <2>2 DEF Commit, Quiet
  <2>3. CASE session.dirty /\ UNCHANGED disk /\ session' = [session EXCEPT !.warned = TRUE]
    BY <1>17, <2>3 DEF Commit, Quiet
  <2> QED BY <1>17, <2>1, <2>2, <2>3 DEF Commit
<1>18. CASE MakeLease(p)
  <2>1. /\ at = "lease" /\ at' \in {"retain", "save"} /\ lock = p
        /\ at' = "retain" => session.committed
        /\ UNCHANGED <<dirs, state, catalog, lock>>
    BY <1>18 DEF MakeLease, Quiet
  <2>2. session' = [session EXCEPT !.leased = TRUE]
    BY <1>18 DEF MakeLease
  <2>3. lease'[p] = session.results
    BY <1>18 DEF MakeLease
  <2> QED BY <2>1, <2>2, <2>3
<1>19. CASE LeaseFails(p)
  BY <1>19 DEF LeaseFails, Quiet
<1>20. CASE RetainLeases(p)
  BY <1>20 DEF RetainLeases, Quiet
<1>21. CASE Pruned(p)
  BY <1>21 DEF Pruned, Quiet
<1>22. CASE PruneDeferred(p)
  BY <1>22 DEF PruneDeferred, Quiet
<1>23. CASE SaveCatalog(p)
  BY <1>23 DEF SaveCatalog, Quiet
<1>24. CASE Close(p)
  BY <1>24 DEF Close, Saved, Plays, Release
<1>25. CASE \E o \in Outputs : Report(p, o)
  BY <1>25 DEF Report
<1>26. CASE \E o \in Outputs : Reuse(p, o)
  BY <1>26 DEF Reuse, InPhases, Quiet
<1>27. CASE \E o \in Outputs : Generate(p, o)
  BY <1>27 DEF Generate, InPhases, Quiet
<1>28. CASE \E o \in Outputs : Reject(p, o)
  BY <1>28 DEF Reject, InPhases, Quiet
<1>29. CASE \E o \in Outputs : Prune(p, o)
  BY <1>29 DEF Prune, Quiet
<1>30. CASE \E s \in Sources : RemoveMarker(p, s)
  BY <1>30 DEF RemoveMarker
<1>31. CASE PreparationUnavailable(p)
  BY <1>31 DEF PreparationUnavailable, Release
<1> QED
  BY <1>1, <1>2, <1>3, <1>4, <1>5, <1>6, <1>7, <1>8, <1>9, <1>10, <1>11, <1>12,
     <1>13, <1>14, <1>15, <1>16, <1>17, <1>18, <1>19, <1>20, <1>21, <1>22, <1>23, <1>24,
     <1>25, <1>26, <1>27, <1>28, <1>29, <1>30, <1>31 DEF Process, Session

\* Every action keeps Reports.
LEMMA ReportsKept ==
  ASSUME IInv, NEW p \in Processes, Process(p) \/ Session(p)
  PROVE  Reports'
<1> USE PreparationAssumption DEF IInv, disk, NoCatalog, NoSession, Loaded, NoCatalogYet, SessionType, StateType, CatalogType
<1> USE DEF TypeOK, Holder, References, InSession, Reports
<1>1. CASE Start(p)
  BY <1>1 DEF Start
<1>2. CASE Exit(p)
  BY <1>2 DEF Exit, Ends
<1>3. CASE Crash(p)
  BY <1>3 DEF Crash, Ends, Release
<1>4. CASE CatalogUnavailable(p)
  BY <1>4 DEF CatalogUnavailable
<1>5. CASE LoadCatalog(p)
  BY <1>5 DEF LoadCatalog, Acquire
<1>6. CASE CatalogMissed(p)
  BY <1>6 DEF CatalogMissed, Release
<1>7. CASE CatalogLeases(p)
  BY <1>7 DEF CatalogLeases
<1>8. CASE CatalogInstalled(p)
  BY <1>8 DEF CatalogInstalled, Plays, Release
<1>9. CASE InvalidateCatalog(p)
  BY <1>9 DEF InvalidateCatalog
<1>10. CASE OpenPreparation(p)
  BY <1>10 DEF OpenPreparation
<1>11. CASE ApplyMarkers(p)
  BY <1>11 DEF ApplyMarkers, Invalidated
<1>12. CASE LoadState(p)
  BY <1>12 DEF LoadState
<1>13. CASE Publish(p)
  BY <1>13 DEF Publish, InPhases, Quiet
<1>14. CASE CheckpointPhase(p)
  BY <1>14 DEF CheckpointPhase, InPhases, Quiet, Saved
<1>15. CASE Abandon(p)
  BY <1>15 DEF Abandon, InPhases
<1>16. CASE Finish(p)
  BY <1>16 DEF Finish, InPhases, Quiet
<1>17. CASE Commit(p)
  <2>1. CASE session.dirty /\ Saved /\ session' = [session EXCEPT !.dirty = FALSE, !.committed = TRUE]
    BY <1>17, <2>1 DEF Commit, Saved, Quiet
  <2>2. CASE ~session.dirty /\ UNCHANGED disk /\ session' = [session EXCEPT !.dirty = FALSE, !.committed = TRUE]
    BY <1>17, <2>2 DEF Commit, Quiet
  <2>3. CASE session.dirty /\ UNCHANGED disk /\ session' = [session EXCEPT !.warned = TRUE]
    BY <1>17, <2>3 DEF Commit, Quiet
  <2> QED BY <1>17, <2>1, <2>2, <2>3 DEF Commit
<1>18. CASE MakeLease(p)
  BY <1>18 DEF MakeLease, Quiet
<1>19. CASE LeaseFails(p)
  BY <1>19 DEF LeaseFails, Quiet
<1>20. CASE RetainLeases(p)
  BY <1>20 DEF RetainLeases, Quiet
<1>21. CASE Pruned(p)
  BY <1>21 DEF Pruned, Quiet
<1>22. CASE PruneDeferred(p)
  BY <1>22 DEF PruneDeferred, Quiet
<1>23. CASE SaveCatalog(p)
  BY <1>23 DEF SaveCatalog, Quiet
<1>24. CASE Close(p)
  BY <1>24 DEF Close, Saved, Plays, Release
<1>25. CASE \E o \in Outputs : Report(p, o)
  BY <1>25 DEF Report
<1>26. CASE \E o \in Outputs : Reuse(p, o)
  BY <1>26 DEF Reuse, InPhases, Quiet
<1>27. CASE \E o \in Outputs : Generate(p, o)
  BY <1>27 DEF Generate, InPhases, Quiet
<1>28. CASE \E o \in Outputs : Reject(p, o)
  BY <1>28 DEF Reject, InPhases, Quiet
<1>29. CASE \E o \in Outputs : Prune(p, o)
  BY <1>29 DEF Prune, Quiet
<1>30. CASE \E s \in Sources : RemoveMarker(p, s)
  BY <1>30 DEF RemoveMarker
<1>31. CASE PreparationUnavailable(p)
  BY <1>31 DEF PreparationUnavailable, Release
<1> QED
  BY <1>1, <1>2, <1>3, <1>4, <1>5, <1>6, <1>7, <1>8, <1>9, <1>10, <1>11, <1>12,
     <1>13, <1>14, <1>15, <1>16, <1>17, <1>18, <1>19, <1>20, <1>21, <1>22, <1>23, <1>24,
     <1>25, <1>26, <1>27, <1>28, <1>29, <1>30, <1>31 DEF Process, Session

\* Every action keeps Cleanup.
LEMMA CleanupKept ==
  ASSUME IInv, NEW p \in Processes, Process(p) \/ Session(p)
  PROVE  Cleanup'
<1> USE PreparationAssumption DEF IInv, disk, NoCatalog, NoSession, Loaded, NoCatalogYet, SessionType, StateType, CatalogType
<1> USE DEF TypeOK, Holder, References, InSession, Cleanup
<1>1. CASE Start(p)
  BY <1>1 DEF Start
<1>2. CASE Exit(p)
  BY <1>2 DEF Exit, Ends
<1>3. CASE Crash(p)
  BY <1>3 DEF Crash, Ends, Release
<1>4. CASE CatalogUnavailable(p)
  BY <1>4 DEF CatalogUnavailable
<1>5. CASE LoadCatalog(p)
  BY <1>5 DEF LoadCatalog, Acquire
<1>6. CASE CatalogMissed(p)
  BY <1>6 DEF CatalogMissed, Release
<1>7. CASE CatalogLeases(p)
  BY <1>7 DEF CatalogLeases
<1>8. CASE CatalogInstalled(p)
  BY <1>8 DEF CatalogInstalled, Plays, Release
<1>9. CASE InvalidateCatalog(p)
  BY <1>9 DEF InvalidateCatalog
<1>10. CASE OpenPreparation(p)
  BY <1>10 DEF OpenPreparation
<1>11. CASE ApplyMarkers(p)
  BY <1>11 DEF ApplyMarkers, Invalidated
<1>12. CASE LoadState(p)
  BY <1>12 DEF LoadState
<1>13. CASE Publish(p)
  BY <1>13 DEF Publish, InPhases, Quiet
<1>14. CASE CheckpointPhase(p)
  BY <1>14 DEF CheckpointPhase, InPhases, Quiet, Saved
<1>15. CASE Abandon(p)
  BY <1>15 DEF Abandon, InPhases
<1>16. CASE Finish(p)
  BY <1>16 DEF Finish, InPhases, Quiet
<1>17. CASE Commit(p)
  BY <1>17 DEF Commit
<1>18. CASE MakeLease(p)
  BY <1>18 DEF MakeLease, Quiet
<1>19. CASE LeaseFails(p)
  BY <1>19 DEF LeaseFails, Quiet
<1>20. CASE RetainLeases(p)
  BY <1>20 DEF RetainLeases, Quiet
<1>21. CASE Pruned(p)
  BY <1>21 DEF Pruned, Quiet
<1>22. CASE PruneDeferred(p)
  BY <1>22 DEF PruneDeferred, Quiet
<1>23. CASE SaveCatalog(p)
  BY <1>23 DEF SaveCatalog
<1>24. CASE Close(p)
  BY <1>24 DEF Close, Saved, Plays, Release
<1>25. CASE \E o \in Outputs : Report(p, o)
  BY <1>25 DEF Report
<1>26. CASE \E o \in Outputs : Reuse(p, o)
  BY <1>26 DEF Reuse, InPhases, Quiet
<1>27. CASE \E o \in Outputs : Generate(p, o)
  BY <1>27 DEF Generate, InPhases, Quiet
<1>28. CASE \E o \in Outputs : Reject(p, o)
  BY <1>28 DEF Reject, InPhases, Quiet
<1>29. CASE \E o \in Outputs : Prune(p, o)
  BY <1>29 DEF Prune, Quiet
<1>30. CASE \E s \in Sources : RemoveMarker(p, s)
  BY <1>30 DEF RemoveMarker
<1>31. CASE PreparationUnavailable(p)
  BY <1>31 DEF PreparationUnavailable, Release
<1> QED
  BY <1>1, <1>2, <1>3, <1>4, <1>5, <1>6, <1>7, <1>8, <1>9, <1>10, <1>11, <1>12,
     <1>13, <1>14, <1>15, <1>16, <1>17, <1>18, <1>19, <1>20, <1>21, <1>22, <1>23, <1>24,
     <1>25, <1>26, <1>27, <1>28, <1>29, <1>30, <1>31 DEF Process, Session
\* The initial states satisfy the invariant.
LEMMA InitIInv == Init => IInv
<1> SUFFICES ASSUME Init PROVE IInv
  OBVIOUS
<1> USE PreparationAssumption, NoSessionTyped
<1>1. TypeOK
  BY DEF Init, TypeOK, NoState, NoCatalog, StateType, CatalogType
<1>2. Holder /\ References /\ Reports /\ Cleanup
  BY DEF Init, Holder, References, Reports, Cleanup, NoState, NoCatalog, NoSession,
         NoCatalogYet, Loaded
<1>3. InSession
  BY DEF Init, InSession, NoState, NoSession, Loaded
<1> QED BY <1>1, <1>2, <1>3 DEF IInv

\* Every step keeps it.
LEMMA StepIInv == IInv /\ [Next]_vars => IInv'
<1> SUFFICES ASSUME IInv, [Next]_vars PROVE IInv'
  OBVIOUS
<1>1. ASSUME NEW p \in Processes, Process(p) \/ Session(p)
      PROVE  IInv'
  <2>1. TypeOK' /\ Holder' /\ References'
    BY <1>1, TypeKept, HolderKept, ReferencesKept
  <2>2. InSession' /\ Reports' /\ Cleanup'
    BY <1>1, InSessionKept, ReportsKept, CleanupKept
  <2> QED BY <2>1, <2>2 DEF IInv
<1>2. CASE UNCHANGED vars
  BY <1>2 DEF vars, IInv, TypeOK, Holder, References, InSession, Reports, Cleanup
<1> QED BY <1>1, <1>2 DEF Next

\* The invariant of all behaviours.
LEMMA Invariant == Spec => []IInv
  BY InitIInv, StepIInv, PTL DEF Spec

\* The types of the variables, for any processes, outputs and sources.
THEOREM TypeCorrect == Spec => []TypeOK
<1>1. IInv => TypeOK
  BY DEF IInv
<1> QED BY <1>1, Invariant, PTL

\* finish() and retainLeases(): no output that a session or a catalog gave to a
\* running game, that the state counts as a result or that the catalog names is
\* pruned, whatever fails and whoever dies.
THEOREM NeededOutputsStay == Spec => []NothingNeededIsPruned
<1>1. IInv => NothingNeededIsPruned
  BY DEF IInv, References, NothingNeededIsPruned
<1> QED BY <1>1, Invariant, PTL

\* applyPendingInvalidations() and loadCatalog(): what a game reported is known
\* to have failed, or waits as a marker, and is not installed by the catalog.
THEOREM ReportsStay == Spec => []ReportsAreRemembered
<1>1. IInv => ReportsAreRemembered
  BY DEF IInv, Reports, ReportsAreRemembered
<1> QED BY <1>1, Invariant, PTL

\* finish(): a cleanup that is not deferred leaves only results and outputs
\* that living processes had leased.
THEOREM CleanupsComplete == Spec => CleanupIsComplete
<1> DEFINE Complete == \A p \in Processes : Pruned(p) =>
                         dirs \subseteq state.results \cup needed
<1>1. IInv => Complete
  BY DEF IInv, InSession, Cleanup, Pruned, Loaded
<1>2. IInv /\ [Next]_vars => [Complete]_vars
  BY <1>1
<1> QED BY <1>2, Invariant, PTL DEF CleanupIsComplete, Spec

=============================================================================
