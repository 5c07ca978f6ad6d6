--------------------------- MODULE SaveSlotsProofs ---------------------------
(***************************************************************************)
(* Theorems about SaveSlots, for any slots, progress and number of         *)
(* mutations.  What a turn has read agrees with the disk as long as it may *)
(* be used; the invariant adds that a burst is never ahead of the storage  *)
(* generation, so that a mutation always leaves it behind.  And the files  *)
(* keep the promise of SavedSlots; the invariant says, for each place a    *)
(* call can have come to, which of its files it has changed.               *)
(***************************************************************************)
EXTENDS SaveSlots, TLAPS

IsBurst(b) == b = [generation |-> b.generation, loads |-> b.loads, exists |-> b.exists]

\* What b has read of each file is what the disk holds.
Agrees(b) == \A f \in Files : /\ b.loads[f] \in {Unread, disk[f]}
                              /\ b.exists[f] \in {Unread, Exists(f)}

IInv == /\ generation \in Nat
        /\ IsBurst(burst) /\ burst.generation \in Nat
        /\ burst.generation <= generation
        /\ BurstIsFresh

\* A burst on which nothing was asked is one, and agrees with any disk.
LEMMA NoBurstAgrees ==
  IsBurst(NoBurst) /\ NoBurst.generation = 0 /\ Agrees(NoBurst)
  BY DEF IsBurst, NoBurst, Agrees

\* The burst a read begins with is of this generation and agrees with the disk.
LEMMA CurrentAgrees ==
  ASSUME IInv
  PROVE  /\ IsBurst(CurrentReadBurst) /\ CurrentReadBurst.generation = generation
         /\ Agrees(CurrentReadBurst)
<1>1. CASE burst.generation = generation
  BY <1>1 DEF IInv, CurrentReadBurst, BurstIsFresh, Agrees
<1>2. CASE burst.generation # generation
  BY <1>2 DEF CurrentReadBurst, IsBurst, NoBurst, Agrees
<1> QED
  BY <1>1, <1>2

\* Asking a burst for more files keeps its generation and its agreement.
LEMMA AskedAgrees ==
  ASSUME NEW b, IsBurst(b), Agrees(b), NEW E, NEW L
  PROVE  /\ IsBurst(Asked(b, E, L)) /\ Asked(b, E, L).generation = b.generation
         /\ Agrees(Asked(b, E, L))
<1> DEFINE x == [f \in Files |-> IF f \in E THEN CachedExists(b, f) ELSE b.exists[f]]
           l == [f \in Files |-> IF f \in L THEN CachedText(b, f) ELSE b.loads[f]]
<1>1. /\ Asked(b, E, L).exists = x /\ Asked(b, E, L).loads = l
      /\ Asked(b, E, L).generation = b.generation
      /\ IsBurst(Asked(b, E, L))
  <2>1. Asked(b, E, L) = [b EXCEPT !.exists = x, !.loads = l]
    BY DEF Asked
  <2> HIDE DEF x, l
  <2>2. Asked(b, E, L) = [generation |-> b.generation, loads |-> l, exists |-> x]
    BY <2>1 DEF IsBurst
  <2> QED
    BY <2>2 DEF IsBurst
<1>2. ASSUME NEW f \in Files
      PROVE  /\ CachedText(b, f) = disk[f]
             /\ CachedExists(b, f) = Exists(f)
  BY DEF Agrees, CachedText, CachedExists
<1>3. Agrees(Asked(b, E, L))
  BY <1>1, <1>2 DEF Agrees
<1> QED
  BY <1>1, <1>3

\* The two queries ask the burst for files and change nothing else of it.
LEMMA QueriesAgree ==
  ASSUME NEW b, IsBurst(b), Agrees(b), NEW s
  PROVE  /\ IsBurst(AfterExists(b, s)) /\ AfterExists(b, s).generation = b.generation
         /\ Agrees(AfterExists(b, s))
         /\ IsBurst(AfterRead(b, s)) /\ AfterRead(b, s).generation = b.generation
         /\ Agrees(AfterRead(b, s))
  BY AskedAgrees DEF AfterExists, AfterRead

\* A mutation, complete or not, leaves a burst that was not ahead behind.
LEMMA MutationLeavesBehind ==
  ASSUME IInv, NEW f, NEW c, NEW ok, Mutates(f, c, ok),
         IsBurst(burst'), burst'.generation \in Nat, burst'.generation <= generation
  PROVE  IInv'
  BY DEF IInv, Mutates, BurstIsFresh, IsBurst

\* A step that touches neither the disk nor the generation may read.
LEMMA ReadingKeeps ==
  ASSUME IInv, UNCHANGED <<disk, generation>>, IsBurst(burst'),
         burst'.generation = generation, Agrees(burst')
  PROVE  IInv'
  BY DEF IInv, BurstIsFresh, Agrees, Exists, IsBurst

\* A step that reads nothing and moves nothing.
LEMMA UnreadKeeps ==
  ASSUME IInv, UNCHANGED <<disk, generation, burst>>
  PROVE  IInv'
  BY DEF IInv, BurstIsFresh, Exists, IsBurst

\* Files are written and removed by mutations alone.
LEMMA MutatingKeeps ==
  ASSUME IInv, UNCHANGED burst, NEW f, NEW c, NEW ok, Mutates(f, c, ok)
  PROVE  IInv'
<1>1. IsBurst(burst') /\ burst'.generation \in Nat /\ burst'.generation <= generation
  BY DEF IInv, IsBurst
<1> QED
  BY <1>1, MutationLeavesBehind

\* Every action keeps the invariant.
LEMMA NextKeeps == IInv /\ [Next]_vars => IInv'
<1> SUFFICES ASSUME IInv, [Next]_vars PROVE IInv'
  OBVIOUS
<1>1. CASE BackUp
  <2> DEFINE s == call.on
             b == AfterExists(CurrentReadBurst, s)
  <2>1. /\ IsBurst(b) /\ b.generation = generation /\ Agrees(b)
        /\ IsBurst(AfterRead(b, s)) /\ AfterRead(b, s).generation = generation
    BY CurrentAgrees, QueriesAgree
  <2>2. CASE LocalSaveExists(b, s)
    <3>1. PICK ok \in BOOLEAN : /\ burst' = AfterRead(b, s)
                                /\ Mutates(<<s, "bak">>, ReadLocalSave(b, s), ok)
      BY <1>1, <2>2 DEF BackUp
    <3>2. IsBurst(burst') /\ burst'.generation \in Nat /\ burst'.generation <= generation
      BY <2>1, <3>1 DEF IInv
    <3> QED
      BY <3>1, <3>2, MutationLeavesBehind
  <2>3. CASE ~LocalSaveExists(b, s)
    <3>1. burst' = b /\ UNCHANGED <<disk, generation>>
      BY <1>1, <2>3 DEF BackUp
    <3>2. IsBurst(burst') /\ burst'.generation = generation /\ Agrees(burst')
      BY <2>1, <3>1
    <3> QED
      BY <3>1, <3>2, ReadingKeeps
  <2> QED
    BY <2>2, <2>3
<1>2. CASE WriteSave
  BY <1>2, MutatingKeeps DEF WriteSave
<1>3. CASE Unmark
  <2>1. CASE Exists(<<call.on, "save">>)
    BY <1>3, <2>1, MutatingKeeps DEF Unmark, Removes
  <2>2. CASE ~Exists(<<call.on, "save">>)
    BY <1>3, <2>2, UnreadKeeps DEF Unmark
  <2> QED
    BY <2>1, <2>2
<1>4. CASE WriteIndex
  BY <1>4 DEF WriteIndex, IInv, BurstIsFresh, IsBurst
<1>5. CASE CleanBackup
  <2>1. CASE Exists(<<call.on, "bak">>)
    BY <1>5, <2>1, MutatingKeeps DEF CleanBackup, Removes
  <2>2. CASE ~Exists(<<call.on, "bak">>)
    BY <1>5, <2>2, UnreadKeeps DEF CleanBackup
  <2> QED
    BY <2>1, <2>2
<1>6. CASE Restore
  BY <1>6, MutatingKeeps, UnreadKeeps DEF Restore
<1>7. CASE DropBackup
  BY <1>7, MutatingKeeps DEF DropBackup, Removes
<1>8. CASE Mark
  BY <1>8, MutatingKeeps DEF Mark
<1>9. CASE Unlink
  <2>1. CASE Exists(<<call.on, "save">>)
    BY <1>9, <2>1, MutatingKeeps DEF Unlink, Removes
  <2>2. CASE ~Exists(<<call.on, "save">>)
    BY <1>9, <2>2, UnreadKeeps DEF Unlink
  <2> QED
    BY <2>1, <2>2
<1>10. CASE Checkpoint \/ Restart
  <2>1. burst' = NoBurst /\ generation' \in Nat
    BY <1>10 DEF Checkpoint, Restart, IInv
  <2>2. IsBurst(burst') /\ burst'.generation = 0
    BY <2>1, NoBurstAgrees
  <2>3. BurstIsFresh'
    BY <2>1 DEF BurstIsFresh, NoBurst
  <2> QED
    BY <2>1, <2>2, <2>3 DEF IInv, IsBurst
<1>11. ASSUME NEW s \in Slots, NEW p \in Progress, SaveGame(s, p) PROVE IInv'
  <2>1. burst' = AfterExists(CurrentReadBurst, s) /\ UNCHANGED <<disk, generation>>
    BY <1>11 DEF SaveGame
  <2>2. IsBurst(burst') /\ burst'.generation = generation /\ Agrees(burst')
    BY <2>1, CurrentAgrees, QueriesAgree
  <2> QED
    BY <2>1, <2>2, ReadingKeeps
<1>12. ASSUME NEW s \in Slots, Remove(s) PROVE IInv'
  BY <1>12, UnreadKeeps DEF Remove
<1>13. ASSUME NEW s \in Slots, Load(s) PROVE IInv'
  <2>1. burst' = AfterRead(CurrentReadBurst, s) /\ UNCHANGED <<disk, generation>>
    BY <1>13 DEF Load
  <2>2. IsBurst(burst') /\ burst'.generation = generation /\ Agrees(burst')
    BY <2>1, CurrentAgrees, QueriesAgree
  <2> QED
    BY <2>1, <2>2, ReadingKeeps
<1>14. ASSUME NEW p \in Progress, Keep(p) PROVE IInv'
  BY <1>14, UnreadKeeps DEF Keep
<1>15. CASE UNCHANGED vars
  BY <1>15, UnreadKeeps DEF vars
<1> QED
  BY <1>1, <1>2, <1>3, <1>4, <1>5, <1>6, <1>7, <1>8, <1>9, <1>10, <1>11, <1>12, <1>13,
     <1>14, <1>15 DEF Next, Step

\* No turn of a game reads a save that a mutation has since replaced: what a
\* burst of the current generation holds is on disk (storage.js:89-115; the
\* generation advances before each attempt, storage.cjs:19-20 and 156).
THEOREM BurstsStayFresh == Spec => []BurstIsFresh
<1>1. Init => IInv
  BY NoBurstAgrees DEF Init, IInv, BurstIsFresh, IsBurst, NoBurst
<1>2. IInv /\ [Next]_vars => IInv'
  BY NextKeeps
<1>3. IInv => BurstIsFresh
  BY DEF IInv
<1> QED
  BY <1>1, <1>2, <1>3, PTL DEF Spec

----------------------------------------------------------------------------
(* The files keep the promise of SavedSlots.                               *)

\* What a slot can hold, and what its files and the memory of the last save
\* can be.
InSlot == Progress \cup {Nothing}

FilesOK ==
  /\ disk \in [Files -> Progress \cup {Blank, Nothing}]
  /\ \A s \in Slots : disk[<<s, "save">>] \in InSlot /\ disk[<<s, "bak">>] \in InSlot

LastSaveOK ==
  /\ lastSave = [generation |-> lastSave.generation, progress |-> lastSave.progress]
  /\ lastSave.generation \in Nat /\ lastSave.generation <= generation
  /\ lastSave.progress \in Progress /\ lastSave.generation = generation
       => disk[<<KeptSlot, "save">>] = lastSave.progress

\* A call that is not NoCall; only saves that are not kept take a backup.
IsCall ==
  /\ call = [on |-> call.on, to |-> call.to, before |-> call.before, at |-> call.at,
             hadSave |-> call.hadSave, backedUp |-> call.backedUp, rescuing |-> call.rescuing]
  /\ call.on \in Slots /\ call.before \in InSlot /\ call.to \in InSlot
  /\ call.hadSave \in BOOLEAN /\ call.backedUp \in BOOLEAN /\ call.rescuing \in BOOLEAN
  /\ call.backedUp => call.on # KeptSlot

\* A file of the slot of the call, and that its backup would restore it.
File(kind) == disk[<<call.on, kind>>]
Safe == File("bak") = call.before /\ call.before # Nothing

\* What has become of the slot's files when a call has come to each place.
Stage ==
  \/ /\ call.at = "backup" /\ Held(call.on) = call.before /\ call.to # Nothing
     /\ call.hadSave = (call.before # Nothing)
     /\ ~call.backedUp /\ ~call.rescuing /\ call.on # KeptSlot
  \/ /\ call.at = "save" /\ Held(call.on) = call.before /\ call.to # Nothing
     /\ ~call.rescuing /\ (call.backedUp => Safe)
  \/ /\ call.at \in {"unmark", "index"} /\ File("save") = call.to /\ call.to # Nothing
     /\ ~call.rescuing /\ (call.backedUp => Safe)
  \/ call.at = "clean" /\ File("save") # Nothing
  \/ /\ call.at = "restore" /\ call.rescuing /\ call.backedUp /\ Safe
     /\ Held(call.on) \in {call.before, call.to}
  \/ /\ call.at \in {"drop", "unmark"} /\ call.rescuing /\ call.backedUp
     /\ File("save") = call.before /\ call.before # Nothing
  \/ /\ call.at = "mark" /\ call.to = Nothing /\ Held(call.on) = call.before
     /\ ~call.backedUp
  \/ /\ call.at = "unlink" /\ call.to = Nothing /\ File("deleted") # Nothing
     /\ Held(call.on) \in {call.before, call.to} /\ ~call.backedUp

CallOK == call = NoCall \/ (IsCall /\ Stage)
PromiseInv == FilesOK /\ LastSaveOK /\ CallOK

Known == IInv /\ PromiseInv

\* What a step of the storage must do: keep the invariant, and do what the
\* promise allows or nothing it can see.
promised == <<[s \in Slots |-> Held(s)], Task, answer>>
Keeps == PromiseInv' /\ [Slot!Next]_promised

\* A slot can hold nothing.
LEMMA NothingInSlot == Nothing \in InSlot
  BY DEF InSlot

\* One mutation moves one file of one slot, or none.
LEMMA OneFileMoves ==
  ASSUME Known, NEW s \in Slots, NEW k \in Kinds, NEW c, NEW ok \in BOOLEAN,
         IF k = "deleted" THEN c \in {Blank, Nothing} ELSE c \in InSlot,
         Mutates(<<s, k>>, c, ok)
  PROVE  /\ FilesOK'
         /\ lastSave' = lastSave => LastSaveOK'
         /\ generation' = generation + 1 /\ generation' \in Nat
         /\ \A t \in Slots \ {s} : Held(t)' = Held(t)
         /\ \A j \in Kinds \ {k} : disk'[<<s, j>>] = disk[<<s, j>>]
         /\ disk'[<<s, k>>] \in {c, disk[<<s, k>>]}
         /\ ok => disk'[<<s, k>>] = c
<1>1. /\ disk \in [Files -> Progress \cup {Blank, Nothing}]
      /\ \A t \in Slots : disk[<<t, "save">>] \in InSlot /\ disk[<<t, "bak">>] \in InSlot
      /\ generation \in Nat
  BY DEF Known, IInv, PromiseInv, FilesOK
<1>2. \A t \in Slots, j \in Kinds : <<t, j>> \in Files
  BY DEF Files
<1>3. /\ generation' = generation + 1
      /\ disk' = [disk EXCEPT ![<<s, k>>] = c] \/ (~ok /\ disk' = disk)
  BY DEF Mutates
<1>4. \A t \in Slots, j \in Kinds :
        <<t, j>> # <<s, k>> => disk'[<<t, j>>] = disk[<<t, j>>]
  BY <1>1, <1>2, <1>3
<1>5. disk'[<<s, k>>] \in {c, disk[<<s, k>>]} /\ (ok => disk'[<<s, k>>] = c)
  BY <1>1, <1>2, <1>3
<1>6. \A t \in Slots \ {s} : Held(t)' = Held(t)
  BY <1>4 DEF Held, Exists, Kinds
<1>7. disk' \in [Files -> Progress \cup {Blank, Nothing}]
  BY <1>1, <1>3 DEF InSlot
<1>8. FilesOK'
  <2> SUFFICES ASSUME NEW t \in Slots
               PROVE  disk'[<<t, "save">>] \in InSlot /\ disk'[<<t, "bak">>] \in InSlot
    BY <1>7 DEF FilesOK, InSlot
  <2>1. \A j \in {"save", "bak"} : j \in Kinds
    BY DEF Kinds
  <2>2. ASSUME NEW j \in {"save", "bak"} PROVE disk'[<<t, j>>] \in InSlot
    BY <2>1, <1>1, <1>4, <1>5
  <2> QED
    BY <2>2
<1>9. lastSave' = lastSave => LastSaveOK'
  BY <1>1, <1>3 DEF Known, PromiseInv, LastSaveOK
<1> QED
  BY <1>1, <1>3, <1>4, <1>5, <1>6, <1>8, <1>9

\* Removing a file of a slot is such a mutation.
LEMMA AFileGoes ==
  ASSUME Known, NEW s \in Slots, NEW k \in Kinds, NEW ok \in BOOLEAN, Mutates(<<s, k>>, Nothing, ok)
  PROVE  /\ FilesOK'
         /\ lastSave' = lastSave => LastSaveOK'
         /\ \A t \in Slots \ {s} : Held(t)' = Held(t)
         /\ \A j \in Kinds \ {k} : disk'[<<s, j>>] = disk[<<s, j>>]
         /\ disk'[<<s, k>>] \in {Nothing, disk[<<s, k>>]}
         /\ ok => disk'[<<s, k>>] = Nothing
<1>1. IF k = "deleted" THEN Nothing \in {Blank, Nothing} ELSE Nothing \in InSlot
  BY NothingInSlot
<1> QED
  BY <1>1, OneFileMoves

\* A call between two of its steps has left its slot with what it held or
\* with what it shall hold.
LEMMA BeforeOrTo ==
  ASSUME IsCall, Stage, call.at # "clean"
  PROVE  Held(call.on) \in {call.before, call.to}
BY DEF Stage, Held, Exists, File

\* The slots of the promise, when all but one hold what they held.
LEMMA OneSlotMoves ==
  ASSUME NEW s \in Slots, \A t \in Slots \ {s} : Held(t)' = Held(t)
  PROVE  [t \in Slots |-> Held(t)'] = [[t \in Slots |-> Held(t)] EXCEPT ![s] = Held(s)']
<1> DEFINE h(t) == Held(t)
           g(t) == Held(t)'
<1>1. \A t \in Slots \ {s} : g(t) = h(t)
  OBVIOUS
<1> HIDE DEF h, g
<1>2. [t \in Slots |-> g(t)] = [[t \in Slots |-> h(t)] EXCEPT ![s] = g(s)]
  BY <1>1
<1> QED
  BY <1>2 DEF h, g

\* A call in progress is a task of the promise.
LEMMA TaskOfCall ==
  ASSUME IsCall, call.at \notin {"idle", "clean"}
  PROVE  /\ Task = [on |-> call.on, before |-> call.before, to |-> call.to]
         /\ Task # Slot!Idle
         /\ Task.on = call.on /\ Task.before = call.before /\ Task.to = call.to
<1>1. Task = [on |-> call.on, before |-> call.before, to |-> call.to]
  BY DEF Task
<1>2. "to" \in DOMAIN Task /\ "to" \notin DOMAIN Slot!Idle
  BY <1>1 DEF Slot!Idle
<1> QED
  BY <1>1, <1>2

\* The steps of a call that goes on write its slot, with one of the two.
LEMMA GoesOn ==
  ASSUME NEW s \in Slots, call.on = s, IsCall, Stage, call.at \notin {"idle", "clean"},
         IsCall', Stage', call'.at \notin {"idle", "clean"},
         call'.on = call.on, call'.to = call.to, call'.before = call.before,
         \A t \in Slots \ {s} : Held(t)' = Held(t), answer' = answer
  PROVE  Slot!Next
<1>1. Held(s)' \in {call.before, call.to}
  BY DEF Stage, Held, Exists, File
<1>2. Task' = Task
  BY DEF Task
<1>3. [t \in Slots |-> Held(t)'] = [[t \in Slots |-> Held(t)] EXCEPT ![s] = Held(s)']
  BY OneSlotMoves
<1>4. Slot!Write
  BY <1>1, <1>2, <1>3, TaskOfCall DEF Slot!Write
<1> QED
  BY <1>4 DEF Slot!Next

\* A call that fails gives up with its slot in one of the two states.
LEMMA FailingGivesUp ==
  ASSUME NEW s \in Slots, call.on = s, IsCall, Stage, call.at \notin {"idle", "clean"},
         Fails, \A t \in Slots \ {s} : Held(t)' = Held(t),
         Held(s)' \in {Held(call.on), call.before, call.to}
  PROVE  Slot!Next
<1>1. Held(s)' \in {call.before, call.to}
  BY BeforeOrTo
<1>2. call' = NoCall /\ answer' = [told |-> "failed"]
  BY DEF Fails, Ends
<1>3. Task' = Slot!Idle
  BY <1>2 DEF Task, NoCall, Slot!Idle
<1>4. [t \in Slots |-> Held(t)'] = [[t \in Slots |-> Held(t)] EXCEPT ![s] = Held(s)']
  BY OneSlotMoves
<1>5. Slot!GiveUp
  BY <1>1, <1>2, <1>3, <1>4, TaskOfCall DEF Slot!GiveUp
<1> QED
  BY <1>5 DEF Slot!Next

\* A call that tells it succeeded has left its slot as it was asked to.
LEMMA TellingSucceeds ==
  ASSUME NEW s \in Slots, call.on = s, IsCall, Stage, call.at \notin {"idle", "clean"},
         call' = NoCall \/ call'.at = "clean",
         answer' = Told("done", s, call.to),
         \A t \in Slots \ {s} : Held(t)' = Held(t),
         Held(s)' = call.to
  PROVE  Slot!Next
<1>1. Task' = Slot!Idle
  <2>1. call'.at \in {"idle", "clean"}
    BY DEF NoCall
  <2> QED
    BY <2>1 DEF Task, Slot!Idle
<1>2. [t \in Slots |-> Held(t)'] = [[t \in Slots |-> Held(t)] EXCEPT ![s] = Held(s)']
  BY OneSlotMoves
<1>3. call.on \in Slots
  BY DEF IsCall
<1>4. Slot!Succeed
  BY <1>1, <1>2, <1>3, TaskOfCall DEF Slot!Succeed, Slot!Told, Told
<1> QED
  BY <1>4 DEF Slot!Next

\* A failed step of a save restores the backup it took, or gives up.
LEMMA ThrowingKeeps ==
  ASSUME NEW s \in Slots, call.on = s, Known, IsCall, Stage, call.at \in {"save", "unmark", "index"}, ~call.rescuing,
         Throws, FilesOK', LastSaveOK',
         \A t \in Slots \ {s} : Held(t)' = Held(t),
         Held(s)' \in {call.before, call.to},
         disk'[<<s, "bak">>] = disk[<<s, "bak">>]
  PROVE  PromiseInv' /\ Slot!Next
<1>1. CASE call.backedUp
  <2>1. call' = [call EXCEPT !.at = "restore", !.rescuing = TRUE] /\ answer' = answer
    BY <1>1 DEF Throws
  <2>2. call' = [on |-> call.on, to |-> call.to, before |-> call.before, at |-> "restore",
                 hadSave |-> call.hadSave, backedUp |-> call.backedUp, rescuing |-> TRUE]
    BY <2>1 DEF IsCall
  <2>3. IsCall'
    BY <2>2 DEF IsCall
  <2>4. Safe
    BY <1>1 DEF Stage
  <2>5. Safe'
    BY <2>2, <2>4 DEF Safe, File
  <2>6. Stage'
    BY <1>1, <2>2, <2>5 DEF Stage
  <2>7. Slot!Next
    BY <2>1, <2>2, <2>3, <2>6, GoesOn
  <2> QED
    BY <2>3, <2>6, <2>7 DEF PromiseInv, CallOK
<1>2. CASE ~call.backedUp
  <2>1. Fails
    BY <1>2 DEF Throws
  <2>2. Slot!Next
    BY <2>1, FailingGivesUp
  <2>3. CallOK'
    BY <2>1 DEF Fails, Ends, CallOK
  <2> QED
    BY <2>2, <2>3 DEF PromiseInv
<1> QED
  BY <1>1, <1>2 DEF IsCall

\* Reads through a burst that agrees with the disk tell what the slot holds.
LEMMA ReadsTell ==
  ASSUME NEW b, Agrees(b), NEW s \in Slots
  PROVE  /\ LocalSaveExists(b, s) <=> Held(s) # Nothing
         /\ ReadLocalSave(b, s) = Held(s)
<1>1. ASSUME NEW k \in Kinds
      PROVE  /\ CachedText(b, <<s, k>>) = disk[<<s, k>>]
             /\ CachedExists(b, <<s, k>>) = Exists(<<s, k>>)
  <2>1. <<s, k>> \in Files
    BY DEF Files
  <2> QED
    BY <2>1 DEF Agrees, CachedText, CachedExists
<1> QED
  BY <1>1 DEF Kinds, LocalSaveExists, ReadLocalSave, BackupCounts, Held, Exists

\* A call that goes on from a step that changed one slot, or none.
LEMMA GoingOnKeeps ==
  ASSUME NEW s \in Slots, call.on = s, Known, IsCall, Stage,
         call.at \notin {"idle", "clean"},
         FilesOK', LastSaveOK', answer' = answer, \A t \in Slots \ {s} : Held(t)' = Held(t),
         NEW at, at \notin {"idle", "clean"}, NEW backedUp \in BOOLEAN,
         backedUp => s # KeptSlot,
         call' = [on |-> call.on, to |-> call.to, before |-> call.before, at |-> at,
                  hadSave |-> call.hadSave, backedUp |-> backedUp, rescuing |-> call.rescuing],
         Stage'
  PROVE  Keeps
<1>1. IsCall'
  BY DEF IsCall
<1>2. Slot!Next
  BY <1>1, GoesOn
<1> QED
  BY <1>1, <1>2 DEF Keeps, PromiseInv, CallOK

\* A failing step ends the call in one of the two states.
LEMMA FailingKeeps ==
  ASSUME NEW s \in Slots, call.on = s, Known, IsCall, Stage,
         call.at \notin {"idle", "clean"},
         Fails, FilesOK', LastSaveOK', \A t \in Slots \ {s} : Held(t)' = Held(t),
         Held(s)' \in {Held(s), call.before, call.to}
  PROVE  Keeps
<1>1. Slot!Next
  BY FailingGivesUp
<1>2. CallOK'
  BY DEF Fails, Ends, CallOK
<1> QED
  BY <1>1, <1>2 DEF Keeps, PromiseInv

\* Without a mutation the files and the memory of them stay as they were.
LEMMA NothingMoves ==
  ASSUME Known, UNCHANGED <<disk, generation, lastSave>>
  PROVE  FilesOK' /\ LastSaveOK' /\ \A t \in Slots : Held(t)' = Held(t)
BY DEF Known, PromiseInv, FilesOK, LastSaveOK, Held, Exists

\* A backup is a copy of what the slot holds, complete or not.
LEMMA BackUpKeeps == ASSUME Known, BackUp PROVE Keeps
<1> DEFINE b == AfterExists(CurrentReadBurst, call.on)
<1>1. IsCall /\ Stage /\ call.at = "backup"
  BY DEF BackUp, Known, PromiseInv, CallOK, NoCall
<1>2. PICK s \in Slots : s = call.on
  BY <1>1 DEF IsCall
<1>3. /\ Held(s) = call.before /\ call.to # Nothing /\ call.hadSave = (call.before # Nothing)
      /\ ~call.backedUp /\ ~call.rescuing /\ s # KeptSlot /\ call.before \in InSlot
  BY <1>1, <1>2 DEF Stage, IsCall
<1>4. Agrees(b)
  BY CurrentAgrees, QueriesAgree DEF Known
<1>5. (LocalSaveExists(b, s) <=> Held(s) # Nothing) /\ ReadLocalSave(b, s) = Held(s)
  BY <1>4, ReadsTell
<1>6. lastSave' = lastSave
  BY DEF BackUp
<1>7. CASE LocalSaveExists(b, s)
  <2>1. PICK ok \in BOOLEAN :
          /\ Mutates(<<s, "bak">>, Held(s), ok)
          /\ IF ok THEN /\ call' = [call EXCEPT !.at = "save", !.backedUp = call.hadSave]
                        /\ UNCHANGED answer
                   ELSE Fails
    BY <1>2, <1>5, <1>7 DEF BackUp
  <2>2. /\ FilesOK' /\ LastSaveOK' /\ \A t \in Slots \ {s} : Held(t)' = Held(t)
        /\ disk'[<<s, "save">>] = disk[<<s, "save">>]
        /\ disk'[<<s, "deleted">>] = disk[<<s, "deleted">>]
        /\ disk'[<<s, "bak">>] \in {Held(s), disk[<<s, "bak">>]}
        /\ ok => disk'[<<s, "bak">>] = Held(s)
    BY <1>3, <1>6, <2>1, OneFileMoves DEF Kinds
  <2>3. Held(s)' = Held(s)
    BY <2>2, <1>5, <1>7 DEF Held, Exists
  <2>4. CASE ok
    <3>1. /\ call' = [on |-> call.on, to |-> call.to, before |-> call.before, at |-> "save",
                      hadSave |-> call.hadSave, backedUp |-> TRUE, rescuing |-> call.rescuing]
          /\ answer' = answer
      BY <1>1, <1>3, <1>5, <1>7, <2>1, <2>4 DEF IsCall
    <3>2. Safe'
      BY <1>2, <1>3, <1>5, <1>7, <2>2, <2>4, <3>1 DEF Safe, File
    <3>3. Stage'
      BY <1>2, <1>3, <2>3, <3>1, <3>2 DEF Stage
    <3> QED
      BY <1>1, <1>2, <1>3, <2>2, <3>1, <3>3, GoingOnKeeps
  <2>5. CASE ~ok
    BY <1>1, <1>2, <2>1, <2>2, <2>3, <2>5, FailingKeeps
  <2> QED
    BY <2>4, <2>5
<1>8. CASE ~LocalSaveExists(b, s)
  <2>1. /\ call' = [call EXCEPT !.at = "save"]
        /\ UNCHANGED <<disk, generation, answer>>
    BY <1>2, <1>8 DEF BackUp, Goes
  <2>2. call' = [on |-> call.on, to |-> call.to, before |-> call.before, at |-> "save",
                 hadSave |-> call.hadSave, backedUp |-> FALSE, rescuing |-> call.rescuing]
    BY <1>1, <1>3, <2>1 DEF IsCall
  <2>3. FilesOK' /\ LastSaveOK' /\ \A t \in Slots : Held(t)' = Held(t)
    BY <1>6, <2>1, NothingMoves
  <2>4. Stage'
    BY <1>2, <1>3, <2>2, <2>3 DEF Stage
  <2> QED
    BY <1>1, <1>2, <2>1, <2>2, <2>3, <2>4, GoingOnKeeps
<1> QED
  BY <1>7, <1>8

\* The save is replaced as a whole or stays.
LEMMA WriteSaveKeeps == ASSUME Known, WriteSave PROVE Keeps
<1>1. IsCall /\ Stage /\ call.at = "save"
  BY DEF WriteSave, Known, PromiseInv, CallOK, NoCall
<1>2. PICK s \in Slots : s = call.on
  BY <1>1 DEF IsCall
<1>3. /\ call.to # Nothing /\ call.to \in InSlot /\ Held(s) = call.before
      /\ ~call.rescuing /\ (call.backedUp => Safe)
  BY <1>1, <1>2 DEF Stage, IsCall
<1>4. PICK ok \in BOOLEAN : /\ Mutates(<<s, "save">>, call.to, ok)
                            /\ IF ok THEN Goes("unmark") ELSE Throws
  BY <1>2 DEF WriteSave
<1>5. /\ FilesOK' /\ LastSaveOK' /\ \A t \in Slots \ {s} : Held(t)' = Held(t)
      /\ disk'[<<s, "bak">>] = disk[<<s, "bak">>]
      /\ disk'[<<s, "deleted">>] = disk[<<s, "deleted">>]
      /\ disk'[<<s, "save">>] \in {call.to, disk[<<s, "save">>]}
      /\ ok => disk'[<<s, "save">>] = call.to
  BY <1>3, <1>4, OneFileMoves DEF Kinds, WriteSave
<1>6. Held(s)' \in {call.before, call.to}
  BY <1>3, <1>5 DEF Held, Exists
<1>7. CASE ok
  <2>1. /\ call' = [on |-> call.on, to |-> call.to, before |-> call.before, at |-> "unmark",
                    hadSave |-> call.hadSave, backedUp |-> call.backedUp,
                    rescuing |-> call.rescuing]
        /\ answer' = answer
    BY <1>1, <1>4, <1>7 DEF IsCall, Goes
  <2>2. call.backedUp => Safe'
    BY <1>2, <1>3, <1>5, <2>1 DEF Safe, File
  <2>3. Stage'
    BY <1>2, <1>3, <1>5, <1>7, <2>1, <2>2 DEF Stage, File
  <2> QED
    BY <1>1, <1>2, <1>5, <2>1, <2>3, GoingOnKeeps DEF IsCall
<1>8. CASE ~ok
  BY <1>1, <1>2, <1>3, <1>4, <1>5, <1>6, <1>8, ThrowingKeeps DEF Keeps
<1> QED
  BY <1>7, <1>8

\* The marker goes when the save is there: what the slot holds does not change.
LEMMA UnmarkKeeps == ASSUME Known, Unmark PROVE Keeps
<1>1. IsCall /\ Stage /\ call.at = "unmark"
  BY DEF Unmark, Known, PromiseInv, CallOK, NoCall
<1>2. PICK s \in Slots : s = call.on
  BY <1>1 DEF IsCall
<1>3. /\ Exists(<<s, "save">>)
      /\ \/ /\ disk[<<s, "save">>] = call.to /\ call.to # Nothing
            /\ ~call.rescuing /\ (call.backedUp => Safe)
         \/ /\ disk[<<s, "save">>] = call.before /\ call.rescuing /\ s # KeptSlot
  BY <1>1, <1>2 DEF Stage, File, Exists, IsCall
<1>4. PICK ok \in BOOLEAN :
        /\ Mutates(<<s, "deleted">>, Nothing, ok)
        /\ IF call.rescuing THEN Fails
           ELSE IF ~ok THEN Throws
           ELSE IF s = KeptSlot THEN Ends(Told("done", s, call.to))
           ELSE Goes("index")
        /\ lastSave' = IF ok /\ s = KeptSlot
                       THEN [generation |-> generation', progress |-> call.to] ELSE lastSave
  BY <1>2, <1>3 DEF Unmark, Removes
<1>5. /\ FilesOK' /\ \A t \in Slots \ {s} : Held(t)' = Held(t)
      /\ lastSave' = lastSave => LastSaveOK'
      /\ generation' \in Nat
      /\ disk'[<<s, "save">>] = disk[<<s, "save">>]
      /\ disk'[<<s, "bak">>] = disk[<<s, "bak">>]
  BY <1>4, AFileGoes, OneFileMoves DEF Kinds
<1>6. Held(s)' = disk[<<s, "save">>] /\ Held(s) = disk[<<s, "save">>]
  BY <1>3, <1>5 DEF Held, Exists
<1>7. LastSaveOK'
  <2>1. CASE ok /\ s = KeptSlot
    <3>1. lastSave' = [generation |-> generation', progress |-> call.to]
      BY <1>4, <2>1
    <3>2. disk'[<<KeptSlot, "save">>] = call.to
      BY <1>3, <1>5, <2>1
    <3> QED
      BY <1>5, <3>1, <3>2 DEF LastSaveOK
  <2>2. CASE ~(ok /\ s = KeptSlot)
    BY <1>4, <1>5, <2>2
  <2> QED
    BY <2>1, <2>2
<1>8. CASE call.rescuing
  BY <1>1, <1>2, <1>4, <1>5, <1>6, <1>7, <1>8, FailingKeeps
<1>9. CASE ~call.rescuing /\ ~ok
  BY <1>1, <1>2, <1>3, <1>4, <1>5, <1>6, <1>7, <1>9, ThrowingKeeps DEF Keeps
<1>10. CASE ~call.rescuing /\ ok /\ s = KeptSlot
  <2>1. call' = NoCall /\ answer' = Told("done", s, call.to)
    BY <1>4, <1>10 DEF Ends
  <2>2. Slot!Next
    BY <1>1, <1>2, <1>3, <1>5, <1>6, <1>10, <2>1, TellingSucceeds
  <2> QED
    BY <1>5, <1>7, <2>1, <2>2 DEF Keeps, PromiseInv, CallOK
<1>11. CASE ~call.rescuing /\ ok /\ s # KeptSlot
  <2>1. /\ call' = [on |-> call.on, to |-> call.to, before |-> call.before, at |-> "index",
                    hadSave |-> call.hadSave, backedUp |-> call.backedUp,
                    rescuing |-> call.rescuing]
        /\ answer' = answer
    BY <1>1, <1>4, <1>11 DEF IsCall, Goes
  <2>2. call.backedUp => Safe'
    BY <1>2, <1>3, <1>5, <1>11, <2>1 DEF Safe, File
  <2>3. Stage'
    BY <1>2, <1>3, <1>5, <1>11, <2>1, <2>2 DEF Stage, File
  <2> QED
    BY <1>1, <1>2, <1>5, <1>7, <2>1, <2>3, GoingOnKeeps DEF IsCall
<1> QED
  BY <1>8, <1>9, <1>10, <1>11

\* The index is told of a save that is in place.
LEMMA WriteIndexKeeps == ASSUME Known, WriteIndex PROVE Keeps
<1>1. IsCall /\ Stage /\ call.at = "index"
  BY DEF WriteIndex, Known, PromiseInv, CallOK, NoCall
<1>2. PICK s \in Slots : s = call.on
  BY <1>1 DEF IsCall
<1>3. /\ disk[<<s, "save">>] = call.to /\ call.to # Nothing /\ ~call.rescuing
  BY <1>1, <1>2 DEF Stage, File
<1>4. FilesOK' /\ LastSaveOK'
  BY DEF WriteIndex, Known, IInv, PromiseInv, FilesOK, LastSaveOK
<1>5. disk' = disk /\ \A t \in Slots : Held(t)' = Held(t)
  BY DEF WriteIndex, Held, Exists
<1>6. Held(s) = call.to
  BY <1>3 DEF Held, Exists
<1>7. CASE call' = [call EXCEPT !.at = "clean"] /\ answer' = Told("done", call.on, call.to)
  <2>1. call' = [on |-> call.on, to |-> call.to, before |-> call.before, at |-> "clean",
                 hadSave |-> call.hadSave, backedUp |-> call.backedUp,
                 rescuing |-> call.rescuing]
    BY <1>1, <1>7 DEF IsCall
  <2>2. IsCall' /\ Stage'
    BY <1>1, <1>2, <1>3, <1>5, <2>1 DEF IsCall, Stage, File
  <2>3. Slot!Next
    BY <1>1, <1>2, <1>5, <1>6, <1>7, <2>1, TellingSucceeds
  <2> QED
    BY <1>4, <2>2, <2>3 DEF Keeps, PromiseInv, CallOK
<1>8. CASE Throws
  BY <1>1, <1>2, <1>3, <1>4, <1>5, <1>6, <1>8, ThrowingKeeps DEF Keeps
<1> QED
  BY <1>7, <1>8 DEF WriteIndex

\* The backup of a slot that has a save may go.
LEMMA CleanBackupKeeps == ASSUME Known, CleanBackup PROVE Keeps
<1>1. IsCall /\ Stage /\ call.at = "clean"
  BY DEF CleanBackup, Known, PromiseInv, CallOK, NoCall
<1>0. lastSave' = lastSave
  BY DEF CleanBackup
<1>2. PICK s \in Slots : s = call.on
  BY <1>1 DEF IsCall
<1>3. disk[<<s, "save">>] # Nothing
  BY <1>1, <1>2 DEF Stage, File
<1>4. FilesOK' /\ LastSaveOK' /\ \A t \in Slots : Held(t)' = Held(t)
  <2>1. CASE Exists(<<s, "bak">>)
    <3>1. PICK ok \in BOOLEAN : Mutates(<<s, "bak">>, Nothing, ok)
      BY <1>2, <2>1 DEF CleanBackup, Removes
    <3>2. /\ FilesOK' /\ LastSaveOK' /\ \A t \in Slots \ {s} : Held(t)' = Held(t)
          /\ disk'[<<s, "save">>] = disk[<<s, "save">>]
      BY <3>1, <1>0, AFileGoes DEF Kinds
    <3>3. Held(s)' = Held(s)
      BY <1>3, <3>2 DEF Held, Exists
    <3> QED
      BY <3>2, <3>3
  <2>2. CASE ~Exists(<<s, "bak">>)
    BY <1>2, <2>2, NothingMoves DEF CleanBackup
  <2> QED
    BY <2>1, <2>2
<1>5. call' = NoCall /\ answer' = answer
  BY DEF CleanBackup
<1>6. Task' = Task
  BY <1>1, <1>5 DEF Task, NoCall
<1> QED
  BY <1>4, <1>5, <1>6 DEF Keeps, promised, PromiseInv, CallOK

\* A restore writes what the slot held before, and nothing else.
LEMMA RestoreKeeps == ASSUME Known, Restore PROVE Keeps
<1>1. IsCall /\ Stage /\ call.at = "restore"
  BY DEF Restore, Known, PromiseInv, CallOK, NoCall
<1>2. PICK s \in Slots : s = call.on
  BY <1>1 DEF IsCall
<1>3. /\ call.rescuing /\ call.backedUp /\ Safe /\ disk[<<s, "bak">>] = call.before
      /\ Exists(<<s, "bak">>) /\ call.before # Nothing /\ call.before \in InSlot
      /\ Held(s) \in {call.before, call.to} /\ s # KeptSlot
  BY <1>1, <1>2 DEF Stage, Safe, File, Exists, IsCall
<1>4. PICK ok \in BOOLEAN : /\ Mutates(<<s, "save">>, call.before, ok)
                            /\ IF ok THEN Goes("drop") ELSE Fails
  BY <1>2, <1>3 DEF Restore
<1>5. /\ FilesOK' /\ LastSaveOK' /\ \A t \in Slots \ {s} : Held(t)' = Held(t)
      /\ disk'[<<s, "bak">>] = disk[<<s, "bak">>]
      /\ disk'[<<s, "deleted">>] = disk[<<s, "deleted">>]
      /\ disk'[<<s, "save">>] \in {call.before, disk[<<s, "save">>]}
      /\ ok => disk'[<<s, "save">>] = call.before
  BY <1>3, <1>4, OneFileMoves DEF Kinds, Restore
<1>6. Held(s)' \in {Held(s), call.before, call.to}
  BY <1>3, <1>5 DEF Held, Exists
<1>7. CASE ok
  <2>1. /\ call' = [on |-> call.on, to |-> call.to, before |-> call.before, at |-> "drop",
                    hadSave |-> call.hadSave, backedUp |-> call.backedUp,
                    rescuing |-> call.rescuing]
        /\ answer' = answer
    BY <1>1, <1>4, <1>7 DEF IsCall, Goes
  <2>2. Stage'
    BY <1>2, <1>3, <1>5, <1>7, <2>1 DEF Stage, File
  <2> QED
    BY <1>1, <1>2, <1>3, <1>5, <2>1, <2>2, GoingOnKeeps DEF IsCall
<1>8. CASE ~ok
  BY <1>1, <1>2, <1>4, <1>5, <1>6, <1>8, FailingKeeps
<1> QED
  BY <1>7, <1>8

\* The backup goes after it was restored.
LEMMA DropBackupKeeps == ASSUME Known, DropBackup PROVE Keeps
<1>1. IsCall /\ Stage /\ call.at = "drop"
  BY DEF DropBackup, Known, PromiseInv, CallOK, NoCall
<1>0. lastSave' = lastSave
  BY DEF DropBackup
<1>2. PICK s \in Slots : s = call.on
  BY <1>1 DEF IsCall
<1>3. /\ call.rescuing /\ call.backedUp /\ disk[<<s, "save">>] = call.before
      /\ call.before # Nothing /\ s # KeptSlot
  BY <1>1, <1>2 DEF Stage, File, IsCall
<1>4. PICK ok \in BOOLEAN : /\ Mutates(<<s, "bak">>, Nothing, ok)
                            /\ IF ok THEN Goes("unmark") ELSE Fails
  BY <1>2 DEF DropBackup, Removes
<1>5. /\ FilesOK' /\ LastSaveOK' /\ \A t \in Slots \ {s} : Held(t)' = Held(t)
      /\ disk'[<<s, "save">>] = disk[<<s, "save">>]
  BY <1>4, <1>0, AFileGoes DEF Kinds
<1>6. Held(s)' = Held(s)
  BY <1>3, <1>5 DEF Held, Exists
<1>7. CASE ok
  <2>1. /\ call' = [on |-> call.on, to |-> call.to, before |-> call.before, at |-> "unmark",
                    hadSave |-> call.hadSave, backedUp |-> call.backedUp,
                    rescuing |-> call.rescuing]
        /\ answer' = answer
    BY <1>1, <1>4, <1>7 DEF IsCall, Goes
  <2>2. Stage'
    BY <1>2, <1>3, <1>5, <2>1 DEF Stage, File
  <2> QED
    BY <1>1, <1>2, <1>3, <1>5, <2>1, <2>2, GoingOnKeeps DEF IsCall
<1>8. CASE ~ok
  BY <1>1, <1>2, <1>4, <1>5, <1>6, <1>8, FailingKeeps
<1> QED
  BY <1>7, <1>8

\* A marker hides the backup; it hides no save.
LEMMA MarkKeeps == ASSUME Known, Mark PROVE Keeps
<1>1. IsCall /\ Stage /\ call.at = "mark"
  BY DEF Mark, Known, PromiseInv, CallOK, NoCall
<1>2. PICK s \in Slots : s = call.on
  BY <1>1 DEF IsCall
<1>3. call.to = Nothing /\ Held(s) = call.before /\ ~call.backedUp
  BY <1>1, <1>2 DEF Stage
<1>4. PICK ok \in BOOLEAN : /\ Mutates(<<s, "deleted">>, Blank, ok)
                            /\ IF ok THEN Goes("unlink") ELSE Fails
  BY <1>2 DEF Mark
<1>5. /\ FilesOK' /\ LastSaveOK' /\ \A t \in Slots \ {s} : Held(t)' = Held(t)
      /\ disk'[<<s, "save">>] = disk[<<s, "save">>]
      /\ disk'[<<s, "bak">>] = disk[<<s, "bak">>]
      /\ disk'[<<s, "deleted">>] \in {Blank, disk[<<s, "deleted">>]}
      /\ ok => disk'[<<s, "deleted">>] = Blank
  BY <1>4, OneFileMoves DEF Kinds, Mark
<1>6. Blank # Nothing
  BY ConstantsOK
<1>7. Held(s)' \in {call.before, call.to}
  BY <1>3, <1>5, <1>6 DEF Held, Exists
<1>8. CASE ok
  <2>1. /\ call' = [on |-> call.on, to |-> call.to, before |-> call.before, at |-> "unlink",
                    hadSave |-> call.hadSave, backedUp |-> call.backedUp,
                    rescuing |-> call.rescuing]
        /\ answer' = answer
    BY <1>1, <1>4, <1>8 DEF IsCall, Goes
  <2>2. Stage'
    BY <1>2, <1>3, <1>5, <1>6, <1>7, <1>8, <2>1 DEF Stage, File
  <2> QED
    BY <1>1, <1>2, <1>3, <1>5, <2>1, <2>2, GoingOnKeeps DEF IsCall
<1>9. CASE ~ok
  BY <1>1, <1>2, <1>4, <1>5, <1>7, <1>9, FailingKeeps
<1> QED
  BY <1>8, <1>9

\* A marked slot without a save holds nothing.
LEMMA UnlinkKeeps == ASSUME Known, Unlink PROVE Keeps
<1>1. IsCall /\ Stage /\ call.at = "unlink"
  BY DEF Unlink, Known, PromiseInv, CallOK, NoCall
<1>0. lastSave' = lastSave
  BY DEF Unlink
<1>2. PICK s \in Slots : s = call.on
  BY <1>1 DEF IsCall
<1>3. call.to = Nothing /\ disk[<<s, "deleted">>] # Nothing
  BY <1>1, <1>2 DEF Stage, File
<1>4. PICK ok \in BOOLEAN :
        /\ IF Exists(<<s, "save">>) THEN Mutates(<<s, "save">>, Nothing, ok)
           ELSE ok /\ UNCHANGED <<disk, generation>>
        /\ IF ok THEN Ends(Told("done", s, Nothing)) ELSE Fails
  BY <1>2 DEF Unlink, Removes
<1>5. /\ FilesOK' /\ LastSaveOK' /\ \A t \in Slots \ {s} : Held(t)' = Held(t)
      /\ Held(s)' \in {Held(s), Nothing}
      /\ ok => Held(s)' = Nothing
  <2>1. CASE Exists(<<s, "save">>)
    <3>1. /\ FilesOK' /\ LastSaveOK' /\ \A t \in Slots \ {s} : Held(t)' = Held(t)
          /\ disk'[<<s, "deleted">>] = disk[<<s, "deleted">>]
          /\ disk'[<<s, "save">>] \in {Nothing, disk[<<s, "save">>]}
          /\ ok => disk'[<<s, "save">>] = Nothing
      BY <1>4, <2>1, <1>0, AFileGoes DEF Kinds
    <3> QED
      BY <1>3, <2>1, <3>1 DEF Held, Exists
  <2>2. CASE ~Exists(<<s, "save">>)
    <3>1. FilesOK' /\ LastSaveOK' /\ \A t \in Slots : Held(t)' = Held(t)
      BY <1>4, <2>2, NothingMoves DEF Unlink
    <3>2. Held(s) = Nothing
      BY <1>3, <2>2 DEF Held, Exists
    <3> QED
      BY <3>1, <3>2
  <2> QED
    BY <2>1, <2>2
<1>6. CASE ok
  <2>1. call' = NoCall /\ answer' = Told("done", s, call.to)
    BY <1>3, <1>4, <1>6 DEF Ends
  <2>2. Slot!Next
    BY <1>1, <1>2, <1>3, <1>5, <1>6, <2>1, TellingSucceeds
  <2> QED
    BY <1>5, <2>1, <2>2 DEF Keeps, PromiseInv, CallOK
<1>7. CASE ~ok
  BY <1>1, <1>2, <1>3, <1>4, <1>5, <1>7, FailingKeeps
<1> QED
  BY <1>6, <1>7

\* What a slot holds is progress or nothing.
LEMMA HeldInSlot ==
  ASSUME FilesOK, NEW s \in Slots
  PROVE  Held(s) \in InSlot
BY DEF FilesOK, Held, InSlot

\* A call that begins is a task that begins.
LEMMA AskingKeeps ==
  ASSUME Known, call = NoCall, NEW s \in Slots, NEW p \in InSlot, NEW at \in {"backup", "save", "mark"},
         Asks(s, p, at), UNCHANGED <<disk, generation>>, LastSaveOK',
         at = "mark" <=> p = Nothing, at = "backup" => s # KeptSlot
  PROVE  Keeps
<1> DEFINE saved == LocalSaveExists(CurrentReadBurst, s)
<1>1. saved = (Held(s) # Nothing)
  BY CurrentAgrees, ReadsTell DEF Known, LocalSaveExists
<1>2. /\ answer' = NoAnswer
      /\ call' = [on |-> s, to |-> p, before |-> Held(s), at |-> at,
                  hadSave |-> saved, backedUp |-> FALSE, rescuing |-> FALSE]
  BY DEF Asks
<1> HIDE DEF saved
<1>3. FilesOK' /\ \A t \in Slots : Held(t)' = Held(t)
  BY DEF Known, PromiseInv, FilesOK, Held, Exists
<1>4. saved \in BOOLEAN
  BY <1>1
<1>5. IsCall'
  BY <1>2, <1>4, HeldInSlot DEF IsCall, Known, PromiseInv
<1>6. Stage'
  BY <1>1, <1>2, <1>3 DEF Stage
<1>7. Task' = [on |-> s, before |-> Held(s), to |-> p]
  BY <1>2 DEF Task
<1>8. Task = Slot!Idle
  BY DEF Task, NoCall, Slot!Idle
<1>9. Slot!Begin
  BY <1>2, <1>3, <1>7, <1>8 DEF Slot!Begin, NoAnswer, InSlot
<1> QED
  BY <1>3, <1>5, <1>6, <1>9 DEF Keeps, PromiseInv, CallOK, Slot!Next

\* The calls begin with their slot as it is.
LEMMA SaveGameKeeps ==
  ASSUME Known, NEW s \in Slots, NEW p \in Progress, SaveGame(s, p)
  PROVE  Keeps
<1>1. LastSaveOK'
  BY NothingMoves DEF SaveGame
<1>2. p # Nothing /\ p \in InSlot
  BY ConstantsOK DEF InSlot
<1> QED
  BY <1>1, <1>2, AskingKeeps DEF SaveGame

\* A removal asks for nothing.
LEMMA RemoveKeeps == ASSUME Known, NEW s \in Slots, Remove(s) PROVE Keeps
<1>1. LastSaveOK'
  BY NothingMoves DEF Remove
<1>2. Nothing \in InSlot
  BY DEF InSlot
<1> QED
  BY <1>1, <1>2, AskingKeeps DEF Remove

\* What was saved last and not mutated since is held.
LEMMA KeepKeeps == ASSUME Known, NEW p \in Progress, Keep(p) PROVE Keeps
<1>1. p # Nothing /\ p \in InSlot /\ KeptSlot \in Slots
  BY ConstantsOK DEF InSlot
<1>2. CASE Remembered(p)
  <2>1. /\ UNCHANGED <<disk, generation, call, lastSave>>
        /\ call = NoCall /\ answer' = Told("done", KeptSlot, p)
    BY <1>2 DEF Keep
  <2>2. disk[<<KeptSlot, "save">>] = p
    BY <1>2 DEF Known, PromiseInv, LastSaveOK, Remembered
  <2>3. Held(KeptSlot) = p
    BY <1>1, <2>2 DEF Held, Exists
  <2>4. FilesOK' /\ LastSaveOK' /\ \A t \in Slots : Held(t)' = Held(t)
    BY <2>1, NothingMoves
  <2>5. Task = Slot!Idle /\ Task' = Task
    BY <2>1 DEF Task, NoCall, Slot!Idle
  <2>6. Slot!Repeat
    BY <1>1, <2>1, <2>3, <2>4, <2>5 DEF Slot!Repeat, Slot!Told, Told
  <2> QED
    BY <2>1, <2>4, <2>6 DEF Keeps, PromiseInv, CallOK, Slot!Next
<1>3. CASE ~Remembered(p)
  <2>1. /\ Asks(KeptSlot, p, "save") /\ lastSave' = Forgotten
        /\ UNCHANGED <<disk, generation>> /\ call = NoCall
    BY <1>3 DEF Keep
  <2>2. LastSaveOK'
    BY <2>1, ConstantsOK DEF LastSaveOK, Forgotten, Known, IInv
  <2> QED
    BY <1>1, <2>1, <2>2, AskingKeeps
<1> QED
  BY <1>2, <1>3

\* A load tells what the slot holds.
LEMMA LoadKeeps == ASSUME Known, NEW s \in Slots, Load(s) PROVE Keeps
<1>1. /\ call = NoCall /\ UNCHANGED <<disk, generation, call>>
      /\ answer' = Told("loaded", s, Held(s))
  BY CurrentAgrees, ReadsTell DEF Load, Known
<1>2. FilesOK' /\ \A t \in Slots : Held(t)' = Held(t)
  BY <1>1 DEF Known, PromiseInv, FilesOK, Held, Exists
<1>3. LastSaveOK'
  BY <1>1, ConstantsOK DEF Load, LastSaveOK, Forgotten, Known, IInv, PromiseInv
<1>4. Task = Slot!Idle /\ Task' = Task
  BY <1>1 DEF Task, NoCall, Slot!Idle
<1>5. Slot!Load
  BY <1>1, <1>2, <1>4 DEF Slot!Load, Slot!Told, Told
<1> QED
  BY <1>1, <1>2, <1>3, <1>5 DEF Keeps, PromiseInv, CallOK, Slot!Next

\* The end of the process cuts a call and moves no file.
LEMMA RestartKeeps == ASSUME Known, Restart PROVE Keeps
<1>1. /\ disk' = disk /\ call' = NoCall /\ answer' = [told |-> "none"]
      /\ generation' = 0 /\ lastSave' = [generation |-> 0, progress |-> Nothing]
  BY DEF Restart, NoAnswer, Forgotten
<1>2. FilesOK' /\ \A t \in Slots : Held(t)' = Held(t)
  BY <1>1 DEF Known, PromiseInv, FilesOK, Held, Exists
<1>3. LastSaveOK'
  BY <1>1, ConstantsOK DEF LastSaveOK
<1>4. Task' = Slot!Idle
  BY <1>1 DEF Task, NoCall, Slot!Idle
<1>5. Slot!Restart
  BY <1>1, <1>2, <1>4 DEF Slot!Restart
<1> QED
  BY <1>1, <1>2, <1>3, <1>5 DEF Keeps, PromiseInv, CallOK, Slot!Next

\* The end of a turn, and a step of something else, move nothing here.
LEMMA RestingKeeps ==
  ASSUME Known, UNCHANGED <<disk, generation, call, lastSave, answer>>
  PROVE  Keeps
BY DEF Keeps, promised, Known, PromiseInv, FilesOK, LastSaveOK, CallOK, IsCall, Stage, Safe, File,
       Held, Exists, Task

\* Every action keeps the promise.
LEMMA NextKeepsThePromise == Known /\ [Next]_vars => Keeps
<1> SUFFICES ASSUME Known, [Next]_vars PROVE Keeps
  OBVIOUS
<1>1. CASE Step
  BY <1>1, BackUpKeeps, WriteSaveKeeps, UnmarkKeeps, WriteIndexKeeps, CleanBackupKeeps,
     RestoreKeeps, DropBackupKeeps, MarkKeeps, UnlinkKeeps DEF Step
<1>2. CASE Checkpoint
  BY <1>2, RestingKeeps DEF Checkpoint
<1>3. CASE UNCHANGED vars
  BY <1>3, RestingKeeps DEF vars
<1> QED
  BY <1>1, <1>2, <1>3, RestartKeeps, SaveGameKeeps, RemoveKeeps, LoadKeeps, KeepKeeps DEF Next

\* Every file a game, a failed write or the end of the process can leave is a
\* slot of the promise: a call moves its slot only from what it held to what
\* it asks for or back, what a call tells is so, and neither a marker nor a
\* backup changes what a slot holds behind the game's back
\* (storage.js:147-199, save-recovery.js:12-28, persistent-storage.js:144-175).
THEOREM SavedSlotsImplemented == Spec => SlotsKeepTheirPromise
<1>1. Init => Known /\ Slot!Init
  <2> SUFFICES ASSUME Init PROVE Known /\ Slot!Init
    OBVIOUS
  <2>1. disk \in [Files -> Progress \cup {Nothing}]
    BY DEF Init
  <2>2. \A s \in Slots, k \in Kinds : <<s, k>> \in Files
    BY DEF Files
  <2>3. FilesOK
    <3>1. disk \in [Files -> Progress \cup {Blank, Nothing}]
      BY <2>1
    <3>2. \A s \in Slots, k \in Kinds : disk[<<s, k>>] \in InSlot
      BY <2>1, <2>2 DEF InSlot
    <3> QED
      BY <3>1, <3>2 DEF FilesOK, Kinds
  <2>4. LastSaveOK
    BY ConstantsOK DEF Init, LastSaveOK, Forgotten
  <2>5. IInv
    BY NoBurstAgrees DEF Init, IInv, BurstIsFresh, IsBurst, NoBurst
  <2>6. Task = Slot!Idle
    BY DEF Init, Task, NoCall, Slot!Idle
  <2>7. [s \in Slots |-> Held(s)] \in [Slots -> Progress \cup {Nothing}]
    BY <2>3, HeldInSlot DEF InSlot
  <2> QED
    BY <2>3, <2>4, <2>5, <2>6, <2>7
       DEF Known, PromiseInv, CallOK, Init, NoAnswer, Slot!Init
<1>2. Known /\ [Next]_vars => Known' /\ [Slot!Next]_promised
  BY NextKeeps, NextKeepsThePromise DEF Known, Keeps
<1> QED
  BY <1>1, <1>2, PTL DEF Spec, SlotsKeepTheirPromise, Slot!Spec, promised
=============================================================================
