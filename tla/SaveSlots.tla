------------------------------ MODULE SaveSlots ------------------------------
(***************************************************************************)
(* The save slots of an RPG Maker MV game: js/pmjs-mv/storage.js over      *)
(* runner/storage.cjs.  A slot is three files, the save, its backup and    *)
(* the marker of a deliberate deletion, each written by one atomic rename  *)
(* or unlinked.  The guest's calls take several such steps; each may fail, *)
(* before or after it changed the disk, and the process may end between    *)
(* two of them.  Reads of one turn share a burst that is good for one      *)
(* storage generation.  The game saves as patches/isat/save-recovery.js    *)
(* does, and KeptSlot is saved by patches/isat/persistent-storage.js.      *)
(***************************************************************************)
EXTENDS Naturals

CONSTANTS Slots,          \* save slots
          KeptSlot,       \* the slot of the progress kept across play-throughs
          Progress,       \* what a game may save
          Blank,          \* the text of a deletion marker
          Nothing,        \* no file, or no progress
          Unread,         \* a query a burst has not made
          MaxGeneration   \* bound on the mutations of one process

ASSUME ConstantsOK ==
  /\ KeptSlot \in Slots /\ MaxGeneration \in Nat
  /\ Nothing \notin Progress \cup {Blank} /\ Blank \notin Progress
  /\ Unread \notin Progress \cup {Blank, Nothing} \cup BOOLEAN

VARIABLES disk,        \* the files: [Files -> contents]
          generation,  \* mutationGeneration of the storage
          burst,       \* readBurst
          call,        \* the guest call in progress, between two of its disk steps
          lastSave,    \* what persistent-storage.js remembers of its last save
          answer       \* what the last call of the guest returned

vars == <<disk, generation, burst, call, lastSave, answer>>

Kinds == {"save", "bak", "deleted"}
Files == Slots \X Kinds
Forgotten == [generation |-> 0, progress |-> Nothing]
NoBurst == [generation |-> 0, loads |-> [f \in Files |-> Unread], exists |-> [f \in Files |-> Unread]]
NoCall == [on |-> KeptSlot, at |-> "idle"]
NoAnswer == [told |-> "none"]

Exists(f) == disk[f] # Nothing

\* What a process that starts now finds in a slot (the abstract slot).
Held(s) == IF Exists(<<s, "save">>) THEN disk[<<s, "save">>]
           ELSE IF ~Exists(<<s, "deleted">>) THEN disk[<<s, "bak">>] ELSE Nothing

Init == /\ disk \in [Files -> Progress \cup {Nothing}]
        /\ \A s \in Slots : ~Exists(<<s, "deleted">>)
        /\ generation = 0 /\ burst = NoBurst /\ call = NoCall
        /\ lastSave = Forgotten /\ answer = NoAnswer

----------------------------------------------------------------------------
(* Reads.                                                                  *)

CurrentReadBurst == IF burst.generation = generation THEN burst
                    ELSE [NoBurst EXCEPT !.generation = generation]

CachedExists(b, f) == IF b.exists[f] = Unread THEN Exists(f) ELSE b.exists[f]
CachedText(b, f) == IF b.loads[f] = Unread THEN disk[f] ELSE b.loads[f]

\* The files a query of slot s asks for: whether they exist, and their text.
AsksBackup(b, s) ==
  {<<s, "bak">>} \cup (IF CachedExists(b, <<s, "bak">>) THEN {<<s, "deleted">>} ELSE {})
BackupCounts(b, s) == CachedExists(b, <<s, "bak">>) /\ ~CachedExists(b, <<s, "deleted">>)

Asked(b, exists, loads) ==
  [b EXCEPT !.exists = [f \in Files |-> IF f \in exists THEN CachedExists(b, f) ELSE @[f]],
            !.loads = [f \in Files |-> IF f \in loads THEN CachedText(b, f) ELSE @[f]]]

LocalSaveExists(b, s) == CachedExists(b, <<s, "save">>) \/ BackupCounts(b, s)
AfterExists(b, s) ==
  Asked(b, {<<s, "save">>} \cup
           (IF CachedExists(b, <<s, "save">>) THEN {} ELSE AsksBackup(b, s)), {})

ReadLocalSave(b, s) == IF CachedText(b, <<s, "save">>) # Nothing THEN CachedText(b, <<s, "save">>)
                       ELSE IF BackupCounts(b, s) THEN CachedText(b, <<s, "bak">>) ELSE Nothing
AfterRead(b, s) ==
  LET missing == CachedText(b, <<s, "save">>) = Nothing IN
  Asked(b, IF missing THEN AsksBackup(b, s) ELSE {},
        {<<s, "save">>} \cup IF missing /\ BackupCounts(b, s) THEN {<<s, "bak">>} ELSE {})

----------------------------------------------------------------------------
(* One mutation of the storage.  It counts before it is tried; it may fail *)
(* with the disk unchanged, or changed but not synced.                     *)

\* Mutant of Mutates: only a mutation that succeeds counts.
MutatesCounted(f, contents, ok) ==
  /\ generation < MaxGeneration
  /\ generation' = IF ok THEN generation + 1 ELSE generation
  /\ \/ disk' = [disk EXCEPT ![f] = contents]
     \/ ~ok /\ UNCHANGED disk

Mutates(f, contents, ok) ==
  /\ generation < MaxGeneration
  /\ generation' = generation + 1
  /\ \/ disk' = [disk EXCEPT ![f] = contents]
     \/ ~ok /\ UNCHANGED disk

\* remove() of a file that is not there returns quietly.
Removes(f, ok) == Mutates(f, Nothing, ok) /\ (Exists(f) \/ ok)

Told(what, s, p) == [told |-> what, on |-> s, held |-> p]
Ends(told) == call' = NoCall /\ answer' = told
Fails == Ends([told |-> "failed"])
Goes(at) == call' = [call EXCEPT !.at = at] /\ UNCHANGED answer

\* A step of saveGame() threw: the previous progress is restored if it was backed up.
Throws == IF call.backedUp /\ ~call.rescuing
          THEN call' = [call EXCEPT !.at = "restore", !.rescuing = TRUE] /\ UNCHANGED answer
          ELSE Fails

----------------------------------------------------------------------------
(* Calls of the guest.                                                     *)

Asks(s, p, at) ==
  /\ answer' = NoAnswer
  /\ call' = [on |-> s, to |-> p, before |-> Held(s), at |-> at,
           hadSave |-> LocalSaveExists(CurrentReadBurst, s), backedUp |-> FALSE, rescuing |-> FALSE]

\* DataManager.saveGame: exists(), backup(), save(), the index, then true.
SaveGame(s, p) ==
  /\ call = NoCall /\ s # KeptSlot
  /\ Asks(s, p, "backup")
  /\ burst' = AfterExists(CurrentReadBurst, s)
  /\ UNCHANGED <<disk, generation, lastSave>>

BackUp ==
  /\ call.at = "backup"
  /\ LET s == call.on
         b == AfterExists(CurrentReadBurst, s)
     IN IF LocalSaveExists(b, s)
        THEN \E ok \in BOOLEAN :
               /\ burst' = AfterRead(b, s)
               /\ Mutates(<<s, "bak">>, ReadLocalSave(b, s), ok)
               /\ IF ok THEN /\ call' = [call EXCEPT !.at = "save", !.backedUp = call.hadSave]
                             /\ UNCHANGED answer
                        ELSE Fails
        ELSE /\ burst' = b
             /\ Goes("save")
             /\ UNCHANGED <<disk, generation>>
  /\ UNCHANGED lastSave

WriteSave ==
  /\ call.at = "save"
  /\ \E ok \in BOOLEAN : /\ Mutates(<<call.on, "save">>, call.to, ok)
                         /\ IF ok THEN Goes("unmark") ELSE Throws
  /\ UNCHANGED <<burst, lastSave>>

\* A save or a restore that went through revives the slot.
Unmark ==
  /\ call.at = "unmark"
  /\ \E ok \in BOOLEAN :
       /\ IF Exists(<<call.on, "save">>) THEN Removes(<<call.on, "deleted">>, ok)
          ELSE ok /\ UNCHANGED <<disk, generation>>
       /\ IF call.rescuing THEN Fails
          ELSE IF ~ok THEN Throws
          ELSE IF call.on = KeptSlot THEN Ends(Told("done", call.on, call.to))
          ELSE Goes("index")
       /\ lastSave' = IF ok /\ call.on = KeptSlot
                      THEN [generation |-> generation', progress |-> call.to] ELSE lastSave
  /\ UNCHANGED burst

\* The index of all saves is another file; then saveGame() returns true.
WriteIndex ==
  /\ call.at = "index" /\ generation < MaxGeneration
  /\ generation' = generation + 1
  /\ \/ call' = [call EXCEPT !.at = "clean"] /\ answer' = Told("done", call.on, call.to)
     \/ Throws
  /\ UNCHANGED <<disk, burst, lastSave>>

\* The scene that saved drops the backup.
CleanBackup ==
  /\ call.at = "clean"
  /\ call' = NoCall
  /\ IF Exists(<<call.on, "bak">>) THEN \E ok \in BOOLEAN : Removes(<<call.on, "bak">>, ok)
     ELSE UNCHANGED <<disk, generation>>
  /\ UNCHANGED <<burst, lastSave, answer>>

\* restoreBackup(): the backup is written back, dropped, and the slot revived.
Restore ==
  /\ call.at = "restore"
  /\ \/ /\ Exists(<<call.on, "bak">>)
        /\ \E ok \in BOOLEAN : /\ Mutates(<<call.on, "save">>, disk[<<call.on, "bak">>], ok)
                               /\ IF ok THEN Goes("drop") ELSE Fails
     \/ ~Exists(<<call.on, "bak">>) /\ Goes("unmark") /\ UNCHANGED <<disk, generation>>
  /\ UNCHANGED <<burst, lastSave>>

DropBackup ==
  /\ call.at = "drop"
  /\ \E ok \in BOOLEAN : /\ Removes(<<call.on, "bak">>, ok)
                         /\ IF ok THEN Goes("unmark") ELSE Fails
  /\ UNCHANGED <<burst, lastSave>>

\* removeLocalFile(): the marker first, then the save.
Remove(s) ==
  /\ call = NoCall
  /\ Asks(s, Nothing, "mark")
  /\ UNCHANGED <<disk, generation, burst, lastSave>>

\* Mutant of Mark: the save is unlinked without a marker.
MarkNothing ==
  /\ call.at = "mark" /\ Goes("unlink")
  /\ UNCHANGED <<disk, generation, burst, lastSave>>

Mark ==
  /\ call.at = "mark"
  /\ \E ok \in BOOLEAN : /\ Mutates(<<call.on, "deleted">>, Blank, ok)
                         /\ IF ok THEN Goes("unlink") ELSE Fails
  /\ UNCHANGED <<burst, lastSave>>

Unlink ==
  /\ call.at = "unlink"
  /\ \E ok \in BOOLEAN :
       /\ IF Exists(<<call.on, "save">>) THEN Removes(<<call.on, "save">>, ok)
          ELSE ok /\ UNCHANGED <<disk, generation>>
       /\ IF ok THEN Ends(Told("done", call.on, Nothing)) ELSE Fails
  /\ UNCHANGED <<burst, lastSave>>

\* StorageManager.save of the kept slot: what was saved last is not saved again.
Remembered(p) == lastSave.progress = p /\ lastSave.generation = generation

Keep(p) ==
  /\ call = NoCall
  /\ IF Remembered(p)
     THEN answer' = Told("done", KeptSlot, p) /\ UNCHANGED <<call, lastSave>>
     ELSE Asks(KeptSlot, p, "save") /\ lastSave' = Forgotten
  /\ UNCHANGED <<disk, generation, burst>>

\* loadFromLocalFile(); the kept slot forgets its last save.
Load(s) ==
  /\ call = NoCall
  /\ burst' = AfterRead(CurrentReadBurst, s)
  /\ answer' = Told("loaded", s, ReadLocalSave(CurrentReadBurst, s))
  /\ lastSave' = IF s = KeptSlot THEN Forgotten ELSE lastSave
  /\ UNCHANGED <<disk, generation, call>>

----------------------------------------------------------------------------
\* The turn ends: its microtask drops the burst.
Checkpoint == /\ call = NoCall /\ burst # NoBurst
              /\ burst' = NoBurst
              /\ UNCHANGED <<disk, generation, call, lastSave, answer>>

\* The process ends anywhere and starts again on what is on disk.
Restart == /\ generation' = 0 /\ burst' = NoBurst /\ call' = NoCall
           /\ lastSave' = Forgotten /\ answer' = NoAnswer
           /\ UNCHANGED disk

Step == BackUp \/ WriteSave \/ Unmark \/ WriteIndex \/ CleanBackup \/ Restore \/ DropBackup
        \/ Mark \/ Unlink

Next == \/ Step \/ Checkpoint \/ Restart
        \/ \E s \in Slots, p \in Progress : SaveGame(s, p)
        \/ \E s \in Slots : Remove(s) \/ Load(s)
        \/ \E p \in Progress : Keep(p)

Spec == Init /\ [][Next]_vars

----------------------------------------------------------------------------
(* Properties.                                                             *)

\* Whatever steps a call takes, which of them fails and where the process
\* ends, each slot moves only from what it held to what the call asks for or
\* back, "done" and "loaded" tell the truth, and a restart moves nothing: a
\* deleted slot is not revived by its backup and a good one is not hidden by
\* a marker (storage.js:147-199, save-recovery.js:12-28,
\* persistent-storage.js:144-175).
Task == IF call.at \in {"idle", "clean"} THEN [on |-> "idle"]
        ELSE [on |-> call.on, before |-> call.before, to |-> call.to]
Slot == INSTANCE SavedSlots WITH slot <- [s \in Slots |-> Held(s)], task <- Task
SlotsKeepTheirPromise == Slot!Spec

\* A burst of the current generation agrees with the disk on every file it
\* has read, after any mutation, complete or not (storage.js:89-115 with
\* runner/storage.cjs, where the generation advances before the attempt).
BurstIsFresh ==
  burst.generation = generation =>
    \A f \in Files : /\ burst.loads[f] \in {Unread, disk[f]}
                     /\ burst.exists[f] \in {Unread, Exists(f)}
=============================================================================
