--------------------------- MODULE GameFilesystem ---------------------------
(***************************************************************************)
(* createGameFilesystem of runner/storage.cjs with the overlay of          *)
(* src/vfs.cpp: a read-only game tree, and on disk a tree of files that    *)
(* shadow it, deletion markers that hide it, a staging directory and the   *)
(* journal of a rename. The process works with an index of the two trees   *)
(* that it mounts when it starts and updates after each mutation.          *)
(*                                                                         *)
(* A mutation is synchronous, so operations do not interleave, but between *)
(* any two of its steps the process may die, or a step may fail and the    *)
(* mutation throw. Each step here is one the code makes durable before the *)
(* next, except for removals that recovery repeats.                        *)
(*                                                                         *)
(* Names are compared without their case: a rename to another spelling of  *)
(* the same name is a rename of a path to itself.                          *)
(*                                                                         *)
(* The temporary files of atomic writes are not among the paths. One that  *)
(* a crash leaves behind only adds refusals (ENOTEMPTY) to mutations that  *)
(* may fail here anyway.                                                   *)
(***************************************************************************)
EXTENDS Naturals, Sequences

CONSTANTS
  Component,  \* one name of a path, without its case
  Path,       \* sequences of components; every prefix of a path is one
  Written,    \* contents the game writes
  Partial,    \* a file that was created and not filled
  Original,   \* the read-only tree of the game
  Dir, Absent,
  Nothing,    \* no journal, no staging directory, no operation
  Moved       \* the staging directory once its value was installed

Content == Written \cup {Partial} \cup ({Original[p] : p \in Path} \ {Dir, Absent})
Node == Content \cup {Dir, Absent}

Under(p, q) == Len(p) <= Len(q) /\ SubSeq(q, 1, Len(p)) = p
Below(p) == {q \in Path : Under(p, q)}
Above(p) == {q \in Path : q # p /\ Under(q, p)}

IsTree(t) == \A p \in Path : t[p] # Absent => \A q \in Above(p) : t[q] = Dir

VARIABLES
  files,     \* disk: files/, the nodes that shadow the game
  deleted,   \* disk: deleted/, the paths that hide it
  staging,   \* disk: the staging directory, as the nodes its value will install
  journal,   \* disk: rename.json
  process,   \* "down", "mounting" or "up"
  index,     \* the overlay the process resolves names with
  changed,   \* changedPaths and changedMarkers
  op,        \* the mutation in progress; Nothing in recovery, or once it throws
  pc         \* its next step

disk == <<files, deleted, staging, journal>>
vars == <<disk, process, index, changed, op, pc>>

Unchanged == [paths |-> {}, markers |-> {}]
NoIndex == [files |-> [p \in Path |-> Absent], deleted |-> {}]

Kinds == {"write", "create", "makeDirectory", "remove", "removeDirectory", "removeTree"}

Operation ==
  [kind: {"write", "create"}, path: Path, to: {Nothing}, content: Written] \cup
  [kind: Kinds \ {"write", "create"}, path: Path, to: {Nothing}, content: {Nothing}] \cup
  [kind: {"rename"}, path: Path, to: Path, content: {Nothing}]

\* What the journal of a rename says.
Renames == [source: Path, destination: Path, directory: BOOLEAN]

ASSUME GameFilesystemAssumption ==
  /\ Path \subseteq Seq(Component)
  /\ \A p \in Path : Len(p) > 0 /\ \A n \in 1 .. Len(p) : SubSeq(p, 1, n) \in Path
  /\ Original \in [Path -> Node] /\ IsTree(Original)
  /\ Dir # Absent /\ {Dir, Absent} \cap (Written \cup {Partial}) = {} /\ Partial \notin Written
  /\ Nothing \notin Operation \cup Renames
  /\ {Nothing, Moved} \cap [Path -> Node] = {}

Steps == {"idle", "check", "parents", "create", "store", "hide", "erase", "stage",
          "journal", "install", "hideSource", "hideDestination", "eraseSource",
          "removeStaging", "removeJournal", "publish", "mount"}

-----------------------------------------------------------------------------
(* Resolution of names (Vfs::exists, isDirectory and resolveOriginal).     *)

Hides(hidden, p) == \E q \in Above(p) \cup {p} : q \in hidden

View(shadow, hidden, p) ==
  IF \E q \in Above(p) : shadow[q] \in Content THEN Absent
  ELSE IF shadow[p] # Absent THEN shadow[p]
  ELSE IF Hides(hidden, p) THEN Absent
  ELSE Original[p]

Seen(p) == View(index.files, index.deleted, p)
SeenChildren(p) == {q \in Below(p) \ {p} : Seen(q) # Absent}
ParentSeen(p) == \A q \in Above(p) : Seen(q) = Dir

\* Mutant of Reindexed: the directories above a changed path are not read.
ReindexedBelow ==
  [files |-> [p \in Path |-> IF \E q \in changed.paths : Under(q, p) THEN files[p]
                             ELSE index.files[p]],
   deleted |-> index.deleted \cup (changed.markers \cap deleted)]

\* updateWritableOverlay: the changed paths with what is below them, and the
\* directories above them, are read from the disk again.
Reindexed ==
  [files |-> [p \in Path |->
     IF \E q \in changed.paths : Under(q, p) \/ (p \in Above(q) /\ files[p] # Absent)
     THEN files[p] ELSE index.files[p]],
   deleted |-> index.deleted \cup (changed.markers \cap deleted)]

-----------------------------------------------------------------------------
Init ==
  /\ files = [p \in Path |-> Absent]
  /\ deleted = {}
  /\ staging = Nothing
  /\ journal = Nothing
  /\ process = "down"
  /\ index = NoIndex
  /\ changed = Unchanged
  /\ op = Nothing
  /\ pc = "idle"

Intent == [paths |-> {journal.source, journal.destination}, markers |-> {}]

\* recoverRename(true): staging directories without a journal are removed.
Start ==
  /\ process = "down"
  /\ process' = "mounting"
  /\ IF journal = Nothing
     THEN pc' = "mount" /\ staging' = Nothing /\ UNCHANGED changed
     ELSE pc' = "install" /\ changed' = Intent /\ UNCHANGED staging
  /\ UNCHANGED <<files, deleted, journal, index, op>>

Mount ==
  /\ pc = "mount"
  /\ index' = [files |-> files, deleted |-> deleted]
  /\ process' = "up"
  /\ pc' = "idle"
  /\ changed' = Unchanged
  /\ UNCHANGED <<disk, op>>

Names(o) == {o.path} \cup (IF o.kind = "rename" THEN {o.to} ELSE {})

\* mutate() completes a rename that was interrupted before anything else.
\* Here its recovery is a mutation of its own, and what the game asked for
\* is chosen (or chosen anew) when it is done.
BeginRecovery ==
  /\ process = "up" /\ pc = "idle"
  /\ journal # Nothing
  /\ pc' = "install"
  /\ changed' = Intent
  /\ UNCHANGED <<disk, process, index, op>>

Begin(o) ==
  /\ process = "up" /\ pc = "idle"
  /\ journal = Nothing
  /\ op' = o
  /\ pc' = "check"
  /\ changed' = [Unchanged EXCEPT !.paths = Names(o)]
  /\ UNCHANGED <<disk, process, index>>

Destination(p, from, to) == to \o SubSeq(p, Len(from) + 1, Len(p))

\* The checks of rename(); the last conjunct bounds the model: the subtree
\* must have its place among the paths.
RenameAllowed(from, to) ==
  /\ Seen(from) # Absent
  /\ from = to \/ ~Under(from, to)
  /\ (from # to /\ Seen(to) # Absent) =>
       /\ ~Under(to, from)
       /\ Seen(from) = Dir <=> Seen(to) = Dir
       /\ SeenChildren(to) = {}
  /\ ParentSeen(to)
  /\ \A p \in Below(from) : Seen(p) # Absent => Destination(p, from, to) \in Path

Allowed(o) ==
  CASE o.kind = "write" -> Seen(o.path) # Dir /\ ParentSeen(o.path)
    [] o.kind = "create" -> Seen(o.path) = Absent /\ ParentSeen(o.path)
    [] o.kind = "makeDirectory" ->
         Seen(o.path) = Absent /\ \A q \in Above(o.path) : Seen(q) \in {Dir, Absent}
    [] o.kind = "remove" -> Seen(o.path) \in Content
    [] o.kind = "removeDirectory" -> Seen(o.path) = Dir /\ SeenChildren(o.path) = {}
    [] o.kind = "removeTree" -> Seen(o.path) = Dir
    [] o.kind = "rename" -> RenameAllowed(o.path, o.to)

FirstStep(o) ==
  IF o.kind \in {"remove", "removeDirectory", "removeTree"} THEN "hide" ELSE "parents"

Check ==
  /\ pc = "check"
  /\ IF Allowed(op) THEN pc' = FirstStep(op) /\ UNCHANGED op
     ELSE pc' = "publish" /\ op' = Nothing
  /\ UNCHANGED <<disk, process, index, changed>>

-----------------------------------------------------------------------------
(* Steps of the mutations.                                                 *)

Target == IF op.kind = "rename" THEN op.to ELSE op.path

\* files.makeDirectory() makes the missing directories from the top down.
Parents ==
  /\ pc = "parents"
  /\ LET missing == {q \in Above(Target) : files[q] = Absent} IN
     IF missing = {}
     THEN /\ pc' = CASE op.kind = "rename" -> "stage"
                     [] op.kind = "create" -> "create"
                     [] OTHER -> "store"
          /\ UNCHANGED files
     ELSE /\ \E q \in missing : /\ Above(q) \cap missing = {}
                                /\ files' = [files EXCEPT ![q] = Dir]
          /\ UNCHANGED pc
  /\ UNCHANGED <<deleted, staging, journal, process, index, changed, op>>

\* Exclusive creation ('wx') opens the file in place and then fills it.
Create ==
  /\ pc = "create"
  /\ files' = [files EXCEPT ![op.path] = Partial]
  /\ pc' = "store"
  /\ UNCHANGED <<deleted, staging, journal, process, index, changed, op>>

\* A replacement writes a temporary file and renames it over the old one.
Store ==
  /\ pc = "store"
  /\ files' = [files EXCEPT ![op.path] = IF op.kind = "makeDirectory" THEN Dir ELSE op.content]
  /\ pc' = "publish"
  /\ UNCHANGED <<deleted, staging, journal, process, index, changed, op>>

\* Mutant of Hide: the marker is written only when no file is to be erased.
HideUnlessErased ==
  /\ pc = "hide"
  /\ deleted' = IF files[op.path] = Absent THEN deleted \cup {op.path} ELSE deleted
  /\ changed' = [changed EXCEPT !.markers = @ \cup {op.path}]
  /\ pc' = "erase"
  /\ UNCHANGED <<files, staging, journal, process, index, op>>

Hide ==
  /\ pc = "hide"
  /\ deleted' = deleted \cup {op.path}
  /\ changed' = [changed EXCEPT !.markers = @ \cup {op.path}]
  /\ pc' = "erase"
  /\ UNCHANGED <<files, staging, journal, process, index, op>>

\* unlinkSync() or rmSync(recursive): the nodes go one at a time, from the leaves.
EraseBelow(p) ==
  \E leaf \in Below(p) :
    /\ files[leaf] # Absent
    /\ \A q \in Below(leaf) \ {leaf} : files[q] = Absent
    /\ files' = [files EXCEPT ![leaf] = Absent]

EraseAll(p, next) ==
  /\ IF files[p] # Absent THEN EraseBelow(p) /\ UNCHANGED pc
     ELSE pc' = next /\ UNCHANGED files
  /\ UNCHANGED <<deleted, staging, journal, process, index, changed, op>>

Erase == pc = "erase" /\ EraseAll(op.path, "publish")

\* copy() into a new staging directory, which nothing refers to yet.
Stage ==
  /\ pc = "stage"
  /\ staging' = [p \in Path |->
       LET origins == {q \in Below(op.path) : Destination(q, op.path, op.to) = p} IN
       IF origins = {} THEN Absent ELSE Seen(CHOOSE q \in origins : TRUE)]
  /\ pc' = "journal"
  /\ UNCHANGED <<files, deleted, journal, process, index, changed, op>>

Journal ==
  /\ pc = "journal"
  /\ journal' = [source |-> op.path, destination |-> op.to,
                 directory |-> Seen(op.path) = Dir]
  /\ pc' = "install"
  /\ UNCHANGED <<files, deleted, staging, process, index, changed, op>>

-----------------------------------------------------------------------------
(* recoverRename(), called by rename(), by the next mutation or by the next *)
(* process.                                                                *)

CaseOnly == journal.source = journal.destination

ValueStaged == staging \notin {Nothing, Moved}

\* The old spelling, or the empty directory in the way, goes first.
MustClear ==
  /\ ValueStaged
  /\ CaseOnly \/ journal.directory
  /\ files[journal.destination] # Absent

Install ==
  /\ pc = "install"
  /\ IF MustClear THEN EraseBelow(journal.destination) /\ UNCHANGED <<staging, pc>>
     ELSE /\ IF ~ValueStaged THEN UNCHANGED <<files, staging>>
             ELSE /\ files' = [p \in Path |->
                       IF Under(journal.destination, p) THEN staging[p] ELSE files[p]]
                  /\ staging' = Moved
          /\ pc' = "hideSource"
  /\ UNCHANGED <<deleted, journal, process, index, changed, op>>

\* Mutant of HideSource: the source is only erased, not hidden.
HideSourceSkipped ==
  /\ pc = "hideSource"
  /\ pc' = IF journal.directory THEN "hideDestination" ELSE "eraseSource"
  /\ UNCHANGED <<disk, process, index, changed, op>>

HideSource ==
  /\ pc = "hideSource"
  /\ deleted' = deleted \cup {journal.source}
  /\ changed' = [changed EXCEPT !.markers = @ \cup {journal.source}]
  /\ pc' = IF journal.directory THEN "hideDestination" ELSE "eraseSource"
  /\ UNCHANGED <<files, staging, journal, process, index, op>>

HideDestination ==
  /\ pc = "hideDestination"
  /\ deleted' = deleted \cup {journal.destination}
  /\ changed' = [changed EXCEPT !.markers = @ \cup {journal.destination}]
  /\ pc' = "eraseSource"
  /\ UNCHANGED <<files, staging, journal, process, index, op>>

\* After a case-only rename the source is the tree that was installed.
EraseSource ==
  /\ pc = "eraseSource"
  /\ IF CaseOnly
     THEN pc' = "removeStaging" /\ UNCHANGED <<disk, process, index, changed, op>>
     ELSE EraseAll(journal.source, "removeStaging")

RemoveStaging ==
  /\ pc = "removeStaging"
  /\ staging' = Nothing
  /\ pc' = "removeJournal"
  /\ UNCHANGED <<files, deleted, journal, process, index, changed, op>>

RemoveJournal ==
  /\ pc = "removeJournal"
  /\ journal' = Nothing
  /\ pc' = IF process = "mounting" THEN "mount" ELSE "publish"
  /\ UNCHANGED <<files, deleted, staging, process, index, changed, op>>

Recover == Install \/ HideSource \/ HideDestination \/ EraseSource
           \/ RemoveStaging \/ RemoveJournal

-----------------------------------------------------------------------------
\* publish(), in the finally block of mutate().
Publish ==
  /\ pc = "publish"
  /\ index' = Reindexed
  /\ changed' = Unchanged
  /\ op' = Nothing
  /\ pc' = "idle"
  /\ UNCHANGED <<disk, process>>

\* Mutant of Fail: rename() leaves its staging directory behind.
FailKeepsStaging ==
  /\ process = "up" /\ pc \notin {"idle", "check", "publish"}
  /\ pc' = "publish"
  /\ op' = Nothing
  /\ UNCHANGED <<disk, process, index, changed>>

\* A step throws: rename() removes its staging directory unless a journal
\* refers to it, and the mutation goes on to publish what it has changed.
Fail ==
  /\ process = "up" /\ pc \notin {"idle", "check", "publish"}
  /\ pc' = "publish"
  /\ op' = Nothing
  /\ staging' = IF journal = Nothing THEN Nothing ELSE staging
  /\ UNCHANGED <<files, deleted, journal, process, index, changed>>

\* The process dies, or cannot mount; memory is lost.
Crash ==
  /\ process # "down"
  /\ process' = "down"
  /\ index' = NoIndex
  /\ changed' = Unchanged
  /\ op' = Nothing
  /\ pc' = "idle"
  /\ UNCHANGED disk

Next ==
  \/ Start \/ Mount \/ BeginRecovery
  \/ \E o \in Operation : Begin(o)
  \/ Check \/ Parents \/ Create \/ Store \/ Hide \/ Erase
  \/ Stage \/ Journal \/ Recover
  \/ Publish \/ Fail \/ Crash

Spec == Init /\ [][Next]_vars

-----------------------------------------------------------------------------
(* Properties *)

\* The disk as recoverRename() would leave it.
RecoveredFiles ==
  IF journal = Nothing THEN files
  ELSE [p \in Path |->
    IF ValueStaged /\ Under(journal.destination, p) THEN staging[p]
    ELSE IF ~CaseOnly /\ Under(journal.source, p) THEN Absent
    ELSE files[p]]

RecoveredDeleted ==
  IF journal = Nothing THEN deleted
  ELSE deleted \cup {journal.source}
       \cup (IF journal.directory THEN {journal.destination} ELSE {})

\* Whatever fails and whenever the process dies, the tree a game finds after
\* the next mount is one the sequence of its operations made: files change as
\* a whole, a rename happens entirely (once its journal is on disk) or not at
\* all, and nothing that was deleted or moved away appears again.
Tree == INSTANCE LogicalTree WITH
  tree <- [p \in Path |-> View(RecoveredFiles, RecoveredDeleted, p)],
  Initial <- Original

ImplementsLogicalTree == Tree!Spec

\* Between mutations the index agrees with the disk, although only the names
\* a mutation touched are read again, and also after one that threw.
IndexMatchesDisk ==
  (process = "up" /\ pc = "idle") =>
    (index.files = files /\ index.deleted = deleted)

\* A mutation that returns to the game did what it says, as a reader sees it.
Effect(o) ==
  CASE o.kind \in {"write", "create"} -> Seen(o.path) = o.content
    [] o.kind = "makeDirectory" -> Seen(o.path) = Dir /\ SeenChildren(o.path) = {}
    [] o.kind \in {"remove", "removeDirectory", "removeTree"} ->
         \A p \in Below(o.path) : Seen(p) = Absent
    [] o.kind = "rename" ->
         /\ Seen(o.to) # Absent
         /\ o.path # o.to => \A p \in Below(o.path) : Seen(p) = Absent

ReturnMeansDone ==
  [][(pc = "publish" /\ pc' = "idle" /\ process' = "up" /\ op # Nothing) =>
       \E o \in {op} : Effect(o)']_vars

\* A staging directory outlives its rename only with the journal that will
\* complete it.
NoOrphanStaging ==
  (process = "up" /\ pc = "idle" /\ journal = Nothing) => staging = Nothing

=============================================================================
