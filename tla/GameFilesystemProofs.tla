------------------------ MODULE GameFilesystemProofs ------------------------
(***************************************************************************)
(* Proofs about GameFilesystem, for every set of paths and contents and    *)
(* every game.  IInv says where the process and its operation are and what *)
(* of the disk the index may not know yet; FilesInv adds, in the second    *)
(* half, what is on the disk at each step of an operation and what the     *)
(* operation saw of it, which is enough for the refinement of LogicalTree. *)
(***************************************************************************)
EXTENDS GameFilesystem, SequenceTheorems, TLAPS

OperationSteps == {"check", "parents", "create", "store", "hide", "erase", "stage", "journal"}
RecoverySteps == {"install", "hideSource", "hideDestination", "eraseSource",
                  "removeStaging", "removeJournal"}

TypeInv ==
  /\ files \in [Path -> Node]
  /\ deleted \subseteq Path
  /\ staging \in [Path -> Node] \cup {Nothing, Moved}
  /\ journal \in Renames \cup {Nothing}
  /\ process \in {"down", "mounting", "up"}
  /\ index \in [files: [Path -> Node], deleted: SUBSET Path]
  /\ changed \in [paths: SUBSET Path, markers: SUBSET Path]
  /\ op \in Operation \cup {Nothing}
  /\ pc \in Steps

\* Where the process can be: an operation runs in a process that is up, with
\* no journal on disk and its names recorded; recovery has those of the journal.
Control ==
  /\ process = "down" => pc = "idle"
  /\ process = "mounting" => pc \in RecoverySteps \cup {"mount"}
  /\ process = "up" => pc # "mount"
  /\ pc = "idle" => changed = Unchanged
  /\ pc \in OperationSteps =>
       /\ op \in Operation
       /\ journal = Nothing
       /\ Names(op) \subseteq changed.paths
  /\ pc \in {"parents", "create", "store"} =>
       op.kind \in {"write", "create", "makeDirectory", "rename"}
  /\ pc \in {"create", "store"} => op.kind # "rename"
  /\ pc \in {"stage", "journal"} => op.kind = "rename"
  /\ pc \in RecoverySteps => /\ journal \in Renames
                             /\ {journal.source, journal.destination} \subseteq changed.paths

\* What a mutation did to the disk is below, or a directory above, a name it
\* recorded, and every marker it made is recorded.
Recorded ==
  process = "up" =>
    /\ \A n \in Path : files[n] # index.files[n] =>
         \E m \in changed.paths : Under(m, n) \/ (n \in Above(m) /\ files[n] # Absent)
    /\ index.deleted \subseteq deleted
    /\ deleted \subseteq index.deleted \cup changed.markers

\* Without a journal there is something staged only between the two steps of
\* rename() that make the one and the other.
StagingOwned ==
  /\ (process # "down" /\ journal = Nothing /\ pc # "journal") => staging = Nothing
  /\ pc = "removeJournal" => staging = Nothing

IInv == TypeInv /\ Control /\ Recorded /\ StagingOwned

-----------------------------------------------------------------------------
(* Names, nodes and paths.                                                 *)

LEMMA PathsAreSequences ==
  ASSUME NEW p \in Path
  PROVE  p \in Seq(Component) /\ Len(p) \in Nat \ {0} /\ SubSeq(p, 1, Len(p)) = p
<1>1. p \in Seq(Component) /\ Len(p) \in Nat /\ Len(p) > 0
  BY GameFilesystemAssumption, LenProperties
<1>2. SubSeq(p, 1, Len(p)) = p
  BY <1>1, SubSeqProperties, SeqEqual, LenProperties
<1>3. QED
  BY <1>1, <1>2

\* A prefix, said with components.
LEMMA UnderMeans ==
  ASSUME NEW p \in Path, NEW q \in Path
  PROVE  Under(p, q) <=> (Len(p) <= Len(q) /\ \A i \in 1 .. Len(p) : q[i] = p[i])
<1>1. /\ p \in Seq(Component) /\ q \in Seq(Component)
      /\ Len(p) \in Nat \ {0} /\ Len(q) \in Nat \ {0}
  BY PathsAreSequences
<1>2. SUFFICES ASSUME Len(p) <= Len(q)
               PROVE  SubSeq(q, 1, Len(p)) = p <=> \A i \in 1 .. Len(p) : q[i] = p[i]
  BY DEF Under
<1> DEFINE s == SubSeq(q, 1, Len(p))
<1>3. /\ s \in Seq(Component) /\ Len(s) = Len(p)
      /\ \A i \in 1 .. Len(p) : s[i] = q[i]
  BY <1>1, <1>2, SubSeqProperties
<1> HIDE DEF s
<1>4. s = p <=> \A i \in 1 .. Len(p) : s[i] = p[i]
  BY <1>1, <1>3, SeqEqual
<1>5. QED
  BY <1>3, <1>4 DEF s

LEMMA UnderOrder ==
  ASSUME NEW p \in Path, NEW q \in Path
  PROVE  /\ Under(p, p)
         /\ (Under(p, q) /\ Under(q, p)) => p = q
         /\ \A r \in Path : (Under(p, q) /\ Under(q, r)) => Under(p, r)
         /\ \A r \in Path : (Under(p, r) /\ Under(q, r)) => Under(p, q) \/ Under(q, p)
<1>1. /\ p \in Seq(Component) /\ q \in Seq(Component)
      /\ Len(p) \in Nat \ {0} /\ Len(q) \in Nat \ {0}
  BY PathsAreSequences
<1>2. Under(p, p)
  BY <1>1, UnderMeans
<1>3. (Under(p, q) /\ Under(q, p)) => p = q
  BY <1>1, UnderMeans, SeqEqual
<1>4. ASSUME NEW r \in Path, Under(p, q), Under(q, r) PROVE Under(p, r)
  BY <1>1, <1>4, UnderMeans, PathsAreSequences
<1>5. ASSUME NEW r \in Path, Under(p, r), Under(q, r) PROVE Under(p, q) \/ Under(q, p)
  BY <1>1, <1>5, UnderMeans, PathsAreSequences
<1>6. QED
  BY <1>2, <1>3, <1>4, <1>5

\* The name above a name of several components.
LEMMA ParentIsAbove ==
  ASSUME NEW p \in Path, Len(p) # 1
  PROVE  SubSeq(p, 1, Len(p) - 1) \in Above(p)
<1> DEFINE s == SubSeq(p, 1, Len(p) - 1)
<1>1. p \in Seq(Component) /\ Len(p) \in Nat \ {0} /\ Len(p) - 1 \in 1 .. Len(p)
  <2>1. p \in Seq(Component) /\ Len(p) \in Nat \ {0}
    BY PathsAreSequences
  <2>2. \A n \in Nat \ {0} : n # 1 => n - 1 \in 1 .. n
    OBVIOUS
  <2>3. QED
    BY <2>1, <2>2
<1>2. s \in Path
  BY <1>1, GameFilesystemAssumption
<1>3. /\ s \in Seq(Component) /\ Len(s) = Len(p) - 1
      /\ \A i \in 1 .. Len(s) : s[i] = p[i]
  BY <1>1, SubSeqProperties
<1> HIDE DEF s
<1>4. Under(s, p) /\ s # p
  BY <1>1, <1>2, <1>3, UnderMeans
<1>5. QED
  BY <1>2, <1>4 DEF Above, s

LEMMA AboveOrder ==
  ASSUME NEW p \in Path
  PROVE  /\ Above(p) \subseteq Path /\ p \notin Above(p)
         /\ \A q \in Above(p) : Above(q) \subseteq Above(p)
         /\ \A q \in Above(p) : Under(q, p) /\ ~Under(p, q)
BY UnderOrder DEF Above

\* The place in one directory of what has a place in another.
LEMMA Replaced ==
  ASSUME NEW p \in Path, NEW from \in Path, NEW to \in Path, Under(from, p)
  PROVE  /\ Destination(p, from, to) \in Seq(Component)
         /\ Len(Destination(p, from, to)) = Len(p) - Len(from) + Len(to)
         /\ \A i \in 1 .. Len(to) : Destination(p, from, to)[i] = to[i]
         /\ \A i \in 1 .. Len(p) - Len(from) :
              Destination(p, from, to)[Len(to) + i] = p[Len(from) + i]
<1> DEFINE r == SubSeq(p, Len(from) + 1, Len(p))
<1>1. /\ p \in Seq(Component) /\ to \in Seq(Component)
      /\ Len(p) \in Nat /\ Len(to) \in Nat /\ Len(from) \in Nat /\ Len(from) <= Len(p)
  BY PathsAreSequences DEF Under
<1>2. /\ r \in Seq(Component) /\ Len(r) = Len(p) - Len(from)
      /\ \A i \in 1 .. Len(p) - Len(from) : r[i] = p[Len(from) + i]
  <2>1. \A i \in Len(from) + 1 .. Len(p) : p[i] \in Component
    BY <1>1, ElementOfSeq
  <2>2. /\ r \in Seq(Component)
        /\ Len(r) = IF Len(from) + 1 <= Len(p) THEN Len(p) - (Len(from) + 1) + 1 ELSE 0
        /\ \A i \in 1 .. Len(p) - (Len(from) + 1) + 1 : r[i] = p[Len(from) + 1 + i - 1]
    BY <1>1, <2>1, SubSeqProperties
  <2> HIDE DEF r
  <2>3. QED
    BY <1>1, <2>2
<1> HIDE DEF r
<1> DEFINE d == to \o r
<1>3. /\ d \in Seq(Component) /\ Len(d) = Len(to) + Len(r)
      /\ \A i \in 1 .. Len(to) + Len(r) : d[i] = IF i <= Len(to) THEN to[i] ELSE r[i - Len(to)]
  <2>1. to \in Seq(Component) /\ r \in Seq(Component)
    BY <1>1, <1>2
  <2>2. QED
    BY <2>1, ConcatProperties
<1>4. Destination(p, from, to) = d
  BY DEF Destination, r
<1> HIDE DEF d
<1>5. Len(d) = Len(p) - Len(from) + Len(to)
  BY <1>1, <1>2, <1>3
<1>6. \A i \in 1 .. Len(to) : d[i] = to[i]
  BY <1>1, <1>2, <1>3
<1>7. \A i \in 1 .. Len(p) - Len(from) : d[Len(to) + i] = p[Len(from) + i]
  BY <1>1, <1>2, <1>3
<1>8. QED
  BY <1>3, <1>4, <1>5, <1>6, <1>7

LEMMA ReplacedUnder ==
  ASSUME NEW p \in Path, NEW from \in Path, NEW to \in Path, Under(from, p),
         Destination(p, from, to) \in Path
  PROVE  /\ Under(to, Destination(p, from, to))
         /\ Destination(Destination(p, from, to), to, from) = p
<1> DEFINE d == Destination(p, from, to)
           e == Destination(d, to, from)
<1>1. /\ Len(d) = Len(p) - Len(from) + Len(to)
      /\ \A i \in 1 .. Len(to) : d[i] = to[i]
      /\ \A i \in 1 .. Len(p) - Len(from) : d[Len(to) + i] = p[Len(from) + i]
  <2>1. Len(d) = Len(p) - Len(from) + Len(to)
    BY Replaced
  <2>2. \A i \in 1 .. Len(to) : d[i] = to[i]
    BY Replaced
  <2>3. \A i \in 1 .. Len(p) - Len(from) : d[Len(to) + i] = p[Len(from) + i]
    BY Replaced
  <2>4. QED
    BY <2>1, <2>2, <2>3
<1>2. /\ p \in Seq(Component) /\ Len(p) \in Nat /\ Len(from) \in Nat /\ Len(to) \in Nat
      /\ Len(from) <= Len(p) /\ \A i \in 1 .. Len(from) : p[i] = from[i]
  BY PathsAreSequences, UnderMeans
<1> HIDE DEF d
<1>3. d \in Path
  BY DEF d
<1>4. Under(to, d)
  BY <1>1, <1>2, <1>3, UnderMeans
<1>5. /\ e \in Seq(Component) /\ Len(e) = Len(d) - Len(to) + Len(from)
      /\ \A i \in 1 .. Len(from) : e[i] = from[i]
      /\ \A i \in 1 .. Len(d) - Len(to) : e[Len(from) + i] = d[Len(to) + i]
  <2>1. e \in Seq(Component)
    BY <1>3, <1>4, Replaced
  <2>2. Len(e) = Len(d) - Len(to) + Len(from)
    BY <1>3, <1>4, Replaced
  <2>3. \A i \in 1 .. Len(from) : e[i] = from[i]
    BY <1>3, <1>4, Replaced
  <2>4. \A i \in 1 .. Len(d) - Len(to) : e[Len(from) + i] = d[Len(to) + i]
    BY <1>3, <1>4, Replaced
  <2>5. QED
    BY <2>1, <2>2, <2>3, <2>4
<1> HIDE DEF e
<1>6. Len(e) = Len(p)
  BY <1>1, <1>2, <1>5
<1>7. ASSUME NEW i \in 1 .. Len(p) PROVE e[i] = p[i]
  <2>1. CASE i <= Len(from)
    BY <1>2, <1>5, <2>1
  <2>2. CASE i > Len(from)
    <3>1. i - Len(from) \in 1 .. Len(p) - Len(from) /\ Len(from) + (i - Len(from)) = i
      BY <1>2, <2>2
    <3>2. Len(d) - Len(to) = Len(p) - Len(from)
      BY <1>1, <1>2
    <3>3. e[i] = d[Len(to) + (i - Len(from))] /\ d[Len(to) + (i - Len(from))] = p[i]
      BY <1>1, <1>5, <3>1, <3>2
    <3>4. QED
      BY <3>3
  <2>3. QED
    BY <1>2, <2>1, <2>2
<1>8. e = p
  BY <1>2, <1>5, <1>6, <1>7, SeqEqual
<1>9. QED
  BY <1>4, <1>8 DEF d, e

\* What is above the one is above the other.
LEMMA ReplacedAbove ==
  ASSUME NEW p \in Path, NEW q \in Path, NEW from \in Path, NEW to \in Path,
         Under(from, q), q \in Above(p), Destination(p, from, to) \in Path
  PROVE  /\ Destination(q, from, to) \in Above(Destination(p, from, to))
<1>1. /\ Len(p) \in Nat /\ Len(q) \in Nat /\ Len(from) \in Nat /\ Len(to) \in Nat \ {0}
      /\ Len(from) <= Len(q) /\ Len(q) <= Len(p) /\ q # p /\ Under(q, p)
      /\ \A i \in 1 .. Len(q) : p[i] = q[i]
  <2>1. q # p /\ Under(q, p)
    BY DEF Above
  <2>2. Len(q) <= Len(p) /\ \A i \in 1 .. Len(q) : p[i] = q[i]
    BY <2>1, UnderMeans
  <2>3. Len(from) <= Len(q)
    BY UnderMeans
  <2>4. /\ Len(p) \in Nat /\ Len(q) \in Nat /\ Len(from) \in Nat
        /\ Len(to) \in Nat \ {0}
    BY PathsAreSequences
  <2>5. QED
    BY <2>1, <2>2, <2>3, <2>4
<1>2. Len(q) # Len(p)
  <2>1. SUFFICES ASSUME Len(q) = Len(p) PROVE q = p
    BY <1>1
  <2>2. p \in Seq(Component) /\ q \in Seq(Component)
    BY PathsAreSequences
  <2>3. QED
    BY <1>1, <2>1, <2>2, SeqEqual
<1>3. Under(from, p)
  BY <1>1, UnderOrder
<1>4. /\ Destination(p, from, to) \in Seq(Component)
      /\ Len(Destination(p, from, to)) = Len(p) - Len(from) + Len(to)
      /\ \A i \in 1 .. Len(to) : Destination(p, from, to)[i] = to[i]
      /\ \A i \in 1 .. Len(p) - Len(from) :
           Destination(p, from, to)[Len(to) + i] = p[Len(from) + i]
  <2>1. Destination(p, from, to) \in Seq(Component)
    BY <1>3, Replaced
  <2>2. Len(Destination(p, from, to)) = Len(p) - Len(from) + Len(to)
    BY <1>3, Replaced
  <2>3. \A i \in 1 .. Len(to) : Destination(p, from, to)[i] = to[i]
    BY <1>3, Replaced
  <2>4. \A i \in 1 .. Len(p) - Len(from) :
           Destination(p, from, to)[Len(to) + i] = p[Len(from) + i]
    BY <1>3, Replaced
  <2>5. QED
    BY <2>1, <2>2, <2>3, <2>4
<1>5. /\ Destination(q, from, to) \in Seq(Component)
      /\ Len(Destination(q, from, to)) = Len(q) - Len(from) + Len(to)
      /\ \A i \in 1 .. Len(to) : Destination(q, from, to)[i] = to[i]
      /\ \A i \in 1 .. Len(q) - Len(from) :
           Destination(q, from, to)[Len(to) + i] = q[Len(from) + i]
  <2>1. Destination(q, from, to) \in Seq(Component)
    BY Replaced
  <2>2. Len(Destination(q, from, to)) = Len(q) - Len(from) + Len(to)
    BY Replaced
  <2>3. \A i \in 1 .. Len(to) : Destination(q, from, to)[i] = to[i]
    BY Replaced
  <2>4. \A i \in 1 .. Len(q) - Len(from) :
           Destination(q, from, to)[Len(to) + i] = q[Len(from) + i]
    BY Replaced
  <2>5. QED
    BY <2>1, <2>2, <2>3, <2>4
<1> DEFINE d == Destination(p, from, to)
           e == Destination(q, from, to)
<1> HIDE DEF d, e
<1>6. d \in Path
  BY DEF d
<1>7. Len(e) \in 1 .. Len(d) /\ Len(e) # Len(d)
  BY <1>1, <1>2, <1>4, <1>5 DEF d, e
<1>8. ASSUME NEW i \in 1 .. Len(e) PROVE e[i] = d[i]
  <2>1. CASE i <= Len(to)
    BY <1>1, <1>4, <1>5, <2>1 DEF d, e
  <2>2. CASE i > Len(to)
    <3> DEFINE j == i - Len(to)
    <3>1. /\ j \in 1 .. Len(q) - Len(from) /\ j \in 1 .. Len(p) - Len(from)
          /\ Len(to) + j = i /\ Len(from) + j \in 1 .. Len(q)
      BY <1>1, <1>5, <2>2 DEF d, e
    <3> HIDE DEF j
    <3>2. e[i] = q[Len(from) + j] /\ d[i] = p[Len(from) + j]
      BY <1>4, <1>5, <3>1 DEF d, e
    <3>3. QED
      BY <1>1, <3>1, <3>2
  <2>3. QED
    BY <1>1, <1>7, <2>1, <2>2
<1>9. e = SubSeq(d, 1, Len(e))
  <2>1. d \in Seq(Component) /\ Len(d) \in Nat
    BY <1>6, PathsAreSequences
  <2>2. \A i \in 1 .. Len(e) : d[i] \in Component
    BY <1>7, <2>1, ElementOfSeq
  <2>3. /\ SubSeq(d, 1, Len(e)) \in Seq(Component)
        /\ Len(SubSeq(d, 1, Len(e))) = Len(e)
        /\ \A i \in 1 .. Len(e) : SubSeq(d, 1, Len(e))[i] = d[i]
    BY <1>7, <2>1, <2>2, SubSeqProperties
  <2>4. QED
    BY <1>5, <1>8, <2>3, SeqEqual DEF e
<1>10. e \in Path
  BY <1>6, <1>7, <1>9, GameFilesystemAssumption
<1>11. e # d
  BY <1>7
<1>12. QED
  BY <1>6, <1>7, <1>9, <1>10, <1>11 DEF Above, Under, d, e

\* A path is under itself.
LEMMA UnderItself ==
  ASSUME NEW p \in Path
  PROVE  Under(p, p) /\ p \in Below(p)
BY PathsAreSequences DEF Under, Below

LEMMA ReplacedItself ==
  ASSUME NEW from \in Path, NEW to \in Path
  PROVE  Destination(to, to, from) = from
<1> DEFINE d == Destination(to, to, from)
<1>1. Under(to, to) /\ from \in Seq(Component) /\ Len(from) \in Nat /\ Len(to) \in Nat
  BY UnderOrder, PathsAreSequences
<1>2. /\ d \in Seq(Component) /\ Len(d) = Len(to) - Len(to) + Len(from)
      /\ \A i \in 1 .. Len(from) : d[i] = from[i]
  BY <1>1, Replaced
<1> HIDE DEF d
<1>3. QED
  BY <1>1, <1>2, SeqEqual DEF d

LEMMA ReplacedInPlace ==
  ASSUME NEW p \in Path, NEW from \in Path, Under(from, p)
  PROVE  Destination(p, from, from) = p
<1> DEFINE d == Destination(p, from, from)
<1>1. /\ p \in Seq(Component) /\ Len(p) \in Nat /\ Len(from) \in Nat /\ Len(from) <= Len(p)
      /\ \A i \in 1 .. Len(from) : p[i] = from[i]
  BY PathsAreSequences, UnderMeans
<1>2. /\ d \in Seq(Component) /\ Len(d) = Len(p) - Len(from) + Len(from)
      /\ \A i \in 1 .. Len(from) : d[i] = from[i]
      /\ \A i \in 1 .. Len(p) - Len(from) : d[Len(from) + i] = p[Len(from) + i]
  BY Replaced
<1> HIDE DEF d
<1>3. ASSUME NEW i \in 1 .. Len(p) PROVE d[i] = p[i]
  <2>1. CASE i <= Len(from)
    BY <1>1, <1>2, <2>1
  <2>2. CASE i > Len(from)
    <3>1. i - Len(from) \in 1 .. Len(p) - Len(from) /\ Len(from) + (i - Len(from)) = i
      BY <1>1, <2>2
    <3>2. d[Len(from) + (i - Len(from))] = p[Len(from) + (i - Len(from))]
      BY <1>2, <3>1
    <3>3. QED
      BY <3>1, <3>2
  <2>3. QED
    BY <1>1, <2>1, <2>2
<1>4. QED
  BY <1>1, <1>2, <1>3, SeqEqual DEF d

LEMMA NodeTypes ==
  /\ Dir \in Node /\ Absent \in Node /\ Partial \in Node /\ Written \subseteq Node
  /\ Dir # Absent
  /\ Original \in [Path -> Node]
BY GameFilesystemAssumption DEF Node, Content

LEMMA SeenIsNode ==
  ASSUME TypeInv, NEW p \in Path
  PROVE  Seen(p) \in Node
<1>1. index.files[p] \in Node /\ Original[p] \in Node
  BY NodeTypes DEF TypeInv
<1>2. QED
  BY <1>1, NodeTypes DEF Seen, View

LEMMA OperationTypes ==
  ASSUME NEW o \in Operation
  PROVE  /\ o.path \in Path
         /\ o.kind = "rename" => o.to \in Path
         /\ o.kind \in {"write", "create"} => o.content \in Written
         /\ Names(o) \subseteq Path /\ o.path \in Names(o)
         /\ o.kind = "rename" => o.to \in Names(o)
BY DEF Operation, Kinds, Names

-----------------------------------------------------------------------------
(* What a reader sees of a tree of files and a set of markers.             *)

LEMMA ViewMeans ==
  ASSUME NEW F \in [Path -> Node], NEW D, IsTree(F), NEW n \in Path
  PROVE  /\ View(F, D, n) \in Node
         /\ F[n] # Absent => View(F, D, n) = F[n]
         /\ F[n] = Absent =>
              View(F, D, n) = IF (\E m \in Above(n) : F[m] \in Content) \/ Hides(D, n)
                              THEN Absent ELSE Original[n]
<1>1. Dir \notin Content /\ Dir # Absent /\ Absent \notin Content
  BY NodeTypes, GameFilesystemAssumption DEF Content
<1>2. F[n] # Absent => \A m \in Above(n) : F[m] = Dir
  BY DEF IsTree
<1>3. F[n] \in Node /\ Original[n] \in Node /\ Absent \in Node
  BY NodeTypes
<1>4. QED
  BY <1>1, <1>2, <1>3 DEF View

\* What readers see is a tree, and where it is shadowed, the shadow.
LEMMA ViewIsTree ==
  ASSUME NEW F \in [Path -> Node], NEW D, IsTree(F), NEW n \in Path, View(F, D, n) # Absent
  PROVE  \A m \in Above(n) : View(F, D, m) = Dir
<1> SUFFICES ASSUME NEW m \in Above(n) PROVE View(F, D, m) = Dir
  OBVIOUS
<1>1. m \in Path /\ Above(m) \subseteq Above(n)
  BY AboveOrder
<1>2. Node = Content \cup {Dir, Absent} /\ Dir \notin Content /\ Dir # Absent
  BY NodeTypes, GameFilesystemAssumption DEF Node, Content
<1>3. CASE F[n] # Absent
  BY <1>1, <1>2, <1>3, ViewMeans DEF IsTree
<1>4. CASE F[n] = Absent
  <2>1. /\ \A k \in Above(n) : F[k] \notin Content
        /\ ~Hides(D, n) /\ Original[n] # Absent
    BY <1>4, ViewMeans
  <2>2. ~Hides(D, m) /\ \A k \in Above(m) : F[k] \notin Content
    BY <1>1, <2>1 DEF Hides
  <2>3. Original[m] = Dir
    BY <2>1, GameFilesystemAssumption DEF IsTree
  <2>4. F[m] \in {Dir, Absent}
    BY <1>1, <1>2, <2>1
  <2>5. QED
    BY <1>1, <1>2, <2>2, <2>3, <2>4, ViewMeans
<1>5. QED
  BY <1>3, <1>4

\* A node put where its parents are directories on disk: a directory in the
\* place of nothing, or a file in the place of a file or of nothing.
LEMMA PutTree ==
  ASSUME NEW F \in [Path -> Node], NEW G \in [Path -> Node], IsTree(F), NEW p \in Path,
         \A m \in Path \ {p} : G[m] = F[m],
         \A m \in Above(p) : F[m] = Dir, G[p] = Dir \/ F[p] # Dir
  PROVE  IsTree(G)
<1> SUFFICES ASSUME NEW n \in Path, G[n] # Absent, NEW m \in Above(n) PROVE G[m] = Dir
  BY DEF IsTree
<1>1. m \in Path /\ m # n /\ Dir # Absent
  BY AboveOrder, NodeTypes
<1>2. CASE n = p
  BY <1>1, <1>2
<1>3. CASE n # p
  <2>1. F[n] # Absent /\ F[m] = Dir
    BY <1>3 DEF IsTree
  <2>2. QED
    BY <1>1, <2>1
<1>4. QED
  BY <1>2, <1>3

LEMMA PutView ==
  ASSUME NEW F \in [Path -> Node], NEW G \in [Path -> Node], IsTree(F), NEW p \in Path, NEW D,
         \A m \in Path \ {p} : G[m] = F[m],
         \A m \in Above(p) : F[m] = Dir,
         \/ G[p] = Dir /\ F[p] = Absent
         \/ G[p] \in Content /\ View(F, D, p) # Dir,
         NEW n \in Path
  PROVE  View(G, D, n) = IF n = p THEN G[p] ELSE View(F, D, n)
<1>1. Node = Content \cup {Dir, Absent} /\ Dir \notin Content /\ Dir # Absent
      /\ Absent \notin Content
  BY NodeTypes, GameFilesystemAssumption DEF Node, Content
<1>2. \A m \in Path \ {p} : G[m] = F[m]
  OBVIOUS
<1>3. G[p] = Dir \/ F[p] # Dir
  BY <1>1, ViewMeans
<1>4. IsTree(G)
  BY <1>3, PutTree
<1>5. View(G, D, p) = G[p]
  <2>1. G[p] # Absent
    BY <1>1, <1>2
  <2>2. QED
    BY <1>4, <2>1, ViewMeans
<1>6. CASE n # p /\ p \notin Above(n)
  <2>1. \A m \in Above(n) \cup {n} : G[m] = F[m]
    BY <1>2, <1>6, AboveOrder
  <2>2. QED
    BY <1>6, <2>1, AboveOrder DEF View
<1>7. CASE p \in Above(n)
  <2>1. n # p
    BY <1>7, AboveOrder
  <2>2. CASE G[p] = Dir /\ F[p] = Absent
    <3>1. F[n] = Absent /\ G[n] = Absent
      BY <1>1, <1>2, <1>7, <2>1, <2>2 DEF IsTree
    <3>2. \A m \in Above(n) : F[m] \in Content <=> G[m] \in Content
      <4>1. F[p] \notin Content /\ G[p] \notin Content
        BY <1>1, <1>2, <2>2
      <4>2. \A m \in Above(n) : m # p => G[m] = F[m]
        BY <1>2, AboveOrder
      <4>3. QED
        BY <4>1, <4>2
    <3>3. QED
      BY <2>1, <3>1, <3>2 DEF View
  <2>3. CASE G[p] \in Content /\ View(F, D, p) # Dir
    <3>1. View(F, D, n) = Absent
      BY <1>7, <2>3, ViewIsTree
    <3>2. View(G, D, n) = Absent
      <4>1. View(G, D, p) # Dir
        BY <1>1, <1>5, <2>3
      <4>2. View(G, D, n) # Absent => \A m \in Above(n) : View(G, D, m) = Dir
        BY <1>2, <1>4, ViewIsTree
      <4>3. QED
        BY <1>7, <4>1, <4>2
    <3>3. QED
      BY <2>1, <3>1, <3>2
  <2>4. QED
    BY <2>2, <2>3
<1>8. QED
  BY <1>5, <1>6, <1>7

\* A node is erased from below a marker, after what is below it.
LEMMA EraseView ==
  ASSUME NEW F \in [Path -> Node], NEW D, IsTree(F), NEW p \in Path, F[p] # Absent,
         \A n \in Below(p) \ {p} : F[n] = Absent,
         NEW G \in [Path -> Node], G[p] = Absent, \A n \in Path \ {p} : G[n] = F[n]
  PROVE  /\ IsTree(G)
         /\ Hides(D, p) =>
              /\ View(F, D, p) = F[p]
              /\ \A n \in Below(p) \ {p} : View(F, D, n) = Absent
              /\ \A n \in Path : View(G, D, n) = IF n = p THEN Absent ELSE View(F, D, n)
<1>1. Absent \in Node
  BY NodeTypes
<1>2. G[p] = Absent /\ \A n \in Path \ {p} : G[n] = F[n]
  OBVIOUS
<1>3. IsTree(G)
  <2> SUFFICES ASSUME NEW n \in Path, G[n] # Absent, NEW m \in Above(n) PROVE G[m] = Dir
    BY DEF IsTree
  <2>1. n # p /\ F[n] # Absent /\ F[m] = Dir /\ m \in Path
    BY <1>2, AboveOrder DEF IsTree
  <2>2. m # p
    BY <2>1 DEF Above, Below
  <2>3. QED
    BY <1>2, <2>1, <2>2
<1>4. SUFFICES ASSUME Hides(D, p)
      PROVE  /\ View(F, D, p) = F[p]
             /\ \A n \in Below(p) \ {p} : View(F, D, n) = Absent
             /\ \A n \in Path : View(G, D, n) = IF n = p THEN Absent ELSE View(F, D, n)
  BY <1>2, <1>3
<1>5. View(F, D, p) = F[p] /\ View(G, D, p) = Absent
  BY <1>2, <1>3, <1>4, ViewMeans
<1>6. ASSUME NEW n \in Below(p) \ {p} PROVE View(F, D, n) = Absent /\ View(G, D, n) = Absent
  <2>1. n \in Path /\ p \in Above(n) /\ F[n] = Absent /\ G[n] = Absent
    BY <1>2, <1>6 DEF Below, Above
  <2>2. Hides(D, n)
    BY <1>4, <2>1, AboveOrder DEF Hides
  <2>3. QED
    BY <1>2, <1>3, <2>1, <2>2, ViewMeans
<1>7. ASSUME NEW n \in Path \ Below(p) PROVE View(G, D, n) = View(F, D, n)
  <2>1. p \notin Above(n) \cup {n}
    BY <1>7, UnderItself DEF Above, Below
  <2>2. \A m \in Above(n) \cup {n} : G[m] = F[m]
    BY <1>2, <2>1, AboveOrder
  <2>3. QED
    BY <2>2, AboveOrder DEF View
<1>8. QED
  BY <1>5, <1>6, <1>7

LEMMA HideView ==
  ASSUME NEW F \in [Path -> Node], NEW D, IsTree(F), NEW p \in Path, NEW n \in Path
  PROVE  View(F, D \cup {p}, n) =
           IF Under(p, n) /\ F[n] = Absent THEN Absent ELSE View(F, D, n)
<1>1. Hides(D \cup {p}, n) <=> Hides(D, n) \/ Under(p, n)
  BY UnderItself DEF Hides, Above
<1>2. QED
  BY <1>1, ViewMeans

-----------------------------------------------------------------------------
(* The invariant is kept by every step.                                    *)

LEMMA InitInv == Init => IInv
<1> SUFFICES ASSUME Init PROVE IInv
  OBVIOUS
<1>1. TypeInv
  BY NodeTypes DEF Init, TypeInv, NoIndex, Unchanged, Steps
<1>2. Control /\ Recorded /\ StagingOwned
  BY DEF Init, Control, Recorded, StagingOwned, OperationSteps, RecoverySteps
<1>3. QED
  BY <1>1, <1>2 DEF IInv

\* What a mutation changes must lie below or above a name it recorded.
LEMMA FilesRecorded ==
  ASSUME IInv, UNCHANGED <<deleted, index, changed, process>>, TypeInv',
         \A n \in Path : files'[n] # files[n] => \E m \in changed.paths :
           Under(m, n) \/ (n \in Above(m) /\ files'[n] # Absent)
  PROVE  Recorded'
<1> SUFFICES ASSUME process = "up" PROVE Recorded'
  BY DEF Recorded
<1>1. \A n \in Path : files'[n] # index'.files[n] =>
        \E m \in changed'.paths : Under(m, n) \/ (n \in Above(m) /\ files'[n] # Absent)
  BY DEF IInv, Recorded
<1>2. QED
  BY <1>1 DEF IInv, Recorded

\* Steps that leave the disk and the memory of it alone.
LEMMA StartKeeps ==
  ASSUME IInv, Start
  PROVE  IInv'
<1>1. TypeInv'
  <2>1. CASE journal = Nothing
    BY <2>1 DEF Start, IInv, TypeInv, Steps
  <2>2. CASE journal # Nothing
    BY <2>2 DEF Start, Intent, IInv, TypeInv, Steps, Renames
  <2>3. QED
    BY <2>1, <2>2
<1>2. Control'
  BY DEF Start, Intent, IInv, TypeInv, Control, OperationSteps, RecoverySteps
<1>3. Recorded' /\ StagingOwned'
  BY DEF Start, IInv, Control, Recorded, StagingOwned
<1>4. QED
  BY <1>1, <1>2, <1>3 DEF IInv

LEMMA MountKeeps ==
  ASSUME IInv, Mount
  PROVE  IInv'
<1>1. TypeInv'
  BY DEF Mount, disk, Unchanged, IInv, TypeInv, Steps
<1>2. Control' /\ StagingOwned'
  BY DEF Mount, disk, IInv, Control, StagingOwned, OperationSteps, RecoverySteps
<1>3. Recorded'
  BY DEF Mount, disk, Recorded
<1>4. QED
  BY <1>1, <1>2, <1>3 DEF IInv

\* Before anything is recorded, the index has what the disk has.
LEMMA IdleMatches ==
  ASSUME IInv, process = "up", pc = "idle"
  PROVE  index.files = files /\ index.deleted = deleted
<1>1. changed.paths = {} /\ changed.markers = {}
  BY DEF IInv, Control, Unchanged
<1>2. \A n \in Path : files[n] = index.files[n]
  BY <1>1 DEF IInv, Recorded
<1>3. files \in [Path -> Node] /\ index.files \in [Path -> Node]
  BY DEF IInv, TypeInv
<1>4. QED
  BY <1>1, <1>2, <1>3 DEF IInv, Recorded

LEMMA BeginKeeps ==
  ASSUME IInv, BeginRecovery \/ \E o \in Operation : Begin(o)
  PROVE  IInv'
<1>1. process = "up" /\ pc = "idle" /\ UNCHANGED <<disk, process, index>>
  BY DEF BeginRecovery, Begin
<1>2. index.files = files /\ index.deleted = deleted
  BY <1>1, IdleMatches
<1>3. Recorded'
  BY <1>1, <1>2 DEF disk, Recorded
<1>4. CASE BeginRecovery
  <2>1. journal \in Renames /\ changed' = Intent
    BY <1>4 DEF BeginRecovery, IInv, TypeInv
  <2>2. TypeInv'
    BY <1>1, <1>4, <2>1 DEF BeginRecovery, disk, Intent, IInv, TypeInv, Steps, Renames
  <2>3. Control' /\ StagingOwned'
    BY <1>1, <1>4, <2>1
       DEF BeginRecovery, disk, Intent, IInv, Control, StagingOwned, OperationSteps, RecoverySteps
  <2>4. QED
    BY <1>3, <2>2, <2>3 DEF IInv
<1>5. ASSUME NEW o \in Operation, Begin(o) PROVE IInv'
  <2>1. changed' = [paths |-> Names(o), markers |-> {}] /\ pc' = "check" /\ op' = o
        /\ journal = Nothing
    BY <1>5 DEF Begin, Unchanged
  <2>2. TypeInv'
    BY <1>1, <2>1, OperationTypes DEF disk, IInv, TypeInv, Steps
  <2>3. Control' /\ StagingOwned'
    BY <1>1, <2>1 DEF disk, IInv, Control, StagingOwned, OperationSteps, RecoverySteps
  <2>4. QED
    BY <1>3, <2>2, <2>3 DEF IInv
<1>6. QED
  BY <1>4, <1>5

LEMMA CheckKeeps ==
  ASSUME IInv, Check
  PROVE  IInv'
<1>1. /\ UNCHANGED <<disk, process, index, changed>> /\ pc = "check" /\ op \in Operation
      /\ journal = Nothing /\ Names(op) \subseteq changed.paths
  BY DEF Check, IInv, Control, OperationSteps
<1>2. \/ /\ op' = op
         /\ \/ pc' = "hide"
            \/ pc' = "parents" /\ op.kind \in {"write", "create", "makeDirectory", "rename"}
      \/ op' = Nothing /\ pc' = "publish"
  BY <1>1 DEF Check, FirstStep, Operation, Kinds
<1>3. TypeInv'
  BY <1>1, <1>2 DEF disk, IInv, TypeInv, Steps
<1>4. Control'
  BY <1>1, <1>2 DEF disk, IInv, Control, OperationSteps, RecoverySteps
<1>5. Recorded' /\ StagingOwned'
  BY <1>1, <1>2 DEF disk, IInv, Recorded, StagingOwned
<1>6. QED
  BY <1>3, <1>4, <1>5 DEF IInv

LEMMA ParentsKeep ==
  ASSUME IInv, Parents
  PROVE  IInv'
<1>1. /\ UNCHANGED <<deleted, staging, journal, process, index, changed, op>>
      /\ pc = "parents" /\ op \in Operation
      /\ journal = Nothing /\ Names(op) \subseteq changed.paths
      /\ op.kind \in {"write", "create", "makeDirectory", "rename"}
  BY DEF Parents, IInv, Control, OperationSteps
<1>2. Target \in Path /\ Target \in Names(op)
  BY <1>1, OperationTypes DEF Target
<1>3. \/ /\ files' = files
         /\ \/ pc' = "stage" /\ op.kind = "rename"
            \/ pc' \in {"create", "store"} /\ op.kind # "rename"
      \/ /\ pc' = pc
         /\ \E q \in Above(Target) : files' = [files EXCEPT ![q] = Dir]
  BY <1>1 DEF Parents
<1>4. TypeInv'
  BY <1>1, <1>3, NodeTypes DEF Above, IInv, TypeInv, Steps
<1>5. Control' /\ StagingOwned'
  BY <1>1, <1>3 DEF IInv, Control, StagingOwned, OperationSteps, RecoverySteps
<1>6. Recorded'
  <2>1. CASE files' = files
    BY <1>1, <2>1 DEF IInv, Recorded
  <2>2. ASSUME NEW q \in Above(Target), files' = [files EXCEPT ![q] = Dir]
        PROVE  Recorded'
    <3>1. q \in Path /\ files'[q] = Dir /\ \A n \in Path \ {q} : files'[n] = files[n]
      BY <2>2 DEF Above, IInv, TypeInv
    <3>2. Target \in changed.paths /\ files'[q] # Absent
      BY <1>1, <1>2, <3>1, NodeTypes
    <3>3. \A n \in Path : files'[n] # files[n] => n = q
      BY <3>1
    <3>4. QED
      BY <1>1, <1>4, <2>2, <3>2, <3>3, FilesRecorded
  <2>3. QED
    BY <1>3, <2>1, <2>2
<1>7. QED
  BY <1>4, <1>5, <1>6 DEF IInv

\* A file or directory put in the place the operation names.
LEMMA PutKeeps ==
  ASSUME IInv, Create \/ Store
  PROVE  IInv'
<1>1. /\ UNCHANGED <<deleted, staging, journal, process, index, changed, op>>
      /\ pc \in {"create", "store"} /\ pc' \in {"store", "publish"} /\ op \in Operation
      /\ journal = Nothing /\ Names(op) \subseteq changed.paths
      /\ op.kind \in {"write", "create", "makeDirectory"}
  BY DEF Create, Store, IInv, Control, OperationSteps
<1>2. op.path \in Path /\ op.path \in changed.paths
  BY <1>1, OperationTypes
<1>3. \E v \in Node : files' = [files EXCEPT ![op.path] = v]
  BY <1>1, OperationTypes, NodeTypes DEF Create, Store
<1>4. TypeInv'
  BY <1>1, <1>2, <1>3 DEF IInv, TypeInv, Steps
<1>5. Control' /\ StagingOwned'
  BY <1>1 DEF IInv, Control, StagingOwned, OperationSteps, RecoverySteps
<1>6. \A n \in Path : files'[n] # files[n] => n = op.path
  BY <1>2, <1>3 DEF IInv, TypeInv
<1>7. Recorded'
  BY <1>1, <1>2, <1>4, <1>6, UnderItself, FilesRecorded
<1>8. QED
  BY <1>4, <1>5, <1>7 DEF IInv

\* A marker is recorded with the step that writes it.
LEMMA HideKeeps ==
  ASSUME IInv, Hide \/ HideSource \/ HideDestination
  PROVE  IInv'
<1>1. /\ UNCHANGED <<files, staging, journal, process, index, op>>
      /\ \/ pc = "hide" /\ pc' = "erase"
         \/ /\ pc \in {"hideSource", "hideDestination"}
            /\ pc' \in {"hideDestination", "eraseSource"}
  BY DEF Hide, HideSource, HideDestination
<1>2. \E n \in Path : /\ deleted' = deleted \cup {n}
                      /\ changed' = [changed EXCEPT !.markers = @ \cup {n}]
  <2>1. CASE Hide
    BY <2>1, OperationTypes DEF Hide, IInv, Control, OperationSteps
  <2>2. CASE HideSource \/ HideDestination
    BY <2>2 DEF HideSource, HideDestination, IInv, Control, RecoverySteps, Renames
  <2>3. QED
    BY <2>1, <2>2
<1>3. PICK n \in Path : /\ deleted' = deleted \cup {n}
                        /\ changed' = [changed EXCEPT !.markers = @ \cup {n}]
  BY <1>2
<1>4. /\ changed' = [paths |-> changed.paths, markers |-> changed.markers \cup {n}]
      /\ changed.paths \subseteq Path /\ changed.markers \subseteq Path
  BY <1>3 DEF IInv, TypeInv
<1>5. TypeInv'
  BY <1>1, <1>3, <1>4 DEF IInv, TypeInv, Steps
<1>6. Control' /\ StagingOwned'
  BY <1>1, <1>4 DEF IInv, Control, StagingOwned, OperationSteps, RecoverySteps
<1>7. Recorded'
  BY <1>1, <1>3, <1>4 DEF IInv, Recorded
<1>8. QED
  BY <1>5, <1>6, <1>7 DEF IInv

\* Removing what is below a recorded name.
LEMMA EraseBelowFacts ==
  ASSUME IInv, NEW p, EraseBelow(p)
  PROVE  /\ files' \in [Path -> Node]
         /\ \E leaf \in Path : /\ Under(p, leaf) /\ files[leaf] # Absent /\ files'[leaf] = Absent
                              /\ \A n \in Path \ {leaf} : files'[n] = files[n]
<1>1. PICK leaf \in Path : /\ Under(p, leaf) /\ files[leaf] # Absent
                           /\ files' = [files EXCEPT ![leaf] = Absent]
  BY DEF EraseBelow, Below
<1>2. QED
  BY <1>1, NodeTypes DEF IInv, TypeInv

LEMMA EraseKeeps ==
  ASSUME IInv, Erase \/ EraseSource
  PROVE  IInv'
<1>1. /\ UNCHANGED <<deleted, staging, journal, process, index, changed, op>>
      /\ \/ pc = "erase" /\ pc' \in {"erase", "publish"}
         \/ pc = "eraseSource" /\ pc' \in {"eraseSource", "removeStaging"}
  BY DEF Erase, EraseSource, EraseAll, disk
<1>2. files' = files \/ \E p \in changed.paths : EraseBelow(p)
  <2>1. CASE Erase
    BY <2>1, OperationTypes DEF Erase, EraseAll, IInv, Control, OperationSteps
  <2>2. CASE EraseSource
    BY <2>2 DEF EraseSource, EraseAll, disk, IInv, Control, RecoverySteps
  <2>3. QED
    BY <2>1, <2>2
<1>3. TypeInv'
  BY <1>1, <1>2, EraseBelowFacts DEF IInv, TypeInv, Steps
<1>4. Control' /\ StagingOwned'
  BY <1>1 DEF IInv, Control, StagingOwned, OperationSteps, RecoverySteps
<1>5. Recorded'
  <2>1. CASE files' = files
    BY <1>1, <2>1 DEF IInv, Recorded
  <2>2. ASSUME NEW p \in changed.paths, EraseBelow(p) PROVE Recorded'
    <3>1. PICK leaf \in Path : Under(p, leaf) /\ \A n \in Path \ {leaf} : files'[n] = files[n]
      BY <2>2, EraseBelowFacts
    <3>2. \A n \in Path : files'[n] # files[n] => Under(p, n)
      BY <3>1
    <3>3. QED
      BY <1>1, <1>3, <3>2, FilesRecorded
  <2>3. QED
    BY <1>2, <2>1, <2>2
<1>6. QED
  BY <1>3, <1>4, <1>5 DEF IInv

\* The value of a rename is staged, and then its journal makes it durable.
LEMMA StageKeeps ==
  ASSUME IInv, Stage
  PROVE  IInv'
<1>1. /\ UNCHANGED <<files, deleted, journal, process, index, changed, op>>
      /\ pc = "stage" /\ pc' = "journal"
  BY DEF Stage
<1>2. staging' \in [Path -> Node]
  BY SeenIsNode, NodeTypes DEF Stage, Below, IInv
<1>3. TypeInv'
  BY <1>1, <1>2 DEF IInv, TypeInv, Steps
<1>4. Control' /\ Recorded' /\ StagingOwned'
  BY <1>1 DEF IInv, Control, Recorded, StagingOwned, OperationSteps, RecoverySteps
<1>5. QED
  BY <1>3, <1>4 DEF IInv

LEMMA JournalKeeps ==
  ASSUME IInv, Journal
  PROVE  IInv'
<1>1. /\ UNCHANGED <<files, deleted, staging, process, index, changed, op>>
      /\ pc = "journal" /\ pc' = "install" /\ op \in Operation /\ op.kind = "rename"
      /\ Names(op) \subseteq changed.paths
  BY DEF Journal, IInv, Control, OperationSteps
<1>2. /\ journal' = [source |-> op.path, destination |-> op.to, directory |-> Seen(op.path) = Dir]
      /\ op.path \in Path /\ op.to \in Path /\ {op.path, op.to} \subseteq changed.paths
  BY <1>1, OperationTypes DEF Journal
<1>3. journal' \in Renames /\ journal'.source = op.path /\ journal'.destination = op.to
  BY <1>2 DEF Renames
<1>4. journal' # Nothing
  BY <1>3, GameFilesystemAssumption
<1>5. TypeInv'
  BY <1>1, <1>3 DEF IInv, TypeInv, Steps
<1>6. Control' /\ Recorded' /\ StagingOwned'
  BY <1>1, <1>2, <1>3, <1>4
     DEF IInv, Control, Recorded, StagingOwned, OperationSteps, RecoverySteps
<1>7. QED
  BY <1>5, <1>6 DEF IInv

LEMMA InstallKeeps ==
  ASSUME IInv, Install
  PROVE  IInv'
<1>1. /\ UNCHANGED <<deleted, journal, process, index, changed, op>>
      /\ pc = "install" /\ pc' \in {"install", "hideSource"}
      /\ journal \in Renames /\ journal # Nothing
      /\ journal.destination \in Path /\ journal.destination \in changed.paths
  BY GameFilesystemAssumption DEF Install, IInv, Control, RecoverySteps, Renames
<1> DEFINE d == journal.destination
<1>2. \/ staging' = staging /\ (files' = files \/ EraseBelow(d))
      \/ /\ staging \in [Path -> Node] /\ staging' = Moved
         /\ files' = [n \in Path |-> IF Under(d, n) THEN staging[n] ELSE files[n]]
  BY DEF Install, ValueStaged, IInv, TypeInv
<1>3. TypeInv'
  BY <1>1, <1>2, EraseBelowFacts DEF IInv, TypeInv, Steps
<1>4. Control' /\ StagingOwned'
  BY <1>1 DEF IInv, Control, StagingOwned, OperationSteps, RecoverySteps
<1>5. \A n \in Path : files'[n] # files[n] => Under(d, n)
  BY <1>2, EraseBelowFacts
<1>6. Recorded'
  BY <1>1, <1>3, <1>5, FilesRecorded
<1>7. QED
  BY <1>3, <1>4, <1>6 DEF IInv

LEMMA RemoveKeeps ==
  ASSUME IInv, RemoveStaging \/ RemoveJournal
  PROVE  IInv'
<1>1. CASE RemoveStaging
  <2>1. /\ UNCHANGED <<files, deleted, journal, process, index, changed, op>>
        /\ pc = "removeStaging" /\ pc' = "removeJournal" /\ staging' = Nothing
    BY <1>1 DEF RemoveStaging
  <2>2. QED
    BY <2>1 DEF IInv, TypeInv, Control, Recorded, StagingOwned, Steps, OperationSteps, RecoverySteps
<1>2. CASE RemoveJournal
  <2>1. /\ UNCHANGED <<files, deleted, staging, process, index, changed, op>>
        /\ pc = "removeJournal" /\ journal' = Nothing
        /\ pc' = IF process = "mounting" THEN "mount" ELSE "publish"
    BY <1>2 DEF RemoveJournal
  <2>2. process # "down"
    BY <2>1 DEF IInv, Control
  <2>3. QED
    BY <2>1, <2>2
    DEF IInv, TypeInv, Control, Recorded, StagingOwned, Steps, OperationSteps, RecoverySteps
<1>3. QED
  BY <1>1, <1>2

\* publish() reads the recorded names again, which is all that can differ.
LEMMA PublishMatches ==
  ASSUME IInv, Publish
  PROVE  index' = [files |-> files, deleted |-> deleted]
<1>1. pc = "publish" /\ index' = Reindexed /\ UNCHANGED disk
  BY DEF Publish
<1>2. process = "up"
  BY <1>1 DEF IInv, TypeInv, Control, RecoverySteps
<1>3. \A n \in Path : index'.files[n] = files[n]
  BY <1>1, <1>2 DEF Reindexed, IInv, Recorded
<1>4. index'.files = files
  BY <1>1, <1>3 DEF Reindexed, IInv, TypeInv
<1>5. index'.deleted = deleted
  BY <1>1, <1>2 DEF Reindexed, disk, IInv, Recorded
<1>6. QED
  BY <1>1, <1>4, <1>5 DEF Reindexed

LEMMA PublishKeeps ==
  ASSUME IInv, Publish
  PROVE  IInv'
<1>1. /\ UNCHANGED <<disk, process>> /\ pc = "publish" /\ pc' = "idle" /\ op' = Nothing
      /\ changed' = Unchanged
  BY DEF Publish
<1>2. index' = [files |-> files, deleted |-> deleted]
  BY PublishMatches
<1>3. TypeInv'
  BY <1>1, <1>2 DEF disk, Unchanged, IInv, TypeInv, Steps
<1>4. Control' /\ StagingOwned'
  BY <1>1 DEF disk, IInv, Control, StagingOwned, OperationSteps, RecoverySteps
<1>5. Recorded'
  BY <1>1, <1>2 DEF disk, Recorded
<1>6. QED
  BY <1>3, <1>4, <1>5 DEF IInv

\* A mutation that throws publishes what it had recorded; a crash forgets it.
LEMMA FailKeeps ==
  ASSUME IInv, Fail \/ Crash
  PROVE  IInv'
<1>1. CASE Fail
  <2>1. /\ UNCHANGED <<files, deleted, journal, process, index, changed>>
        /\ process = "up" /\ pc' = "publish" /\ op' = Nothing
        /\ staging' = IF journal = Nothing THEN Nothing ELSE staging
    BY <1>1 DEF Fail
  <2>2. QED
    BY <2>1 DEF IInv, TypeInv, Control, Recorded, StagingOwned, Steps, OperationSteps, RecoverySteps
<1>2. CASE Crash
  <2>1. /\ UNCHANGED disk /\ process' = "down" /\ index' = NoIndex /\ changed' = Unchanged
        /\ op' = Nothing /\ pc' = "idle"
    BY <1>2 DEF Crash
  <2>2. TypeInv'
    BY <2>1, NodeTypes DEF disk, NoIndex, Unchanged, IInv, TypeInv, Steps
  <2>3. Control' /\ Recorded' /\ StagingOwned'
    BY <2>1 DEF disk, IInv, Control, Recorded, StagingOwned, OperationSteps, RecoverySteps
  <2>4. QED
    BY <2>2, <2>3 DEF IInv
<1>3. QED
  BY <1>1, <1>2

LEMMA Inductive == Spec => []IInv
<1>1. IInv /\ [Next]_vars => IInv'
  <2> SUFFICES ASSUME IInv, [Next]_vars PROVE IInv'
    OBVIOUS
  <2>1. CASE UNCHANGED vars
    BY <2>1 DEF vars, disk, IInv, TypeInv, Control, Recorded, StagingOwned
  <2>2. CASE Next
    BY <2>2, StartKeeps, MountKeeps, BeginKeeps, CheckKeeps, ParentsKeep, PutKeeps, HideKeeps,
       EraseKeeps, StageKeeps, JournalKeeps, InstallKeeps, RemoveKeeps, PublishKeeps, FailKeeps
       DEF Next, Recover
  <2>3. QED
    BY <2>1, <2>2
<1>2. QED
  BY <1>1, InitInv, PTL DEF Spec

-----------------------------------------------------------------------------
(* What the steps of a mutation know of the disk.                          *)

V(n) == View(files, deleted, n)
T(n) == View(RecoveredFiles, RecoveredDeleted, n)

\* What copy() has put in the staging directory: at each name below the
\* destination, what the process sees where it comes from.
Origin(n) == Destination(n, op.to, op.path)

Staged ==
  /\ staging \in [Path -> Node]
  /\ \A n \in Path : staging[n] =
       IF Under(op.to, n) /\ Origin(n) \in Path THEN Seen(Origin(n)) ELSE Absent

\* The process saw what the disk has when it admitted the operation, and what
\* it saw is there until the operation changes what it is about.
Admitted ==
  /\ pc = "check" => index.files = files /\ index.deleted = deleted
  /\ pc \in OperationSteps \ {"check"} => Allowed(op)
  /\ pc = "create" => op.kind = "create"
  /\ pc \in {"hide", "erase"} => op.kind \in {"remove", "removeDirectory", "removeTree"}
  /\ (pc \in {"parents", "create", "store", "stage", "journal"}
        /\ (op.kind \in {"write", "rename"} \/ (op.kind = "create" /\ pc # "store"))) =>
       \A n \in Path : V(n) = Seen(n)
  /\ (pc = "store" /\ op.kind = "create") => files[op.path] = Partial
  /\ (pc \in {"parents", "store"} /\ op.kind = "makeDirectory") =>
       V(op.path) = Absent /\ \A m \in Above(op.path) : V(m) \in {Dir, Absent}
  /\ pc = "parents" => \A m \in Above(Target) : files[m] \in {Dir, Absent}
  /\ pc \in {"create", "store", "stage", "journal"} => \A m \in Above(Target) : files[m] = Dir
  /\ pc = "journal" => Staged
  /\ pc = "erase" => op.path \in deleted

\* What a journal on disk tells whoever finds it.
Journaled ==
  journal \in Renames =>
    /\ \A m \in Above(journal.destination) : files[m] = Dir
    /\ ~CaseOnly => /\ ~Under(journal.source, journal.destination)
                    /\ ~Under(journal.destination, journal.source)
    /\ ValueStaged =>
         \A n \in Below(journal.destination) : staging[n] # Absent =>
           \A m \in Above(n) : Under(journal.destination, m) => staging[m] = Dir

\* How far a recovery has come.
Recovering ==
  /\ pc \in RecoverySteps \ {"install"} => ~ValueStaged
  /\ pc \in RecoverySteps \ {"install", "hideSource"} => journal.source \in deleted
  /\ pc = "hideDestination" => journal.directory
  /\ (pc \in {"eraseSource", "removeStaging", "removeJournal"} /\ journal.directory) =>
       journal.destination \in deleted
  /\ (pc \in {"removeStaging", "removeJournal"} /\ ~CaseOnly) =>
       \A n \in Below(journal.source) : files[n] = Absent

\* What an operation that does not throw has done, on the disk.
DoneOnDisk(o) ==
  CASE o.kind \in {"write", "create"} -> V(o.path) = o.content
    [] o.kind = "makeDirectory" -> V(o.path) = Dir /\ \A n \in Below(o.path) \ {o.path} : V(n) = Absent
    [] o.kind \in {"remove", "removeDirectory", "removeTree"} ->
         \A n \in Below(o.path) : V(n) = Absent
    [] o.kind = "rename" ->
         /\ V(o.to) # Absent
         /\ o.path # o.to => \A n \in Below(o.path) : V(n) = Absent

Done ==
  /\ (pc = "idle" \/ process = "mounting") => op = Nothing
  /\ (pc \in RecoverySteps /\ op # Nothing) =>
       /\ op.kind = "rename" /\ op.path = journal.source /\ op.to = journal.destination
       /\ T(op.to) # Absent
       /\ op.path # op.to => \A n \in Below(op.path) : T(n) = Absent
  /\ (pc = "publish" /\ op # Nothing) => DoneOnDisk(op)

FilesInv == IsTree(files) /\ Admitted /\ Journaled /\ Recovering /\ Done

\* The tree that GameFilesystem instantiates LogicalTree with.
Logical == [p \in Path |-> View(RecoveredFiles, RecoveredDeleted, p)]

-----------------------------------------------------------------------------
(* The steps of LogicalTree, said of T.                                    *)

LEMMA ParentIsDirectory ==
  ASSUME NEW p \in Path, \A m \in Above(p) : T(m) = Dir
  PROVE  Tree!ParentIsDir(p)
<1>1. CASE Len(p) = 1
  BY <1>1 DEF Tree!ParentIsDir
<1>2. CASE Len(p) # 1
  <2>1. SubSeq(p, 1, Len(p) - 1) \in Above(p) /\ SubSeq(p, 1, Len(p) - 1) \in Path
    BY <1>2, ParentIsAbove, AboveOrder
  <2>2. QED
    BY <2>1 DEF Tree!ParentIsDir, T
<1>3. QED
  BY <1>1, <1>2

LEMMA WriteStep ==
  ASSUME NEW p \in Path, NEW c \in Content,
         \A m \in Above(p) : T(m) = Dir, T(p) # Dir,
         \A n \in Path : T(n)' = IF n = p THEN c ELSE T(n)
  PROVE  Tree!Next
<1>1. Tree!Write(p, c)
  BY ParentIsDirectory DEF Tree!Write, T
<1>2. QED
  BY <1>1 DEF Tree!Next

LEMMA MakeDirectoryStep ==
  ASSUME NEW p \in Path, \A m \in Above(p) : T(m) = Dir, T(p) = Absent,
         \A n \in Path : T(n)' = IF n = p THEN Dir ELSE T(n)
  PROVE  Tree!Next
<1>1. Tree!MakeDirectory(p)
  BY ParentIsDirectory DEF Tree!MakeDirectory, T
<1>2. QED
  BY <1>1 DEF Tree!Next

LEMMA RemoveStep ==
  ASSUME NEW p \in Path, T(p) \in Content,
         \A n \in Path : T(n)' = IF n = p THEN Absent ELSE T(n)
  PROVE  Tree!Next
<1>1. Tree!Remove(p)
  BY DEF Tree!Remove, T
<1>2. QED
  BY <1>1 DEF Tree!Next

LEMMA SameBelow ==
  /\ \A p, q : Tree!Under(p, q) <=> Under(p, q)
  /\ \A p : Tree!Below(p) = Below(p)
BY DEF Tree!Under, Under, Tree!Below, Below

LEMMA RemovePartStep ==
  ASSUME NEW d \in Path, T(d) = Dir, NEW gone \in SUBSET Below(d),
         \A n \in Path : T(n)' = IF n \in gone THEN Absent ELSE T(n),
         \A n \in Path : T(n)' # Absent => \A m \in Above(n) : T(m)' = Dir
  PROVE  Tree!Next
<1> DEFINE now == [n \in Path |-> T(n)]
<1>1. now[d] = Dir
  OBVIOUS
<1>2. now' = [n \in Path |-> IF n \in gone THEN Absent ELSE now[n]]
  OBVIOUS
<1>3. ASSUME NEW p \in Path, now'[p] # Absent
      PROVE  Len(p) = 1 \/ now'[SubSeq(p, 1, Len(p) - 1)] = Dir
  <2>1. CASE Len(p) # 1
    <3>1. SubSeq(p, 1, Len(p) - 1) \in Above(p) /\ SubSeq(p, 1, Len(p) - 1) \in Path
      BY <2>1, ParentIsAbove, AboveOrder
    <3>2. QED
      BY <1>3, <3>1
  <2>2. QED
    BY <2>1
<1>4. Tree!RemovePart(d)
  <2>1. gone \in SUBSET Tree!Below(d) /\ Tree!Below(d) \subseteq Path
    BY SameBelow DEF Below
  <2>2. QED
    BY <1>1, <1>2, <1>3, <2>1 DEF Tree!RemovePart, Tree!ParentIsDir, T
<1>5. QED
  BY <1>4 DEF Tree!Next

LEMMA RenameStep ==
  ASSUME NEW from \in Path, NEW to \in Path,
         T(from) # Absent, ~Under(from, to), ~Under(to, from),
         \A m \in Above(to) : T(m) = Dir,
         T(to) # Absent => (T(from) = Dir <=> T(to) = Dir),
         \A n \in Below(to) \ {to} : T(n) = Absent,
         \A n \in Path : T(n)' =
           IF Under(from, n) THEN Absent
           ELSE IF Under(to, n)
                THEN IF Destination(n, to, from) \in Path THEN T(Destination(n, to, from)) ELSE Absent
           ELSE T(n)
  PROVE  Tree!Next
<1> DEFINE now == [n \in Path |-> T(n)]
<1>1. now' = [n \in Path |->
         IF n \in Below(from) THEN Absent
         ELSE IF n \in Below(to)
              THEN IF Destination(n, to, from) \in Path THEN now[Destination(n, to, from)] ELSE Absent
         ELSE now[n]]
  BY DEF Below
<1>2. /\ now[from] # Absent
      /\ now[to] # Absent => (now[from] = Dir <=> now[to] = Dir)
      /\ \A n \in Below(to) \ {to} : now[n] = Absent
  BY DEF Below
<1>3. Tree!ParentIsDir(to)
  BY ParentIsDirectory
<1>4. Tree!Rename(from, to)
  BY <1>1, <1>2, <1>3, SameBelow DEF Tree!Rename, Destination, T
<1>5. QED
  BY <1>4 DEF Tree!Next

-----------------------------------------------------------------------------
(* Every step keeps what is known of the disk, and is a step of the tree.  *)

\* One step of the abstract tree, or none.
TreeStep == Tree!Next \/ \A n \in Path : T(n)' = T(n)

LEMMA NoJournal ==
  /\ journal = Nothing => \A n \in Path : T(n) = V(n)
  /\ journal' = Nothing => \A n \in Path : T(n)' = V(n)'
BY DEF T, V, RecoveredFiles, RecoveredDeleted

\* Steps that leave what a mount would find.
LEMMA DiskKept ==
  ASSUME IInv, FilesInv, UNCHANGED <<files, deleted, journal>>,
         staging' = staging \/ journal = Nothing
  PROVE  /\ IsTree(files)' /\ Journaled'
         /\ \A n \in Path : T(n)' = T(n) /\ V(n)' = V(n)
<1>1. CASE journal = Nothing
  <2>1. journal \notin Renames
    BY <1>1, GameFilesystemAssumption
  <2>2. QED
    BY <1>1, <2>1, NoJournal DEF FilesInv, Journaled, V
<1>2. CASE staging' = staging
  BY <1>2 DEF FilesInv, Journaled, CaseOnly, ValueStaged, V, T, RecoveredFiles, RecoveredDeleted
<1>3. QED
  BY <1>1, <1>2

LEMMA OperationHasNoJournal ==
  ASSUME IInv, pc \in OperationSteps
  PROVE  op \in Operation /\ op # Nothing /\ journal = Nothing /\ process = "up"
BY GameFilesystemAssumption
   DEF IInv, TypeInv, Control, OperationSteps, RecoverySteps

LEMMA InitFiles == Init => FilesInv
<1> SUFFICES ASSUME Init PROVE FilesInv
  OBVIOUS
<1>1. IsTree(files)
  BY DEF Init, IsTree, Above
<1>2. Admitted /\ Recovering /\ Done
  BY DEF Init, Admitted, Recovering, Done, OperationSteps, RecoverySteps
<1>3. Journaled
  BY GameFilesystemAssumption DEF Init, Journaled
<1>4. QED
  BY <1>1, <1>2, <1>3 DEF FilesInv

LEMMA StartFiles ==
  ASSUME IInv, FilesInv, Start
  PROVE  FilesInv' /\ TreeStep
<1>1. /\ UNCHANGED <<files, deleted, journal>> /\ op' = Nothing
      /\ staging' = staging \/ journal = Nothing
      /\ pc' \in {"mount", "install"}
  <2>1. pc = "idle" /\ op = Nothing
    BY DEF Start, IInv, Control, FilesInv, Done
  <2>2. QED
    BY <2>1 DEF Start
<1>2. IsTree(files)' /\ Journaled' /\ TreeStep
  BY <1>1, DiskKept DEF TreeStep
<1>3. Admitted' /\ Recovering' /\ Done'
  BY <1>1, <1>2 DEF Admitted, Recovering, Done, FilesInv, OperationSteps, RecoverySteps
<1>4. QED
  BY <1>2, <1>3 DEF FilesInv

LEMMA MountFiles ==
  ASSUME IInv, FilesInv, Mount
  PROVE  FilesInv' /\ TreeStep
<1>1. UNCHANGED <<disk, op>> /\ pc' = "idle" /\ pc = "mount" /\ process = "mounting"
  BY DEF Mount, IInv, TypeInv, Control
<1>2. IsTree(files)' /\ Journaled' /\ TreeStep
  BY <1>1, DiskKept DEF TreeStep, disk
<1>3. Admitted' /\ Recovering' /\ Done'
  BY <1>1 DEF Admitted, Recovering, Done, FilesInv, OperationSteps, RecoverySteps
<1>4. QED
  BY <1>2, <1>3 DEF FilesInv

LEMMA BeginFiles ==
  ASSUME IInv, FilesInv, BeginRecovery \/ \E o \in Operation : Begin(o)
  PROVE  FilesInv' /\ TreeStep
<1>1. UNCHANGED <<disk, process, index>> /\ process = "up" /\ pc = "idle" /\ op = Nothing
      /\ \/ pc' = "install" /\ op' = Nothing
         \/ pc' = "check"
  BY DEF BeginRecovery, Begin, FilesInv, Done
<1>2. IsTree(files)' /\ Journaled' /\ TreeStep
  BY <1>1, DiskKept DEF TreeStep, disk
<1>3. index'.files = files' /\ index'.deleted = deleted'
  BY <1>1, IdleMatches DEF disk
<1>4. Admitted' /\ Recovering' /\ Done'
  BY <1>1, <1>3 DEF Admitted, Recovering, Done, OperationSteps, RecoverySteps
<1>5. QED
  BY <1>2, <1>4 DEF FilesInv

\* What the process sees when it admits an operation is what the disk has.
LEMMA CheckFiles ==
  ASSUME IInv, FilesInv, Check
  PROVE  FilesInv' /\ TreeStep
<1>1. UNCHANGED <<disk, process, index, changed>> /\ pc = "check" /\ op \in Operation
      /\ op # Nothing /\ journal = Nothing /\ process = "up"
  BY OperationHasNoJournal DEF Check, OperationSteps
<1>2. IsTree(files)' /\ Journaled' /\ TreeStep /\ \A n \in Path : V(n)' = V(n)
  BY <1>1, DiskKept DEF TreeStep, disk
<1>3. \A n \in Path : V(n) = Seen(n)
  BY <1>1 DEF FilesInv, Admitted, V, Seen
<1>4. CASE op' = Nothing /\ pc' = "publish"
  <2>1. Admitted' /\ Recovering' /\ Done'
    BY <1>1, <1>4 DEF Admitted, Recovering, Done, OperationSteps, RecoverySteps
  <2>2. QED
    BY <1>2, <2>1 DEF FilesInv
<1>5. CASE Allowed(op) /\ pc' = FirstStep(op) /\ op' = op
  <2>1. /\ pc' \in {"hide", "parents"} /\ Allowed(op)'
        /\ pc' = "hide" => op.kind \in {"remove", "removeDirectory", "removeTree"}
    BY <1>1, <1>5 DEF FirstStep, Allowed, RenameAllowed, Seen, SeenChildren, ParentSeen
  <2>2. \A n \in Path : V(n)' = Seen(n)'
    BY <1>1, <1>2, <1>3 DEF Seen
  <2>3. pc' = "parents" =>
          \/ op.kind = "makeDirectory" /\ V(op.path) = Absent
             /\ \A m \in Above(Target) : V(m) \in {Dir, Absent}
          \/ op.kind \in {"write", "create", "rename"} /\ \A m \in Above(Target) : V(m) = Dir
    <3> SUFFICES ASSUME pc' = "parents"
        PROVE  \/ op.kind = "makeDirectory" /\ V(op.path) = Absent
                  /\ \A m \in Above(Target) : V(m) \in {Dir, Absent}
               \/ op.kind \in {"write", "create", "rename"} /\ \A m \in Above(Target) : V(m) = Dir
      OBVIOUS
    <3>1. op.kind \in {"write", "create", "makeDirectory", "rename"} /\ op.path \in Path
      BY <1>1, <1>5, OperationTypes DEF FirstStep, Operation, Kinds
    <3>2. CASE op.kind = "makeDirectory"
      BY <1>3, <1>5, <3>1, <3>2 DEF Allowed, Target, Above
    <3>3. CASE op.kind \in {"write", "create"}
      BY <1>3, <1>5, <3>1, <3>3 DEF Allowed, ParentSeen, Target, Above
    <3>4. CASE op.kind = "rename"
      BY <1>3, <1>5, <3>1, <3>4 DEF Allowed, RenameAllowed, ParentSeen, Target, Above
    <3>5. QED
      BY <3>1, <3>2, <3>3, <3>4
  <2>4. pc' = "parents" => \A m \in Above(Target) : files[m] \in {Dir, Absent}
    <3>1. \A m \in Path : files[m] # Absent => files[m] = V(m)
      BY ViewMeans DEF V, FilesInv, IInv, TypeInv
    <3>2. QED
      BY <2>3, <3>1, NodeTypes DEF Above
  <2>5. Admitted'
    <3>1. Target' = Target
      BY <1>5 DEF Target
    <3>2. pc' = "parents" => \A m \in Above(Target') : files'[m] \in {Dir, Absent}
      BY <1>1, <2>4, <3>1 DEF disk
    <3>3. (pc' = "parents" /\ op.kind = "makeDirectory") =>
             V(op.path) = Absent /\ \A m \in Above(op.path) : V(m) \in {Dir, Absent}
      BY <2>3 DEF Target
    <3>4. QED
      BY <1>1, <1>5, <2>1, <2>2, <3>2, <3>3 DEF Admitted, OperationSteps, disk, V
  <2>6. Recovering' /\ Done'
    BY <1>1, <2>1 DEF Recovering, Done, OperationSteps, RecoverySteps
  <2>7. QED
    BY <1>2, <2>5, <2>6 DEF FilesInv
<1>6. QED
  BY <1>4, <1>5 DEF Check

\* Steps of an operation that has no journal: what readers see is the tree.
LEMMA WithoutJournal ==
  ASSUME IInv, IInv', journal = Nothing, UNCHANGED journal
  PROVE  /\ \A n \in Path : T(n) = V(n) /\ T(n)' = V(n)'
         /\ Journaled' /\ (pc' \notin RecoverySteps => Recovering')
<1>1. Nothing \notin Renames
  BY GameFilesystemAssumption
<1>2. QED
  BY <1>1, NoJournal DEF Journaled, Recovering, RecoverySteps

\* makeDirectory() of a missing parent.
LEMMA ParentsFiles ==
  ASSUME IInv, FilesInv, Parents
  PROVE  FilesInv' /\ TreeStep
<1>1. /\ UNCHANGED <<deleted, staging, journal, process, index, changed, op>>
      /\ pc = "parents" /\ op \in Operation /\ op # Nothing /\ journal = Nothing
      /\ process = "up"
  BY OperationHasNoJournal DEF Parents, OperationSteps
<1>2. IInv' /\ op.kind \in {"write", "create", "makeDirectory", "rename"}
      /\ Target \in Path /\ op.path \in Path
  BY <1>1, ParentsKeep, OperationTypes DEF IInv, Control, Target
<1>3. /\ \A n \in Path : T(n) = V(n) /\ T(n)' = V(n)'
      /\ Journaled' /\ (pc' \notin RecoverySteps => Recovering')
  BY <1>1, <1>2, WithoutJournal
<1>4. /\ files \in [Path -> Node] /\ IsTree(files)
      /\ \A m \in Above(Target) : files[m] \in {Dir, Absent}
  BY <1>1 DEF IInv, TypeInv, FilesInv, Admitted
<1>5. Allowed(op)' /\ Allowed(op)
  BY <1>1
     DEF FilesInv, Admitted, OperationSteps, Allowed, RenameAllowed, Seen, SeenChildren, ParentSeen
<1>6. CASE /\ files' = files /\ \A m \in Above(Target) : files[m] # Absent
           /\ pc' = CASE op.kind = "rename" -> "stage"
                      [] op.kind = "create" -> "create"
                      [] OTHER -> "store"
  <2>1. \A m \in Above(Target) : files[m] = Dir
    BY <1>4, <1>6
  <2>2. \/ pc' = "stage" /\ op.kind = "rename"
        \/ pc' = "create" /\ op.kind = "create"
        \/ pc' = "store" /\ op.kind \in {"write", "makeDirectory"}
    BY <1>2, <1>6
  <2>3. \A n \in Path : V(n)' = V(n) /\ Seen(n)' = Seen(n)
    BY <1>1, <1>6 DEF V, Seen
  <2>4. Admitted'
    BY <1>1, <1>2, <1>5, <1>6, <2>1, <2>2, <2>3
       DEF FilesInv, Admitted, OperationSteps, Target, V
  <2>5. Done' /\ pc' \notin RecoverySteps
    BY <1>1, <2>2 DEF Done, RecoverySteps
  <2>6. QED
    BY <1>3, <1>4, <1>6, <2>3, <2>4, <2>5 DEF FilesInv, TreeStep
<1>7. ASSUME NEW q \in Above(Target), files[q] = Absent, pc' = pc,
             \A m \in Above(q) : files[m] # Absent,
             files' = [files EXCEPT ![q] = Dir]
      PROVE  FilesInv' /\ TreeStep
  <2>1. q \in Path /\ q # Target /\ Above(q) \subseteq Above(Target)
    BY <1>2, AboveOrder
  <2>2. \A m \in Above(q) : files[m] = Dir
    BY <1>4, <1>7, <2>1
  <2>3. /\ IsTree(files')
        /\ \A n \in Path : V(n)' = IF n = q THEN Dir ELSE V(n)
    <3>1. /\ files' \in [Path -> Node] /\ files \in [Path -> Node] /\ IsTree(files)
          /\ q \in Path /\ Dir \in Node /\ files[q] = Absent
          /\ \A m \in Above(q) : files[m] = Dir
          /\ files'[q] = Dir /\ \A m \in Path \ {q} : files'[m] = files[m]
      BY <1>2, <1>4, <1>7, <2>1, <2>2, NodeTypes DEF IInv, TypeInv
    <3>2. View(files, deleted, q) \in Node
      BY <3>1, ViewMeans
    <3>4. IsTree(files')
      BY <3>1, PutTree
    <3>5. ASSUME NEW n \in Path
          PROVE  View(files', deleted, n) = IF n = q THEN Dir ELSE View(files, deleted, n)
      BY <3>1, <3>2, PutView
    <3>3. QED
      BY <1>1, <3>4, <3>5 DEF V
  <2>4. \A m \in Above(q) : V(m) = Dir
    BY <1>2, <1>4, <2>1, <2>2, ViewMeans, NodeTypes, AboveOrder DEF V
  <2>5. \A n \in Path : Seen(n)' = Seen(n)
    BY <1>1 DEF Seen
  <2>6. CASE op.kind \in {"write", "create", "rename"}
    <3>1. \A n \in Path : V(n) = Seen(n)
      BY <1>1, <2>6 DEF FilesInv, Admitted
    <3>2. \A m \in Above(Target) : Seen(m) = Dir
      BY <1>5, <1>2, <2>6 DEF Allowed, RenameAllowed, ParentSeen, Target
    <3>3. \A n \in Path : V(n)' = V(n)
      BY <1>7, <2>1, <2>3, <3>1, <3>2
    <3>4. \A m \in Above(Target) : files'[m] \in {Dir, Absent}
      BY <1>4, <1>7, <2>1, AboveOrder, <1>2
    <3>5. Admitted'
      BY <1>1, <1>5, <1>7, <2>5, <2>6, <3>1, <3>3, <3>4
         DEF Admitted, OperationSteps, Target
    <3>6. Done' /\ pc' \notin RecoverySteps
      BY <1>1, <1>7 DEF Done, RecoverySteps
    <3>7. QED
      BY <1>3, <2>3, <3>3, <3>5, <3>6 DEF FilesInv, TreeStep
  <2>7. CASE op.kind = "makeDirectory"
    <3>1. V(op.path) = Absent /\ (\A m \in Above(op.path) : V(m) \in {Dir, Absent})
          /\ Target = op.path
      BY <1>1, <2>7 DEF FilesInv, Admitted, Target
    <3>2. V(op.path)' = Absent /\ \A m \in Above(op.path) : V(m)' \in {Dir, Absent}
      <4>1. \A n \in Path : View(files', deleted', n) = IF n = q THEN Dir ELSE V(n)
        BY <2>3 DEF V
      <4>2. View(files', deleted', op.path) = Absent
        BY <1>2, <2>1, <3>1, <4>1
      <4>3. \A m \in Above(op.path) : View(files', deleted', m) \in {Dir, Absent}
        BY <1>2, <3>1, <4>1, AboveOrder
      <4>4. QED
        BY <1>1, <4>2, <4>3 DEF V
    <3>3. \A m \in Above(Target) : files'[m] \in {Dir, Absent}
      BY <1>4, <1>7, <2>1, AboveOrder, <1>2
    <3>4. Admitted'
      BY <1>1, <1>5, <1>7, <2>7, <3>2, <3>3
         DEF Admitted, OperationSteps, Target
    <3>5. Done' /\ pc' \notin RecoverySteps
      BY <1>1, <1>7 DEF Done, RecoverySteps
    <3>6. TreeStep
      <4>1. CASE V(q) = Dir
        BY <1>3, <2>1, <2>3, <4>1 DEF TreeStep
      <4>2. CASE V(q) = Absent
        <5>1. \A n \in Path : T(n)' = IF n = q THEN Dir ELSE T(n)
          BY <1>3, <2>3
        <5>2. T(q) = Absent /\ \A m \in Above(q) : T(m) = Dir
          BY <1>3, <2>1, <2>4, <4>2, AboveOrder
        <5>3. QED
          BY <2>1, <5>1, <5>2, MakeDirectoryStep DEF TreeStep
      <4>3. QED
        BY <1>7, <3>1, <4>1, <4>2
    <3>7. QED
      BY <1>3, <2>3, <3>4, <3>5, <3>6 DEF FilesInv
  <2>8. QED
    BY <1>2, <2>6, <2>7
<1>8. QED
  <2> DEFINE missing == {q \in Above(Target) : files[q] = Absent}
  <2>1. CASE missing = {}
    BY <1>6, <2>1 DEF Parents
  <2>2. CASE missing # {}
    <3>1. PICK q \in missing : /\ Above(q) \cap missing = {}
                               /\ files' = [files EXCEPT ![q] = Dir]
      BY <2>2 DEF Parents
    <3>2. q \in Above(Target) /\ files[q] = Absent /\ Above(q) \subseteq Above(Target)
      BY <1>2, AboveOrder
    <3>3. \A m \in Above(q) : files[m] # Absent
      BY <3>1, <3>2
    <3>4. pc' = pc
      BY <2>2 DEF Parents
    <3>5. QED
      BY <1>7, <3>1, <3>2, <3>3, <3>4
  <2>3. QED
    BY <2>1, <2>2

\* What putting a node in its place does to the tree of a reader.
LEMMA PutFiles ==
  ASSUME IInv, IInv', FilesInv, journal = Nothing, UNCHANGED <<deleted, journal>>,
         pc' \notin RecoverySteps, NEW p \in Path, NEW v \in Node,
         \A m \in Above(p) : files[m] = Dir,
         \/ v = Dir /\ V(p) = Absent
         \/ v \in Content /\ V(p) # Dir,
         files'[p] = v, \A m \in Path \ {p} : files'[m] = files[m]
  PROVE  /\ IsTree(files)' /\ Journaled' /\ Recovering' /\ TreeStep
         /\ \A n \in Path : V(n)' = IF n = p THEN v ELSE V(n)
<1>1. /\ \A n \in Path : T(n) = V(n) /\ T(n)' = V(n)'
      /\ Journaled' /\ Recovering'
  BY WithoutJournal
<1>2. /\ files' \in [Path -> Node] /\ files \in [Path -> Node] /\ IsTree(files)
      /\ files'[p] = v /\ \A m \in Path \ {p} : files'[m] = files[m]
  BY DEF IInv, TypeInv, FilesInv
<1>3. Dir \notin Content /\ Dir # Absent
  BY NodeTypes, GameFilesystemAssumption DEF Content
<1>4. (V(p) = Absent => files[p] = Absent) /\ (V(p) # Dir => files[p] # Dir)
  BY <1>2, <1>3, ViewMeans DEF V
<1>5. IsTree(files')
  <2>1. files'[p] = Dir \/ files[p] # Dir
    BY <1>2, <1>4
  <2>2. QED
    BY <1>2, <2>1, PutTree
<1>6. ASSUME NEW n \in Path
      PROVE  View(files', deleted, n) = IF n = p THEN v ELSE View(files, deleted, n)
  <2>1. \/ files'[p] = Dir /\ files[p] = Absent
        \/ files'[p] \in Content /\ View(files, deleted, p) # Dir
    BY <1>2, <1>4 DEF V
  <2>2. QED
    BY <1>2, <2>1, PutView
<1>7. \A n \in Path : V(n)' = IF n = p THEN v ELSE V(n)
  BY <1>6 DEF V
<1>8. \A m \in Above(p) : V(m) = Dir
  BY <1>2, <1>3, ViewMeans, AboveOrder DEF V
<1>9. \A n \in Path : T(n)' = IF n = p THEN v ELSE T(n)
  BY <1>1, <1>7
<1>10. T(p) = V(p) /\ \A m \in Above(p) : T(m) = Dir
  BY <1>1, <1>8, AboveOrder
<1>11. Tree!Next
  <2>1. CASE v = Dir /\ V(p) = Absent
    BY <1>9, <1>10, <2>1, MakeDirectoryStep
  <2>2. CASE v \in Content /\ V(p) # Dir
    BY <1>9, <1>10, <2>2, WriteStep
  <2>3. QED
    BY <2>1, <2>2
<1>12. QED
  BY <1>1, <1>5, <1>7, <1>11 DEF TreeStep

\* open('wx') makes the file and leaves it to be filled.
LEMMA CreateFiles ==
  ASSUME IInv, FilesInv, Create
  PROVE  FilesInv' /\ TreeStep
<1>1. /\ UNCHANGED <<deleted, staging, journal, process, index, changed, op>>
      /\ pc = "create" /\ op \in Operation /\ op # Nothing /\ journal = Nothing
      /\ process = "up" /\ pc' = "store" /\ files' = [files EXCEPT ![op.path] = Partial]
  BY OperationHasNoJournal DEF Create, OperationSteps
<1>2. IInv' /\ op.kind = "create" /\ op.path \in Path /\ Target = op.path /\ Allowed(op)
      /\ Target' = Target
  BY <1>1, PutKeeps, OperationTypes DEF FilesInv, Admitted, Target, OperationSteps
<1>3. V(op.path) = Absent
  BY <1>1, <1>2 DEF FilesInv, Admitted, Allowed
<1>4. \A m \in Above(op.path) : files[m] = Dir
  BY <1>1, <1>2 DEF FilesInv, Admitted
<1>5. Partial \in Content /\ Partial \in Node /\ pc' \notin RecoverySteps /\ Absent # Dir
  BY <1>1, NodeTypes DEF Content, RecoverySteps
<1>6. IsTree(files)' /\ Journaled' /\ Recovering' /\ TreeStep
  <2>1. files'[op.path] = Partial /\ \A m \in Path \ {op.path} : files'[m] = files[m]
    BY <1>1, <1>2 DEF IInv, TypeInv
  <2>2. QED
    BY <1>1, <1>2, <1>3, <1>4, <1>5, <2>1, PutFiles
<1>7. Admitted'
  <2>1. Allowed(op)'
    BY <1>1, <1>2 DEF Allowed, RenameAllowed, Seen, SeenChildren, ParentSeen
  <2>2. files'[op.path] = Partial /\ \A m \in Above(op.path) : files'[m] = Dir
    BY <1>1, <1>2, <1>4, AboveOrder DEF IInv, TypeInv
  <2>3. QED
    BY <1>1, <1>2, <2>1, <2>2 DEF Admitted, OperationSteps
<1>8. Done'
  BY <1>1 DEF Done, RecoverySteps
<1>9. QED
  BY <1>6, <1>7, <1>8 DEF FilesInv

\* The file is filled or replaced, or the directory made.
LEMMA StoreFiles ==
  ASSUME IInv, FilesInv, Store
  PROVE  FilesInv' /\ TreeStep
<1> DEFINE v == IF op.kind = "makeDirectory" THEN Dir ELSE op.content
<1>1. /\ UNCHANGED <<deleted, staging, journal, process, index, changed, op>>
      /\ pc = "store" /\ op \in Operation /\ op # Nothing /\ journal = Nothing
      /\ process = "up" /\ pc' = "publish" /\ files' = [files EXCEPT ![op.path] = v]
  BY OperationHasNoJournal DEF Store, OperationSteps
<1>2. IInv' /\ op.kind \in {"write", "create", "makeDirectory"}
      /\ op.path \in Path /\ Target = op.path /\ Allowed(op)
  BY <1>1, PutKeeps, OperationTypes DEF IInv, Control, FilesInv, Admitted, Target, OperationSteps
<1>3. \A m \in Above(op.path) : files[m] = Dir
  BY <1>1, <1>2 DEF FilesInv, Admitted
<1>4. Partial \in Content /\ Partial # Absent /\ Partial # Dir /\ Written \subseteq Content
  BY GameFilesystemAssumption DEF Content
<1>5. v \in Node /\ (\/ v = Dir /\ V(op.path) = Absent
                     \/ v \in Content /\ V(op.path) # Dir)
  <2>1. CASE op.kind = "makeDirectory"
    BY <1>1, <2>1, NodeTypes DEF FilesInv, Admitted
  <2>2. CASE op.kind = "write"
    <3>1. V(op.path) # Dir
      BY <1>1, <1>2, <2>2 DEF FilesInv, Admitted, Allowed
    <3>2. QED
      BY <1>1, <1>4, <2>2, <3>1, OperationTypes, NodeTypes
  <2>3. CASE op.kind = "create"
    <3>1. files[op.path] = Partial
      BY <1>1, <2>3 DEF FilesInv, Admitted
    <3>2. V(op.path) = Partial
      BY <1>2, <1>4, <3>1, ViewMeans DEF V, FilesInv, IInv, TypeInv
    <3>3. QED
      BY <1>1, <1>4, <2>3, <3>2, OperationTypes, NodeTypes
  <2>4. QED
    BY <1>2, <2>1, <2>2, <2>3
<1> HIDE DEF v
<1>6. pc' \notin RecoverySteps
  BY <1>1 DEF RecoverySteps
<1>7. /\ IsTree(files)' /\ Journaled' /\ Recovering' /\ TreeStep
      /\ \A n \in Path : V(n)' = IF n = op.path THEN v ELSE V(n)
  <2>1. files'[op.path] = v /\ \A m \in Path \ {op.path} : files'[m] = files[m]
    BY <1>1, <1>2 DEF IInv, TypeInv
  <2>2. QED
    BY <1>1, <1>2, <1>3, <1>5, <1>6, <2>1, PutFiles
<1>8. Admitted'
  BY <1>1 DEF Admitted, OperationSteps
<1>9. DoneOnDisk(op)'
  <2>1. \A n \in Path : View(files', deleted', n) = IF n = op.path THEN v ELSE V(n)
    BY <1>7 DEF V
  <2>2. CASE op.kind = "makeDirectory"
    <3>1. V(op.path) = Absent
      BY <1>1, <2>2 DEF FilesInv, Admitted
    <3>2. \A n \in Below(op.path) \ {op.path} : V(n) = Absent
      <4>1. \A n \in Below(op.path) \ {op.path} : n \in Path /\ op.path \in Above(n)
        BY <1>2 DEF Below, Above
      <4>2. QED
        BY <3>1, <4>1, ViewIsTree, NodeTypes DEF V, FilesInv, IInv, TypeInv
    <3>3. View(files', deleted', op'.path) = Dir
      BY <1>1, <1>2, <2>1, <2>2 DEF v
    <3>4. \A n \in Below(op.path) \ {op.path} : View(files', deleted', n) = Absent
      BY <2>1, <3>2 DEF Below
    <3>5. QED
      BY <1>1, <2>2, <3>3, <3>4 DEF DoneOnDisk, V
  <2>3. CASE op.kind \in {"write", "create"}
    <3>1. View(files', deleted', op'.path) = op'.content
      BY <1>1, <1>2, <2>1, <2>3 DEF v
    <3>2. QED
      BY <1>1, <2>3, <3>1 DEF DoneOnDisk, V
  <2>4. QED
    BY <1>2, <2>2, <2>3
<1>10. Done'
  BY <1>1, <1>9 DEF Done, RecoverySteps
<1>11. QED
  BY <1>7, <1>8, <1>10 DEF FilesInv

\* The marker hides what the game has, and what is shadowed stays until it
\* is erased.
LEMMA HideFiles ==
  ASSUME IInv, FilesInv, Hide
  PROVE  FilesInv' /\ TreeStep
<1> DEFINE p == op.path
           gone == {n \in Below(p) : files[n] = Absent}
<1>1. /\ UNCHANGED <<files, staging, journal, process, index, op>>
      /\ pc = "hide" /\ op \in Operation /\ op # Nothing /\ journal = Nothing
      /\ process = "up" /\ pc' = "erase" /\ deleted' = deleted \cup {p}
  BY OperationHasNoJournal DEF Hide, OperationSteps
<1>2. IInv' /\ p \in Path /\ files \in [Path -> Node] /\ IsTree(files)
  BY <1>1, HideKeeps, OperationTypes DEF IInv, TypeInv, FilesInv
<1> HIDE DEF p
<1>3. pc' \notin RecoverySteps
  BY <1>1 DEF RecoverySteps
<1>4. /\ \A n \in Path : T(n) = V(n) /\ T(n)' = V(n)'
      /\ Journaled' /\ Recovering'
  BY <1>1, <1>2, <1>3, WithoutJournal
<1>5. \A n \in Path : V(n)' = IF n \in gone THEN Absent ELSE V(n)
  <2>1. \A n \in Path : View(files, deleted \cup {p}, n) =
                          IF Under(p, n) /\ files[n] = Absent THEN Absent ELSE View(files, deleted, n)
    BY <1>2, HideView
  <2>2. QED
    BY <1>1, <2>1 DEF V, Below
<1>6. /\ \A n \in Path : V(n) # Absent => \A m \in Above(n) : V(m) = Dir
      /\ \A n \in Path : V(n)' # Absent => \A m \in Above(n) : V(m)' = Dir
  <2>1. files' = files
    BY <1>1
  <2>2. QED
    BY <1>2, <2>1, ViewIsTree DEF V
<1>7. V(p) \in Content \cup {Dir, Absent} /\ Dir \notin Content /\ Dir # Absent
  BY <1>2, ViewMeans, NodeTypes, GameFilesystemAssumption DEF V, Node, Content
<1>8. V(p) # Dir => \A n \in Below(p) \ {p} : V(n) = Absent
  BY <1>2, <1>6 DEF Below, Above
<1>9. TreeStep
  <2>1. CASE V(p) = Dir
    <3>1. \A n \in Path : T(n)' = IF n \in gone THEN Absent ELSE T(n)
      BY <1>4, <1>5
    <3>2. \A n \in Path : T(n)' # Absent => \A m \in Above(n) : T(m)' = Dir
      BY <1>4, <1>6, AboveOrder
    <3>3. gone \in SUBSET Below(p) /\ T(p) = Dir
      BY <1>2, <1>4, <2>1
    <3>4. QED
      BY <1>2, <3>1, <3>2, <3>3, RemovePartStep DEF TreeStep
  <2>2. CASE V(p) \in Content /\ p \in gone
    <3>1. \A n \in Path : T(n)' = IF n = p THEN Absent ELSE T(n)
      BY <1>4, <1>5, <1>7, <1>8, <2>2
    <3>2. QED
      BY <1>2, <1>4, <2>2, <3>1, RemoveStep DEF TreeStep
  <2>3. CASE V(p) = Absent \/ (p \notin gone /\ V(p) # Dir)
    <3>1. \A n \in Path : V(n)' = V(n)
      BY <1>2, <1>5, <1>7, <1>8, <2>3
    <3>2. QED
      BY <1>4, <3>1 DEF TreeStep
  <2>4. QED
    BY <1>7, <2>1, <2>2, <2>3
<1>10. Admitted'
  <2>1. Allowed(op) /\ op.kind \in {"remove", "removeDirectory", "removeTree"}
    BY <1>1 DEF FilesInv, Admitted, OperationSteps
  <2>2. Allowed(op)'
    BY <1>1, <2>1 DEF Allowed, RenameAllowed, Seen, SeenChildren, ParentSeen
  <2>3. op'.path \in deleted'
    BY <1>1 DEF p
  <2>4. QED
    BY <1>1, <2>1, <2>2, <2>3 DEF Admitted, OperationSteps
<1>11. Done'
  BY <1>1 DEF Done, RecoverySteps
<1>12. QED
  BY <1>1, <1>2, <1>4, <1>9, <1>10, <1>11 DEF FilesInv

\* One node is erased, below the marker.
LEMMA EraseFiles ==
  ASSUME IInv, FilesInv, Erase
  PROVE  FilesInv' /\ TreeStep
<1> DEFINE p == op.path
<1>1. /\ UNCHANGED <<deleted, staging, journal, process, index, changed, op>>
      /\ pc = "erase" /\ op \in Operation /\ op # Nothing /\ journal = Nothing
      /\ process = "up"
  BY OperationHasNoJournal DEF Erase, EraseAll, OperationSteps
<1>2. IInv' /\ p \in Path /\ files \in [Path -> Node] /\ files' \in [Path -> Node]
      /\ IsTree(files) /\ p \in deleted /\ Allowed(op)
  BY <1>1, EraseKeeps, OperationTypes DEF IInv, TypeInv, FilesInv, Admitted, OperationSteps
<1>3. op.kind \in {"remove", "removeDirectory", "removeTree"}
  BY <1>1 DEF FilesInv, Admitted
<1>4. Admitted'
  <2>1. Allowed(op)'
    BY <1>1, <1>2 DEF Allowed, RenameAllowed, Seen, SeenChildren, ParentSeen
  <2>2. pc' \in {"erase", "publish"} /\ op'.path \in deleted'
    BY <1>1, <1>2 DEF Erase, EraseAll
  <2>3. QED
    BY <1>1, <1>3, <2>1, <2>2 DEF Admitted, OperationSteps
<1> HIDE DEF p
<1>5. pc' \notin RecoverySteps
  BY <1>1 DEF Erase, EraseAll, RecoverySteps
<1>6. /\ \A n \in Path : T(n) = V(n) /\ T(n)' = V(n)'
      /\ Journaled' /\ Recovering'
  BY <1>1, <1>2, <1>5, WithoutJournal
<1>7. CASE files[p] = Absent
  <2>1. files' = files /\ pc' = "publish"
    BY <1>7 DEF Erase, EraseAll, p
  <2>2. \A n \in Below(p) : files[n] = Absent /\ Hides(deleted, n)
    <3> SUFFICES ASSUME NEW n \in Below(p) PROVE files[n] = Absent /\ Hides(deleted, n)
      OBVIOUS
    <3>1. n \in Path /\ (n = p \/ p \in Above(n))
      BY <1>2 DEF Below, Above
    <3>2. QED
      BY <1>2, <1>7, <3>1, NodeTypes DEF IsTree, Hides
  <2>3. \A n \in Below(p) : V(n) = Absent
    BY <1>2, <2>2, ViewMeans DEF V, Below
  <2>4. \A n \in Path : V(n)' = V(n)
    BY <1>1, <2>1 DEF V
  <2>5. DoneOnDisk(op)'
    BY <1>1, <1>3, <2>1, <2>3 DEF DoneOnDisk, V, p
  <2>6. Done'
    BY <1>1, <2>1, <2>5 DEF Done, RecoverySteps
  <2>7. QED
    BY <1>2, <1>4, <1>6, <2>1, <2>4, <2>6 DEF FilesInv, TreeStep
<1>8. CASE files[p] # Absent
  <2>1. EraseBelow(p) /\ pc' = "erase"
    BY <1>1, <1>8 DEF Erase, EraseAll, p
  <2>2. PICK leaf \in Below(p) : /\ files[leaf] # Absent
                                 /\ \A q \in Below(leaf) \ {leaf} : files[q] = Absent
                                 /\ files' = [files EXCEPT ![leaf] = Absent]
    BY <2>1 DEF EraseBelow
  <2>3. leaf \in Path /\ files'[leaf] = Absent /\ \A m \in Path \ {leaf} : files'[m] = files[m]
    BY <1>2, <2>2 DEF Below
  <2>4. Hides(deleted, leaf)
    BY <1>2, <2>2 DEF Hides, Above, Below
  <2>5. /\ IsTree(files')
        /\ View(files, deleted, leaf) = files[leaf]
        /\ \A n \in Below(leaf) \ {leaf} : View(files, deleted, n) = Absent
        /\ \A n \in Path : View(files', deleted, n) =
                              IF n = leaf THEN Absent ELSE View(files, deleted, n)
    <3>1. files[leaf] # Absent /\ \A q \in Below(leaf) \ {leaf} : files[q] = Absent
      BY <2>2
    <3>2. QED
      BY <1>2, <2>3, <2>4, <3>1, EraseView
  <2>6. /\ T(leaf) = files[leaf]
        /\ \A n \in Path : T(n)' = IF n = leaf THEN Absent ELSE T(n)
    BY <1>1, <1>6, <2>3, <2>5 DEF V
  <2>7. files[leaf] \in Content \cup {Dir}
    BY <1>2, <2>2, <2>3 DEF Node
  <2>8. TreeStep
    <3>1. CASE files[leaf] \in Content
      BY <2>3, <2>6, <3>1, RemoveStep DEF TreeStep
    <3>2. CASE files[leaf] = Dir
      <4> DEFINE only == {leaf}
      <4>1. /\ only \in SUBSET Below(leaf) /\ T(leaf) = Dir
            /\ \A n \in Path : T(n)' = IF n \in only THEN Absent ELSE T(n)
        BY <2>3, <2>6, <3>2, UnderItself
      <4> HIDE DEF only
      <4>2. \A n \in Path : T(n)' # Absent => \A m \in Above(n) : T(m)' = Dir
        <5>1. \A n \in Path : View(files', deleted, n) # Absent =>
                 \A m \in Above(n) : View(files', deleted, m) = Dir
          BY <1>2, <2>5, ViewIsTree
        <5>2. QED
          BY <1>1, <1>6, <5>1, AboveOrder DEF V
      <4>3. QED
        BY <2>3, <4>1, <4>2, RemovePartStep DEF TreeStep
    <3>3. QED
      BY <2>7, <3>1, <3>2
  <2>9. Done'
    BY <1>1, <2>1 DEF Done, RecoverySteps
  <2>10. QED
    BY <1>4, <1>6, <2>5, <2>8, <2>9 DEF FilesInv
<1>9. QED
  BY <1>7, <1>8

\* copy() puts every node where rename() says.
LEMMA StageMeans ==
  ASSUME IInv, Stage, op \in Operation, op.kind = "rename"
  PROVE  Staged'
<1> DEFINE from == op.path
           to == op.to
<1>1. from \in Path /\ to \in Path
  BY OperationTypes
<1>8. staging' \in [Path -> Node]
  BY SeenIsNode, NodeTypes DEF Stage, Below, IInv
<1> SUFFICES ASSUME NEW n \in Path
             PROVE  staging'[n] = IF Under(to, n) /\ Destination(n, to, from) \in Path
                                  THEN Seen(Destination(n, to, from)) ELSE Absent
  BY <1>8 DEF Stage, Staged, Origin, Seen
<1> DEFINE o == Destination(n, to, from)
           origins == {m \in Below(from) : Destination(m, from, to) = n}
<1>2. staging'[n] = IF origins = {} THEN Absent ELSE Seen(CHOOSE m \in origins : TRUE)
  BY DEF Stage
<1> HIDE DEF from, to
<1>3. ASSUME NEW m \in origins PROVE Under(to, n) /\ o = m /\ m \in Path
  <2>1. m \in Path /\ Under(from, m) /\ Destination(m, from, to) = n
    BY <1>3 DEF Below
  <2>2. QED
    BY <1>1, <2>1, ReplacedUnder
<1>4. ASSUME Under(to, n), o \in Path PROVE o \in origins
  <2>1. Under(from, o) /\ Destination(o, from, to) = n
    BY <1>1, <1>4, ReplacedUnder
  <2>2. QED
    BY <1>4, <2>1 DEF Below
<1>5. CASE origins = {}
  BY <1>2, <1>4, <1>5
<1>6. CASE origins # {}
  <2>1. (CHOOSE m \in origins : TRUE) \in origins
    BY <1>6
  <2>2. (CHOOSE m \in origins : TRUE) = o /\ Under(to, n) /\ o \in Path
    BY <1>3, <2>1
  <2>3. QED
    BY <1>2, <1>6, <2>2
<1>7. QED
  BY <1>5, <1>6

LEMMA StageFiles ==
  ASSUME IInv, FilesInv, Stage
  PROVE  FilesInv' /\ TreeStep
<1>1. /\ UNCHANGED <<files, deleted, journal, process, index, changed, op>>
      /\ pc = "stage" /\ op \in Operation /\ op # Nothing /\ journal = Nothing
      /\ process = "up" /\ pc' = "journal" /\ op.kind = "rename"
  BY OperationHasNoJournal DEF Stage, OperationSteps, IInv, Control
<1>2. IsTree(files)' /\ Journaled' /\ TreeStep /\ \A n \in Path : V(n)' = V(n)
  BY <1>1, DiskKept DEF TreeStep
<1>3. Admitted'
  <2>1. Allowed(op)'
    BY <1>1
       DEF FilesInv, Admitted, OperationSteps, Allowed, RenameAllowed, Seen, SeenChildren, ParentSeen
  <2>2. \A n \in Path : V(n)' = Seen(n)'
    BY <1>1, <1>2 DEF FilesInv, Admitted, Seen
  <2>3. \A m \in Above(Target)' : files'[m] = Dir
    BY <1>1 DEF FilesInv, Admitted, Target
  <2>4. Staged'
    BY <1>1, StageMeans
  <2>5. QED
    BY <1>1, <2>1, <2>2, <2>3, <2>4 DEF Admitted, OperationSteps
<1>4. Recovering' /\ Done'
  BY <1>1 DEF Recovering, Done, RecoverySteps
<1>5. QED
  BY <1>2, <1>3, <1>4 DEF FilesInv

\* The journal makes the rename happen: whoever mounts next completes it.
LEMMA JournalFiles ==
  ASSUME IInv, FilesInv, Journal
  PROVE  FilesInv' /\ TreeStep
<1> DEFINE from == op.path
           to == op.to
           RF == [n \in Path |-> IF Under(to, n) THEN staging[n]
                                 ELSE IF from # to /\ Under(from, n) THEN Absent
                                 ELSE files[n]]
           RD == deleted \cup {from} \cup (IF V(from) = Dir THEN {to} ELSE {})
<1>1. /\ UNCHANGED <<files, deleted, staging, process, index, changed, op>>
      /\ pc = "journal" /\ op \in Operation /\ op # Nothing /\ journal = Nothing
      /\ process = "up" /\ pc' = "install" /\ op.kind = "rename"
  BY OperationHasNoJournal DEF Journal, OperationSteps, IInv, Control
<1>2. /\ IInv' /\ from \in Path /\ to \in Path /\ files \in [Path -> Node] /\ IsTree(files)
      /\ staging \in [Path -> Node] /\ RenameAllowed(from, to)
      /\ \A n \in Path : V(n) = Seen(n)
      /\ \A m \in Above(to) : files[m] = Dir
      /\ Staged
  <2>1. IInv' /\ from \in Path /\ to \in Path /\ files \in [Path -> Node] /\ IsTree(files)
    BY <1>1, JournalKeeps, OperationTypes DEF IInv, TypeInv, FilesInv
  <2>2. Staged /\ Allowed(op) /\ (\A n \in Path : V(n) = Seen(n))
        /\ \A m \in Above(to) : files[m] = Dir
    BY <1>1 DEF FilesInv, Admitted, OperationSteps, Target
  <2>3. staging \in [Path -> Node]
    BY <2>2 DEF Staged
  <2>4. QED
    BY <1>1, <2>1, <2>2, <2>3 DEF Allowed
<1>3. /\ journal' = [source |-> from, destination |-> to, directory |-> V(from) = Dir]
      /\ journal' # Nothing /\ staging # Nothing /\ staging # Moved
      /\ journal'.source = from /\ journal'.destination = to
      /\ journal'.directory = (V(from) = Dir)
  <2>1. journal' = [source |-> from, destination |-> to, directory |-> V(from) = Dir]
    BY <1>2 DEF Journal
  <2>2. journal' \in Renames
    BY <1>2, <2>1 DEF Renames
  <2>3. QED
    BY <1>2, <2>1, <2>2, GameFilesystemAssumption
<1>4. V(from) # Absent /\ (from # to => ~Under(from, to) /\ ~Under(to, from))
  <2>1. V(from) # Absent /\ (from = to \/ ~Under(from, to))
    BY <1>2 DEF RenameAllowed
  <2>2. ASSUME from # to, Under(to, from) PROVE FALSE
    <3>1. to \in Above(from)
      BY <1>2, <2>2 DEF Above
    <3>2. V(to) = Dir
      BY <1>2, <2>1, <3>1, ViewIsTree DEF V
    <3>3. QED
      BY <1>2, <2>2, <3>2, NodeTypes DEF RenameAllowed
  <2>3. QED
    BY <2>1, <2>2
<1>5. /\ \A n \in Path : ~Under(to, n) => staging[n] = Absent
      /\ \A n \in Path : Under(to, n) => staging[n] =
           IF Destination(n, to, from) \in Path THEN V(Destination(n, to, from)) ELSE Absent
      /\ staging[to] = V(from)
  <2>1. \A n \in Path : staging[n] =
           IF Under(to, n) /\ Destination(n, to, from) \in Path
           THEN V(Destination(n, to, from)) ELSE Absent
    BY <1>2 DEF Staged, Origin
  <2>2. Under(to, to) /\ Destination(to, to, from) = from
    BY <1>2, UnderOrder, ReplacedItself
  <2>3. QED
    BY <1>2, <2>1, <2>2
<1>6. ASSUME NEW n \in Path, staging[n] # Absent, NEW m \in Above(n), Under(to, m)
      PROVE  staging[m] = Dir
  <2> DEFINE o == Destination(n, to, from)
             k == Destination(m, to, from)
  <2>1. m \in Path /\ Under(to, n)
    BY <1>2, <1>5, <1>6, AboveOrder
  <2>2. o \in Path /\ V(o) # Absent
    BY <1>5, <1>6, <2>1
  <2>3. k \in Above(o)
    BY <1>2, <1>6, <2>1, <2>2, ReplacedAbove
  <2>4. k \in Path
    BY <2>2, <2>3, AboveOrder
  <2> HIDE DEF o, k
  <2>5. V(k) = Dir
    BY <1>2, <2>2, <2>3, ViewIsTree DEF V
  <2>6. QED
    BY <1>5, <1>6, <2>1, <2>4, <2>5 DEF k
<1> HIDE DEF from, to
<1>7. RecoveredFiles' = RF /\ RecoveredDeleted' = RD
  <2>1. RecoveredFiles' = RF
    BY <1>1, <1>3 DEF RecoveredFiles, ValueStaged, CaseOnly
  <2>2. RecoveredDeleted' = RD
    BY <1>1, <1>3 DEF RecoveredDeleted
  <2>3. QED
    BY <2>1, <2>2
<1>8. RF \in [Path -> Node] /\ \A n \in Path : RF[n] = IF Under(to, n) THEN staging[n]
                                 ELSE IF from # to /\ Under(from, n) THEN Absent
                                 ELSE files[n]
  BY <1>2, NodeTypes
<1> HIDE DEF RF
<1>9. IsTree(RF)
  <2> SUFFICES ASSUME NEW n \in Path, RF[n] # Absent, NEW m \in Above(n) PROVE RF[m] = Dir
    BY DEF IsTree
  <2>1. m \in Path /\ Under(m, n)
    BY AboveOrder
  <2>2. CASE Under(to, n)
    <3>1. staging[n] # Absent
      BY <1>8, <2>2
    <3>2. CASE Under(to, m)
      BY <1>6, <1>8, <2>1, <3>1, <3>2
    <3>3. CASE ~Under(to, m)
      <4>1. Under(m, to) /\ m # to
        BY <1>2, <2>1, <2>2, <3>3, UnderOrder
      <4>2. files[m] = Dir
        BY <1>2, <2>1, <4>1 DEF Above
      <4>3. ~(from # to /\ Under(from, m))
        BY <1>2, <1>4, <2>1, <4>1, UnderOrder
      <4>4. QED
        BY <1>8, <2>1, <3>3, <4>2, <4>3
    <3>4. QED
      BY <3>2, <3>3
  <2>3. CASE ~Under(to, n)
    <3>1. ~(from # to /\ Under(from, n)) /\ files[n] # Absent
      BY <1>8, <2>3
    <3>2. ~Under(to, m) /\ ~(from # to /\ Under(from, m))
      BY <1>2, <2>1, <2>3, <3>1, UnderOrder
    <3>3. files[m] = Dir
      BY <1>2, <3>1 DEF IsTree
    <3>4. QED
      BY <1>8, <2>1, <3>2, <3>3
  <2>4. QED
    BY <2>2, <2>3
<1>10. \A n \in Path : T(n)' = View(RF, RD, n)
  BY <1>7 DEF T
<1>11. ASSUME NEW n \in Path, Under(to, n) PROVE View(RF, RD, n) = staging[n]
  <2>1. CASE staging[n] # Absent
    BY <1>8, <1>9, <1>11, <2>1, ViewMeans
  <2>2. CASE staging[n] = Absent /\ V(from) = Dir
    <3>1. Hides(RD, n)
      BY <1>2, <1>11, <2>2 DEF Hides, Above
    <3>2. QED
      BY <1>8, <1>9, <1>11, <2>2, <3>1, ViewMeans
  <2>3. CASE staging[n] = Absent /\ V(from) # Dir
    <3>1. V(from) \in Content
      BY <1>2, <1>4, <2>3, ViewMeans DEF V, Node
    <3>2. to \in Above(n) /\ RF[to] \in Content
      <4>1. n # to /\ Under(to, to)
        BY <1>2, <1>4, <1>5, <2>3, UnderOrder
      <4>2. QED
        BY <1>2, <1>5, <1>8, <1>11, <3>1, <4>1 DEF Above
    <3>3. QED
      BY <1>8, <1>9, <1>11, <2>3, <3>2, ViewMeans
  <2>4. QED
    BY <2>1, <2>2, <2>3
<1>12. ASSUME NEW n \in Path, from # to, Under(from, n) PROVE View(RF, RD, n) = Absent
  <2>1. ~Under(to, n)
    BY <1>2, <1>4, <1>12, UnderOrder
  <2>2. RF[n] = Absent /\ Hides(RD, n)
    BY <1>2, <1>8, <1>12, <2>1 DEF Hides, Above
  <2>3. QED
    BY <1>8, <1>9, <2>2, ViewMeans
<1>13. ASSUME NEW n \in Path, ~Under(to, n), ~Under(from, n) PROVE View(RF, RD, n) = V(n)
  <2>1. \A m \in Above(n) \cup {n} : m \in Path /\ Under(m, n)
    BY UnderOrder DEF Above
  <2>2. \A m \in Above(n) \cup {n} : ~Under(to, m) /\ ~Under(from, m) /\ m # to /\ m # from
    BY <1>2, <1>13, <2>1, UnderOrder
  <2>3. \A m \in Above(n) \cup {n} : RF[m] = files[m] /\ (m \in RD <=> m \in deleted)
    BY <1>8, <2>1, <2>2
  <2>4. QED
    BY <2>3 DEF View, Hides, V
<1> HIDE DEF RD
<1>14. \A n \in Path : T(n) = V(n)
  BY <1>1, NoJournal
<1>15. TreeStep
  <2>1. CASE from = to
    <3>1. ASSUME NEW n \in Path, Under(to, n) PROVE staging[n] = V(n)
      BY <1>2, <1>5, <2>1, <3>1, ReplacedInPlace
    <3>2. \A n \in Path : T(n)' = T(n)
      BY <1>10, <1>11, <1>13, <1>14, <2>1, <3>1
    <3>3. QED
      BY <3>2 DEF TreeStep
  <2>2. CASE from # to
    <3>1. \A n \in Path : Under(from, n) => ~Under(to, n)
      BY <1>2, <1>4, <2>2, UnderOrder
    <3>2. \A n \in Path : T(n)' =
            IF Under(from, n) THEN Absent
            ELSE IF Under(to, n)
                 THEN IF Destination(n, to, from) \in Path THEN T(Destination(n, to, from)) ELSE Absent
            ELSE T(n)
      <4> SUFFICES ASSUME NEW n \in Path
          PROVE  T(n)' = IF Under(from, n) THEN Absent
            ELSE IF Under(to, n)
                 THEN IF Destination(n, to, from) \in Path THEN T(Destination(n, to, from)) ELSE Absent
            ELSE T(n)
        OBVIOUS
      <4>1. CASE Under(from, n)
        BY <1>10, <1>12, <2>2, <4>1
      <4>2. CASE ~Under(from, n) /\ Under(to, n)
        BY <1>5, <1>10, <1>11, <1>14, <4>2
      <4>3. CASE ~Under(from, n) /\ ~Under(to, n)
        BY <1>10, <1>13, <1>14, <4>3
      <4>4. QED
        BY <4>1, <4>2, <4>3
    <3>3. T(from) # Absent /\ ~Under(from, to) /\ ~Under(to, from)
      BY <1>2, <1>4, <1>14, <2>2
    <3>4. \A m \in Above(to) : T(m) = Dir
      <4>1. \A m \in Above(to) : m \in Path /\ files[m] = Dir
        BY <1>2, AboveOrder
      <4>2. QED
        BY <1>2, <1>14, <4>1, ViewMeans, NodeTypes DEF V
    <3>5. T(to) # Absent => (T(from) = Dir <=> T(to) = Dir)
      BY <1>2, <1>14, <2>2 DEF RenameAllowed
    <3>6. \A n \in Below(to) \ {to} : T(n) = Absent
      <4> SUFFICES ASSUME NEW n \in Below(to) \ {to} PROVE V(n) = Absent
        BY <1>14 DEF Below
      <4>1. n \in Path /\ to \in Above(n)
        BY <1>2 DEF Below, Above
      <4>2. CASE V(to) = Absent
        BY <1>2, <4>1, <4>2, ViewIsTree, NodeTypes DEF V
      <4>3. CASE V(to) # Absent
        BY <1>2, <2>2, <4>1, <4>3 DEF RenameAllowed, SeenChildren
      <4>4. QED
        BY <4>2, <4>3
    <3>7. QED
      BY <1>2, <3>2, <3>3, <3>4, <3>5, <3>6, RenameStep DEF TreeStep
  <2>3. QED
    BY <2>1, <2>2
<1>16. Journaled'
  <2>1. \A m \in Above(journal'.destination) : files'[m] = Dir
    BY <1>1, <1>2, <1>3
  <2>2. ~CaseOnly' => /\ ~Under(journal'.source, journal'.destination)
                      /\ ~Under(journal'.destination, journal'.source)
    BY <1>3, <1>4 DEF CaseOnly
  <2>3. \A n \in Below(journal'.destination) : staging'[n] # Absent =>
           \A m \in Above(n) : Under(journal'.destination, m) => staging'[m] = Dir
    BY <1>1, <1>3, <1>6 DEF Below
  <2>4. QED
    BY <2>1, <2>2, <2>3 DEF Journaled
<1>17. Done'
  <2>1. View(RF, RD, to) # Absent
    BY <1>2, <1>4, <1>5, <1>11, UnderOrder
  <2>2. from # to => \A n \in Below(from) : View(RF, RD, n) = Absent
    BY <1>12 DEF Below
  <2>3. /\ op'.kind = "rename" /\ op'.path = journal'.source /\ op'.to = journal'.destination
        /\ op'.path = from /\ op'.to = to
    BY <1>1, <1>3 DEF from, to
  <2>4. /\ View(RecoveredFiles', RecoveredDeleted', op'.to) # Absent
        /\ op'.path # op'.to => \A n \in Below(op'.path) :
             View(RecoveredFiles', RecoveredDeleted', n) = Absent
    BY <1>7, <2>1, <2>2, <2>3
  <2>5. QED
    BY <1>1, <2>3, <2>4 DEF Done, T
<1>18. Admitted' /\ Recovering'
  BY <1>1 DEF Admitted, Recovering, OperationSteps, RecoverySteps
<1>19. QED
  BY <1>1, <1>2, <1>15, <1>16, <1>17, <1>18 DEF FilesInv

\* A recovery does what whoever mounts next would do anyway.
LEMMA RecoveryStep ==
  ASSUME IInv, FilesInv, pc \in RecoverySteps, pc' \in RecoverySteps,
         UNCHANGED <<journal, process, op>>,
         \A n \in Path : RecoveredFiles'[n] = RecoveredFiles[n],
         \A n \in Path : n \in RecoveredDeleted' <=> n \in RecoveredDeleted
  PROVE  TreeStep /\ Admitted' /\ Done'
<1>1. \A n \in Path : T(n)' = T(n)
  BY AboveOrder DEF T, View, Hides
<1>2. journal.destination \in Path /\ Below(journal.source) \subseteq Path
  BY DEF IInv, Control, Renames, Below
<1>3. (op # Nothing) =>
        /\ op.kind = "rename" /\ op.path = journal.source /\ op.to = journal.destination
        /\ T(op.to) # Absent
        /\ op.path # op.to => \A n \in Below(op.path) : T(n) = Absent
  BY DEF FilesInv, Done
<1>4. (op # Nothing) =>
        /\ T(op.to)' # Absent
        /\ op.path # op.to => \A n \in Below(op.path) : T(n)' = Absent
  <2>1. SUFFICES ASSUME op # Nothing
        PROVE  /\ View(RecoveredFiles', RecoveredDeleted', op'.to) # Absent
               /\ op.path # op.to =>
                    \A n \in Below(op.path) : View(RecoveredFiles', RecoveredDeleted', n) = Absent
    BY DEF T
  <2>2. \A n \in Path : View(RecoveredFiles', RecoveredDeleted', n) = T(n)
    BY <1>1 DEF T
  <2>3. QED
    BY <1>2, <1>3, <2>1, <2>2
<1>5. Done'
  <2>1. process # "mounting" \/ op = Nothing
    BY DEF FilesInv, Done
  <2>2. (op # Nothing) =>
          /\ View(RecoveredFiles', RecoveredDeleted', op'.to) # Absent
          /\ op'.path # op'.to =>
               \A n \in Below(op'.path) : View(RecoveredFiles', RecoveredDeleted', n) = Absent
    BY <1>4 DEF T
  <2>3. QED
    BY <1>3, <2>1, <2>2 DEF Done, RecoverySteps, T
<1>6. Admitted'
  BY DEF Admitted, RecoverySteps, OperationSteps
<1>7. QED
  BY <1>1, <1>5, <1>6 DEF TreeStep

LEMMA JournalFacts ==
  ASSUME IInv, FilesInv, pc \in RecoverySteps
  PROVE  /\ journal \in Renames /\ journal # Nothing
         /\ journal.source \in Path /\ journal.destination \in Path
         /\ \A m \in Above(journal.destination) : files[m] = Dir
         /\ ~CaseOnly => /\ ~Under(journal.source, journal.destination)
                         /\ ~Under(journal.destination, journal.source)
         /\ ~CaseOnly => \A n \in Path :
                           ~(Under(journal.source, n) /\ Under(journal.destination, n))
         /\ files \in [Path -> Node] /\ IsTree(files)
<1>1. journal \in Renames /\ journal.source \in Path /\ journal.destination \in Path
      /\ files \in [Path -> Node] /\ IsTree(files)
  BY DEF IInv, TypeInv, Control, Renames, FilesInv
<1>2. /\ \A m \in Above(journal.destination) : files[m] = Dir
      /\ ~CaseOnly => /\ ~Under(journal.source, journal.destination)
                      /\ ~Under(journal.destination, journal.source)
  BY <1>1 DEF FilesInv, Journaled
<1>3. QED
  BY <1>1, <1>2, UnderOrder, GameFilesystemAssumption

\* The old nodes of the destination are cleared away, then its new nodes put
\* there.
LEMMA InstallFiles ==
  ASSUME IInv, FilesInv, Install
  PROVE  FilesInv' /\ TreeStep
<1> DEFINE to == journal.destination
           from == journal.source
<1>1. /\ UNCHANGED <<deleted, journal, process, index, changed, op>>
      /\ pc = "install" /\ pc' \in {"install", "hideSource"}
      /\ pc \in RecoverySteps /\ pc' \in RecoverySteps
  BY DEF Install, RecoverySteps
<1>2. /\ journal \in Renames /\ journal # Nothing /\ from \in Path /\ to \in Path
      /\ \A m \in Above(to) : files[m] = Dir
      /\ ~CaseOnly => ~Under(from, to) /\ ~Under(to, from)
      /\ ~CaseOnly => \A n \in Path : ~(Under(from, n) /\ Under(to, n))
      /\ files \in [Path -> Node] /\ IsTree(files) /\ IInv'
  BY <1>1, JournalFacts, InstallKeeps
<1>3. CASE MustClear
  <2>1. EraseBelow(to) /\ staging' = staging /\ pc' = pc /\ ValueStaged
    BY <1>3 DEF Install, MustClear
  <2>2. PICK leaf \in Below(to) : /\ files[leaf] # Absent
                                  /\ \A q \in Below(leaf) \ {leaf} : files[q] = Absent
                                  /\ files' = [files EXCEPT ![leaf] = Absent]
    BY <2>1 DEF EraseBelow
  <2>3. /\ leaf \in Path /\ Under(to, leaf) /\ files' \in [Path -> Node]
        /\ files'[leaf] = Absent /\ \A m \in Path \ {leaf} : files'[m] = files[m]
    BY <1>2, <2>2 DEF Below, IInv, TypeInv
  <2>4. IsTree(files')
    <3>1. files[leaf] # Absent /\ \A q \in Below(leaf) \ {leaf} : files[q] = Absent
      BY <2>2
    <3>2. QED
      BY <1>2, <2>3, <3>1, EraseView
  <2>5. /\ \A n \in Path : RecoveredFiles'[n] = RecoveredFiles[n]
        /\ \A n \in Path : n \in RecoveredDeleted' <=> n \in RecoveredDeleted
    BY <1>1, <1>2, <2>1, <2>3
       DEF RecoveredFiles, RecoveredDeleted, ValueStaged, CaseOnly
  <2>6. TreeStep /\ Admitted' /\ Done'
    BY <1>1, <2>5, RecoveryStep
  <2>7. Recovering'
    BY <1>1, <2>1 DEF Recovering, RecoverySteps
  <2>8. Journaled'
    <3>1. leaf \notin Above(to)
      BY <1>2, <2>3, UnderOrder DEF Above
    <3>2. \A m \in Above(to) : files'[m] = Dir
      BY <1>2, <2>3, <3>1, AboveOrder
    <3>3. QED
      BY <1>1, <2>1, <3>2 DEF FilesInv, Journaled, CaseOnly, ValueStaged
  <2>9. QED
    BY <2>4, <2>6, <2>7, <2>8 DEF FilesInv
<1>4. CASE ~MustClear /\ ~ValueStaged
  <2>1. UNCHANGED <<files, staging>> /\ pc' = "hideSource"
    BY <1>4 DEF Install
  <2>2. /\ \A n \in Path : RecoveredFiles'[n] = RecoveredFiles[n]
        /\ \A n \in Path : n \in RecoveredDeleted' <=> n \in RecoveredDeleted
    BY <1>1, <2>1 DEF RecoveredFiles, RecoveredDeleted, ValueStaged, CaseOnly
  <2>3. TreeStep /\ Admitted' /\ Done'
    BY <1>1, <2>2, RecoveryStep
  <2>4. Recovering' /\ Journaled'
    BY <1>1, <1>4, <2>1
       DEF FilesInv, Recovering, RecoverySteps, Journaled, CaseOnly, ValueStaged
  <2>5. QED
    BY <1>2, <2>1, <2>3, <2>4 DEF FilesInv
<1>5. CASE ~MustClear /\ ValueStaged
  <2>1. /\ staging' = Moved /\ pc' = "hideSource"
        /\ files' = [n \in Path |-> IF Under(to, n) THEN staging[n] ELSE files[n]]
    BY <1>5 DEF Install
  <2>2. /\ staging \in [Path -> Node]
        /\ \A n \in Path : files'[n] = IF Under(to, n) THEN staging[n] ELSE files[n]
        /\ \A n \in Path : (Under(to, n) /\ staging[n] # Absent) =>
             \A m \in Above(n) : Under(to, m) => staging[m] = Dir
        /\ ~ValueStaged'
    BY <1>2, <1>5, <2>1 DEF IInv, TypeInv, ValueStaged, FilesInv, Journaled, Below
  <2>3. IsTree(files')
    <3> SUFFICES ASSUME NEW n \in Path, files'[n] # Absent, NEW m \in Above(n)
                 PROVE  files'[m] = Dir
      BY DEF IsTree
    <3>1. m \in Path /\ Under(m, n)
      BY AboveOrder
    <3>2. CASE Under(to, n) /\ Under(to, m)
      BY <2>2, <3>1, <3>2
    <3>3. CASE Under(to, n) /\ ~Under(to, m)
      <4>1. m \in Above(to)
        BY <1>2, <3>1, <3>3, UnderOrder DEF Above
      <4>2. QED
        BY <1>2, <2>2, <3>1, <3>3, <4>1
    <3>4. CASE ~Under(to, n)
      <4>1. ~Under(to, m)
        BY <1>2, <3>1, <3>4, UnderOrder
      <4>2. files[n] # Absent
        BY <2>2, <3>4
      <4>3. files[m] = Dir
        BY <1>2, <4>2 DEF IsTree
      <4>4. QED
        BY <2>2, <3>1, <4>1, <4>3
    <3>5. QED
      BY <3>2, <3>3, <3>4
  <2>4. /\ \A n \in Path : RecoveredFiles'[n] = RecoveredFiles[n]
        /\ \A n \in Path : n \in RecoveredDeleted' <=> n \in RecoveredDeleted
    <3>1. \A n \in Path : RecoveredFiles[n] = IF Under(to, n) THEN staging[n]
                            ELSE IF ~CaseOnly /\ Under(from, n) THEN Absent ELSE files[n]
      BY <1>2, <1>5 DEF RecoveredFiles
    <3>2. \A n \in Path : RecoveredFiles'[n] =
                            IF ~CaseOnly /\ Under(from, n) THEN Absent ELSE files'[n]
      BY <1>1, <1>2, <2>2 DEF RecoveredFiles, CaseOnly
    <3>3. \A n \in Path : RecoveredFiles'[n] = RecoveredFiles[n]
      BY <1>2, <2>2, <3>1, <3>2
    <3>4. QED
      BY <1>1, <3>3 DEF RecoveredDeleted
  <2>5. TreeStep /\ Admitted' /\ Done'
    BY <1>1, <2>4, RecoveryStep
  <2>6. Recovering'
    BY <2>1, <2>2 DEF Recovering, RecoverySteps
  <2>7. Journaled'
    <3>1. \A m \in Above(to) : ~Under(to, m) /\ m \in Path
      BY <1>2, AboveOrder
    <3>2. \A m \in Above(to) : files'[m] = Dir
      BY <1>2, <2>2, <3>1
    <3>3. QED
      BY <1>1, <1>2, <2>2, <3>2 DEF Journaled, CaseOnly
  <2>8. QED
    BY <2>3, <2>5, <2>6, <2>7 DEF FilesInv
<1>6. QED
  BY <1>3, <1>4, <1>5

LEMMA MarkerFiles ==
  ASSUME IInv, FilesInv, HideSource \/ HideDestination
  PROVE  FilesInv' /\ TreeStep
<1>1. /\ UNCHANGED <<files, staging, journal, process, index, op>>
      /\ pc \in RecoverySteps /\ pc' \in RecoverySteps
      /\ \/ /\ pc = "hideSource" /\ deleted' = deleted \cup {journal.source}
            /\ pc' = IF journal.directory THEN "hideDestination" ELSE "eraseSource"
         \/ /\ pc = "hideDestination" /\ deleted' = deleted \cup {journal.destination}
            /\ pc' = "eraseSource"
  BY DEF HideSource, HideDestination, RecoverySteps
<1>2. journal # Nothing /\ IsTree(files) /\ (pc = "hideDestination" => journal.directory)
      /\ ~ValueStaged /\ (pc = "hideDestination" => journal.source \in deleted)
  BY <1>1, JournalFacts DEF FilesInv, Recovering, RecoverySteps
<1>3. /\ \A n \in Path : RecoveredFiles'[n] = RecoveredFiles[n]
      /\ \A n \in Path : n \in RecoveredDeleted' <=> n \in RecoveredDeleted
  BY <1>1, <1>2 DEF RecoveredFiles, RecoveredDeleted, ValueStaged, CaseOnly
<1>4. TreeStep /\ Admitted' /\ Done'
  BY <1>1, <1>3, RecoveryStep
<1>5. Recovering'
  BY <1>1, <1>2 DEF Recovering, RecoverySteps, ValueStaged
<1>6. Journaled' /\ IsTree(files)'
  BY <1>1, <1>2 DEF FilesInv, Journaled, CaseOnly, ValueStaged
<1>7. QED
  BY <1>4, <1>5, <1>6 DEF FilesInv

\* What is erased of the source is already out of sight.
LEMMA EraseSourceFiles ==
  ASSUME IInv, FilesInv, EraseSource
  PROVE  FilesInv' /\ TreeStep
<1> DEFINE to == journal.destination
           from == journal.source
<1>1. /\ UNCHANGED <<deleted, staging, journal, process, index, changed, op>>
      /\ pc = "eraseSource" /\ pc' \in {"eraseSource", "removeStaging"}
      /\ pc \in RecoverySteps /\ pc' \in RecoverySteps
  BY DEF EraseSource, EraseAll, disk, RecoverySteps
<1>2. /\ journal \in Renames /\ journal # Nothing /\ from \in Path /\ to \in Path
      /\ \A m \in Above(to) : files[m] = Dir
      /\ ~CaseOnly => ~Under(from, to) /\ ~Under(to, from)
      /\ files \in [Path -> Node] /\ IsTree(files) /\ IInv'
      /\ ~ValueStaged /\ from \in deleted /\ (journal.directory => to \in deleted)
  BY <1>1, JournalFacts, EraseKeeps DEF FilesInv, Recovering, RecoverySteps
<1>3. CASE files' = files /\ (~CaseOnly => files[from] = Absent)
  <2>1. /\ \A n \in Path : RecoveredFiles'[n] = RecoveredFiles[n]
        /\ \A n \in Path : n \in RecoveredDeleted' <=> n \in RecoveredDeleted
    BY <1>1, <1>3 DEF RecoveredFiles, RecoveredDeleted, ValueStaged, CaseOnly
  <2>2. TreeStep /\ Admitted' /\ Done'
    BY <1>1, <2>1, RecoveryStep
  <2>3. ~CaseOnly => \A n \in Below(from) : files[n] = Absent
    <3> SUFFICES ASSUME ~CaseOnly, NEW n \in Below(from) PROVE files[n] = Absent
      OBVIOUS
    <3>1. n \in Path /\ (n = from \/ from \in Above(n))
      BY <1>2 DEF Below, Above
    <3>2. QED
      BY <1>2, <1>3, <3>1, NodeTypes DEF IsTree
  <2>4. Recovering'
    BY <1>1, <1>2, <1>3, <2>3 DEF Recovering, RecoverySteps, ValueStaged, CaseOnly
  <2>5. Journaled' /\ IsTree(files)'
    BY <1>1, <1>2, <1>3 DEF FilesInv, Journaled, CaseOnly, ValueStaged
  <2>6. QED
    BY <2>2, <2>4, <2>5 DEF FilesInv
<1>4. CASE ~CaseOnly /\ files[from] # Absent
  <2>1. EraseBelow(from) /\ pc' = "eraseSource"
    BY <1>1, <1>4 DEF EraseSource, EraseAll
  <2>2. PICK leaf \in Below(from) : /\ files[leaf] # Absent
                                    /\ \A q \in Below(leaf) \ {leaf} : files[q] = Absent
                                    /\ files' = [files EXCEPT ![leaf] = Absent]
    BY <2>1 DEF EraseBelow
  <2>3. /\ leaf \in Path /\ Under(from, leaf) /\ files' \in [Path -> Node]
        /\ files'[leaf] = Absent /\ \A m \in Path \ {leaf} : files'[m] = files[m]
    BY <1>2, <2>2 DEF Below, IInv, TypeInv
  <2>4. IsTree(files')
    <3>1. files[leaf] # Absent /\ \A q \in Below(leaf) \ {leaf} : files[q] = Absent
      BY <2>2
    <3>2. QED
      BY <1>2, <2>3, <3>1, EraseView
  <2>5. /\ \A n \in Path : RecoveredFiles'[n] = RecoveredFiles[n]
        /\ \A n \in Path : n \in RecoveredDeleted' <=> n \in RecoveredDeleted
    BY <1>1, <1>2, <1>4, <2>3
       DEF RecoveredFiles, RecoveredDeleted, ValueStaged, CaseOnly
  <2>6. TreeStep /\ Admitted' /\ Done'
    BY <1>1, <2>5, RecoveryStep
  <2>7. Recovering'
    BY <1>1, <1>2, <2>1 DEF Recovering, RecoverySteps, ValueStaged
  <2>8. Journaled'
    <3>1. leaf \notin Above(to)
      BY <1>2, <1>4, <2>3, UnderOrder DEF Above
    <3>2. \A m \in Above(to) : files'[m] = Dir
      BY <1>2, <2>3, <3>1, AboveOrder
    <3>3. QED
      BY <1>1, <1>2, <3>2 DEF FilesInv, Journaled, CaseOnly, ValueStaged
  <2>9. QED
    BY <2>4, <2>6, <2>7, <2>8 DEF FilesInv
<1>5. QED
  BY <1>1, <1>3, <1>4 DEF EraseSource, EraseAll, disk

\* When the journal goes, the disk already says what it said.
LEMMA RemoveFiles ==
  ASSUME IInv, FilesInv, RemoveStaging \/ RemoveJournal
  PROVE  FilesInv' /\ TreeStep
<1>1. pc \in {"removeStaging", "removeJournal"} /\ pc \in RecoverySteps
      /\ UNCHANGED <<files, deleted, process, index, changed, op>>
  BY DEF RemoveStaging, RemoveJournal, RecoverySteps
<1>2. /\ journal \in Renames /\ journal # Nothing /\ journal.source \in Path
      /\ journal.destination \in Path
      /\ files \in [Path -> Node] /\ IsTree(files)
      /\ ~ValueStaged /\ journal.source \in deleted
      /\ (journal.directory => journal.destination \in deleted)
      /\ ~CaseOnly => \A n \in Below(journal.source) : files[n] = Absent
  BY <1>1, JournalFacts DEF FilesInv, Recovering, RecoverySteps
<1>3. CASE RemoveStaging
  <2>1. pc' = "removeJournal" /\ staging' = Nothing /\ journal' = journal /\ pc' \in RecoverySteps
        /\ ~ValueStaged'
    BY <1>3 DEF RemoveStaging, RecoverySteps, ValueStaged
  <2>2. /\ \A n \in Path : RecoveredFiles'[n] = RecoveredFiles[n]
        /\ \A n \in Path : n \in RecoveredDeleted' <=> n \in RecoveredDeleted
    BY <1>1, <1>2, <2>1 DEF RecoveredFiles, RecoveredDeleted, CaseOnly
  <2>3. TreeStep /\ Admitted' /\ Done'
    BY <1>1, <2>1, <2>2, RecoveryStep
  <2>4. Recovering'
    BY <1>1, <1>2, <2>1 DEF Recovering, CaseOnly
  <2>5. Journaled' /\ IsTree(files)'
    BY <1>1, <1>2, <2>1 DEF FilesInv, Journaled, CaseOnly
  <2>6. QED
    BY <2>3, <2>4, <2>5 DEF FilesInv
<1>4. CASE RemoveJournal
  <2>1. journal' = Nothing /\ pc' = IF process = "mounting" THEN "mount" ELSE "publish"
    BY <1>4 DEF RemoveJournal
  <2>2. \A n \in Path : RecoveredFiles[n] = files[n]
    BY <1>2 DEF RecoveredFiles, Below
  <2>3. \A n \in Path : n \in RecoveredDeleted <=> n \in deleted
    BY <1>2 DEF RecoveredDeleted
  <2>4. \A n \in Path : T(n) = V(n)
    BY <2>2, <2>3, AboveOrder DEF T, V, View, Hides
  <2>5. \A n \in Path : T(n)' = V(n) /\ V(n)' = V(n)
    BY <1>1, <2>1, NoJournal DEF V
  <2>6. TreeStep
    BY <2>4, <2>5 DEF TreeStep
  <2>7. (pc' = "publish" /\ op # Nothing) => DoneOnDisk(op)'
    <3> SUFFICES ASSUME op # Nothing PROVE DoneOnDisk(op)'
      OBVIOUS
    <3>1. /\ op.kind = "rename" /\ op.path = journal.source /\ op.to = journal.destination
          /\ T(op.to) # Absent
          /\ op.path # op.to => \A n \in Below(op.path) : T(n) = Absent
      BY <1>1 DEF FilesInv, Done
    <3>2. /\ V(op.to) # Absent
          /\ op.path # op.to => \A n \in Below(op.path) : V(n) = Absent
      BY <1>2, <2>4, <3>1 DEF Below
    <3>3. DoneOnDisk(op)
      BY <3>1, <3>2 DEF DoneOnDisk
    <3>4. QED
      BY <1>1, <3>3 DEF DoneOnDisk, V
  <2>8. Done'
    <3>1. (pc' = "idle" \/ process' = "mounting") => op' = Nothing
      BY <1>1, <2>1 DEF FilesInv, Done
    <3>2. pc' \in {"mount", "publish"} /\ op' = op
      BY <1>1, <2>1
    <3>3. QED
      BY <2>7, <3>1, <3>2 DEF Done, RecoverySteps
  <2>9. Admitted' /\ Recovering' /\ Journaled' /\ IsTree(files)'
    BY <1>1, <1>2, <2>1, GameFilesystemAssumption
       DEF Admitted, OperationSteps, Recovering, RecoverySteps, Journaled
  <2>10. QED
    BY <2>6, <2>8, <2>9 DEF FilesInv
<1>5. QED
  BY <1>3, <1>4

LEMMA PublishFiles ==
  ASSUME IInv, FilesInv, Publish
  PROVE  FilesInv' /\ TreeStep
<1>1. UNCHANGED <<disk, process>> /\ pc = "publish" /\ pc' = "idle" /\ op' = Nothing
  BY DEF Publish
<1>2. IsTree(files)' /\ Journaled' /\ TreeStep
  BY <1>1, DiskKept DEF TreeStep, disk
<1>3. Admitted' /\ Recovering' /\ Done'
  BY <1>1 DEF Admitted, Recovering, Done, OperationSteps, RecoverySteps
<1>4. QED
  BY <1>2, <1>3 DEF FilesInv

LEMMA FailFiles ==
  ASSUME IInv, FilesInv, Fail \/ Crash
  PROVE  FilesInv' /\ TreeStep
<1>1. UNCHANGED <<files, deleted, journal>> /\ op' = Nothing /\ pc' \in {"publish", "idle"}
      /\ (staging' = staging \/ journal = Nothing)
  BY DEF Fail, Crash, disk
<1>2. IsTree(files)' /\ Journaled' /\ TreeStep
  BY <1>1, DiskKept DEF TreeStep
<1>3. Admitted' /\ Recovering' /\ Done'
  BY <1>1 DEF Admitted, Recovering, Done, OperationSteps, RecoverySteps
<1>4. QED
  BY <1>2, <1>3 DEF FilesInv

LEMMA FilesStep ==
  ASSUME IInv, FilesInv, Next
  PROVE  FilesInv' /\ TreeStep
<1>1. CASE Start \/ Mount \/ BeginRecovery \/ \E o \in Operation : Begin(o)
  BY <1>1, StartFiles, MountFiles, BeginFiles
<1>2. CASE Check \/ Parents \/ Create \/ Store
  BY <1>2, CheckFiles, ParentsFiles, CreateFiles, StoreFiles
<1>3. CASE Hide \/ Erase \/ Stage \/ Journal
  BY <1>3, HideFiles, EraseFiles, StageFiles, JournalFiles
<1>4. CASE Recover
  BY <1>4, InstallFiles, MarkerFiles, EraseSourceFiles, RemoveFiles DEF Recover
<1>5. CASE Publish \/ Fail \/ Crash
  BY <1>5, PublishFiles, FailFiles
<1>6. QED
  BY <1>1, <1>2, <1>3, <1>4, <1>5 DEF Next

\* A step that changes no variable keeps what is said of them.
LEMMA FilesUnchanged ==
  ASSUME FilesInv, UNCHANGED vars
  PROVE  FilesInv'
<1>1. /\ files' = files /\ deleted' = deleted /\ staging' = staging /\ journal' = journal
      /\ process' = process /\ index' = index /\ op' = op /\ pc' = pc
  BY DEF vars, disk
<1>2. IsTree(files)'
  BY <1>1 DEF FilesInv
<1>3. Admitted'
  <2>1. Allowed(op)' = Allowed(op) /\ Target' = Target
    BY <1>1 DEF Allowed, RenameAllowed, Seen, SeenChildren, ParentSeen, Target
  <2>2. Staged' = Staged
    <3>1. \A n \in Path : Seen(Origin(n))' = Seen(Origin(n)) /\ Origin(n)' = Origin(n)
      BY <1>1 DEF Seen, Origin
    <3>2. \A n \in Path : Under(op.to, n)' = Under(op.to, n)
      BY <1>1
    <3>3. QED
      BY <1>1, <3>1, <3>2 DEF Staged
  <2>3. Admitted
    BY DEF FilesInv
  <2>4. /\ ((pc \in {"parents", "create", "store", "stage", "journal"}
              /\ (op.kind \in {"write", "rename"} \/ (op.kind = "create" /\ pc # "store"))) =>
              \A n \in Path : V(n) = Seen(n))'
        /\ ((pc \in {"parents", "store"} /\ op.kind = "makeDirectory") =>
              V(op.path) = Absent /\ \A m \in Above(op.path) : V(m) \in {Dir, Absent})'
    BY <1>1, <2>3 DEF Admitted, V, Seen
  <2>5. QED
    BY <1>1, <2>1, <2>2, <2>3, <2>4 DEF Admitted
<1>4. Journaled' /\ Recovering'
  BY <1>1 DEF FilesInv, Journaled, Recovering, CaseOnly, ValueStaged
<1>5. Done'
  BY <1>1
     DEF FilesInv, Done, DoneOnDisk, V, T, RecoveredFiles, RecoveredDeleted, CaseOnly, ValueStaged
<1>6. QED
  BY <1>2, <1>3, <1>4, <1>5 DEF FilesInv

LEMMA FilesInductive == Spec => [](IInv /\ FilesInv)
<1>1. IInv /\ FilesInv /\ [Next]_vars => FilesInv'
  <2> SUFFICES ASSUME IInv, FilesInv, [Next]_vars PROVE FilesInv'
    OBVIOUS
  <2>1. CASE UNCHANGED vars
    BY <2>1, FilesUnchanged
  <2>2. CASE Next
    BY <2>2, FilesStep
  <2>3. QED
    BY <2>1, <2>2
<1>2. QED
  BY <1>1, Inductive, InitFiles, PTL DEF Spec

LEMMA ReturnStep ==
  ASSUME IInv, FilesInv, Next, pc = "publish", pc' = "idle", process' = "up", op # Nothing,
         NEW o, o = op
  PROVE  Effect(o)'
<1>1. Publish
  <2>1. ~Start /\ ~Mount /\ ~BeginRecovery /\ ~Check /\ ~Parents /\ ~Create /\ ~Store /\ ~Hide
    BY DEF Start, Mount, BeginRecovery, Check, Parents, Create, Store, Hide, IInv, Control
  <2>2. ~Erase /\ ~Stage /\ ~Journal /\ ~Recover /\ ~Fail /\ ~Crash
    BY DEF Erase, Stage, Journal, Recover, Install, HideSource, HideDestination, EraseSource,
           RemoveStaging, RemoveJournal, Fail, Crash
  <2>3. \A k \in Operation : ~Begin(k)
    BY DEF Begin
  <2>4. QED
    BY <2>1, <2>2, <2>3 DEF Next
<1>2. index'.files = files /\ index'.deleted = deleted
  BY <1>1, PublishMatches
<1>3. \A n : View(index'.files, index'.deleted, n) = V(n)
  BY <1>2 DEF V
<1>4. o \in Operation /\ DoneOnDisk(o)
  BY DEF IInv, TypeInv, FilesInv, Done
<1>5. CASE o.kind \in {"write", "create"}
  BY <1>3, <1>4, <1>5 DEF DoneOnDisk, Effect, Seen
<1>6. CASE o.kind = "makeDirectory"
  BY <1>3, <1>4, <1>6 DEF DoneOnDisk, Effect, Seen, SeenChildren
<1>7. CASE o.kind \in {"remove", "removeDirectory", "removeTree"}
  <2>1. \A n \in Below(o.path) : V(n) = Absent
    BY <1>4, <1>7 DEF DoneOnDisk
  <2>2. \A n \in Below(o.path) : Seen(n)' = Absent
    BY <1>3, <2>1 DEF Seen
  <2>3. QED
    BY <1>7, <2>2 DEF Effect
<1>8. CASE o.kind = "rename"
  BY <1>3, <1>4, <1>8 DEF DoneOnDisk, Effect, Seen
<1>9. QED
  BY <1>4, <1>5, <1>6, <1>7, <1>8 DEF Operation, Kinds

-----------------------------------------------------------------------------
(* Theorems                                                                *)

\* updateWritableOverlay() reads only what mutate() recorded, and that is
\* enough: between mutations the index of the overlay is what a mount would
\* read, also after a mutation that threw half of the way.
THEOREM IndexFollowsDisk == Spec => []IndexMatchesDisk
<1>1. IInv => IndexMatchesDisk
  BY IdleMatches DEF IndexMatchesDisk
<1>2. QED
  BY <1>1, Inductive, PTL

\* rename() of storage.cjs leaves no staging directory behind, unless its
\* journal is there to finish it.
THEOREM StagingIsOwned == Spec => []NoOrphanStaging
<1>1. IInv => NoOrphanStaging
  BY DEF IInv, StagingOwned, NoOrphanStaging
<1>2. QED
  BY <1>1, Inductive, PTL

\* Whatever fails and whenever the process dies, the tree that the next mount
\* finds is made by whole operations of the game: every step of mutate() and
\* of recoverRename() is one step of LogicalTree, or none.
THEOREM GameFilesystemImplementsTree == Spec => ImplementsLogicalTree
<1>1. Init => Tree!Init
  <2> SUFFICES ASSUME Init PROVE Tree!Init
    OBVIOUS
  <2>1. \A n \in Path : V(n) = Original[n]
    <3>1. Absent \notin Content
      BY GameFilesystemAssumption DEF Content
    <3>2. \A n \in Path : files[n] = Absent /\ deleted = {}
      BY DEF Init
    <3>3. QED
      BY <3>1, <3>2, AboveOrder DEF V, View, Hides
  <2>2. [n \in Path |-> T(n)] = Original
    BY <2>1, NodeTypes, NoJournal DEF Init
  <2>3. QED
    BY <2>2 DEF Tree!Init, T
<1>2. IInv /\ FilesInv /\ [Next]_vars => [Tree!Next]_Logical
  <2> SUFFICES ASSUME IInv, FilesInv, [Next]_vars
               PROVE  Tree!Next \/ UNCHANGED Logical
    OBVIOUS
  <2>1. CASE UNCHANGED vars
    BY <2>1 DEF vars, disk, Logical, RecoveredFiles, RecoveredDeleted, ValueStaged, CaseOnly
  <2>2. CASE Next
    BY <2>2, FilesStep DEF TreeStep, Logical, T
  <2>3. QED
    BY <2>1, <2>2
<1>3. QED
  BY <1>1, <1>2, FilesInductive, PTL DEF Spec, ImplementsLogicalTree, Tree!Spec, Logical

\* A call of mutate() that returns to the game did what it says, as the game
\* sees it from then on.
THEOREM ReturnedIsDone == Spec => ReturnMeansDone
<1> DEFINE Returned == (pc = "publish" /\ pc' = "idle" /\ process' = "up" /\ op # Nothing) =>
                          \E o \in {op} : Effect(o)'
<1>1. IInv /\ FilesInv /\ [Next]_vars => [Returned]_vars
  BY ReturnStep
<1> HIDE DEF Returned
<1>2. Spec => [][Returned]_vars
  BY <1>1, FilesInductive, PTL DEF Spec
<1>3. QED
  BY <1>2 DEF Returned, ReturnMeansDone

=============================================================================
