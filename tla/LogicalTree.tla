---------------------------- MODULE LogicalTree ----------------------------
(***************************************************************************)
(* What the writable game filesystem of runner/storage.cjs promises a game *)
(* across failures and restarts: one tree of files and directories, in     *)
(* which a file is written or removed in one step, a rename moves its whole *)
(* subtree in one step, and only the removal of a directory may be seen (or *)
(* be interrupted) part of the way.                                        *)
(*                                                                         *)
(* GameFilesystem implements this specification with a read-only game, a   *)
(* directory of files, a directory of deletion markers and a journal.      *)
(***************************************************************************)
EXTENDS Naturals, Sequences

CONSTANTS
  Path,      \* the names of the tree: sequences of components
  Content,   \* contents of files
  Dir,       \* the node of a directory
  Absent,    \* no node
  Initial    \* the tree of the game as it was installed

VARIABLE tree

Under(p, q) == Len(p) <= Len(q) /\ SubSeq(q, 1, Len(p)) = p

Below(p) == {q \in Path : Under(p, q)}

ParentIsDir(p) == Len(p) = 1 \/ tree[SubSeq(p, 1, Len(p) - 1)] = Dir

Init == tree = Initial

\* A file is created or replaced as a whole.
Write(p, content) ==
  /\ ParentIsDir(p) /\ tree[p] # Dir
  /\ tree' = [tree EXCEPT ![p] = content]

MakeDirectory(p) ==
  /\ ParentIsDir(p) /\ tree[p] = Absent
  /\ tree' = [tree EXCEPT ![p] = Dir]

Remove(p) ==
  /\ tree[p] \in Content
  /\ tree' = [tree EXCEPT ![p] = Absent]

\* Part of the removal of directory d: nodes below it disappear, no other
\* node changes, and what is left is still a tree.
RemovePart(d) ==
  /\ tree[d] = Dir
  /\ \E gone \in SUBSET Below(d) :
       tree' = [p \in Path |-> IF p \in gone THEN Absent ELSE tree[p]]
  /\ \A p \in Below(d) : tree'[p] # Absent => ParentIsDir(p)'

\* The nodes of `from' take the place of those of `to', which is absent, a
\* file when `from' is one, or an empty directory when `from' is one.
Rename(from, to) ==
  /\ tree[from] # Absent /\ ~Under(from, to) /\ ~Under(to, from)
  /\ ParentIsDir(to)
  /\ tree[to] # Absent => (tree[from] = Dir <=> tree[to] = Dir)
  /\ \A p \in Below(to) \ {to} : tree[p] = Absent
  /\ LET Origin(p) == from \o SubSeq(p, Len(to) + 1, Len(p)) IN
     tree' = [p \in Path |->
       IF p \in Below(from) THEN Absent
       ELSE IF p \in Below(to)
            THEN IF Origin(p) \in Path THEN tree[Origin(p)] ELSE Absent
       ELSE tree[p]]

Next ==
  \E p \in Path :
    \/ \E content \in Content : Write(p, content)
    \/ MakeDirectory(p) \/ Remove(p) \/ RemovePart(p)
    \/ \E to \in Path : Rename(p, to)

Spec == Init /\ [][Next]_tree

=============================================================================
