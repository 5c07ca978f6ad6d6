-------------------------- MODULE MCGameFilesystem --------------------------
(* GameFilesystem with two names at the root and one below each; the game   *)
(* comes with a directory that holds a file.                                *)
EXTENDS GameFilesystem

CONSTANTS p, q, x, old, new

MCPath == {<<p>>, <<p, x>>, <<q>>, <<q, x>>}

MCOriginal == [path \in MCPath |->
  IF path = <<p>> THEN Dir ELSE IF path = <<p, x>> THEN old ELSE Absent]
=============================================================================
