------------------------------ MODULE MCAssets ------------------------------
(* Version 2 changes a and adds the archive z; version 3 takes a back to what  *)
(* it was, changes z and drops b; version 4 holds what version 3 does.       *)
EXTENDS AssetsManager
Releases == << [a |-> 1, b |-> 1, z |-> 0], [a |-> 2, b |-> 1, z |-> 2],
               [a |-> 1, b |-> 0, z |-> 3], [a |-> 1, b |-> 0, z |-> 3] >>
=============================================================================
