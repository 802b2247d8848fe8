---------------------------- MODULE MCDiskInode ----------------------------
(***************************************************************************)
(* DiskInode for TLC.                                                      *)
(***************************************************************************)
EXTENDS DiskInode, TLC

CONSTANTS i, j

\* File i takes every size up to a byte more than its index can hold;
\* file j takes four blocks, fragments what is left and can fill the disk.
MCSizes == (i :> 1..15) @@ (j :> {7})
=============================================================================
