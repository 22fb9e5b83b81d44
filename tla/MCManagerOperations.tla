------------------------ MODULE MCManagerOperations ------------------------
(***************************************************************************)
(* Instances of ManagerOperations for TLC.                                 *)
(***************************************************************************)
EXTENDS ManagerOperations

(* Every kind of mount; the disk the end of the stream names is repaired. *)
RepairFirst == [i \in Disks |->
  CASE i = 0 -> "fsck" [] i = 1 -> "mkfs" [] i = 2 -> "failover" [] OTHER -> "ab"]

FailoverDisks == [i \in Disks |-> "failover"]
FsckDisks == [i \in Disks |-> "fsck"]
=============================================================================
