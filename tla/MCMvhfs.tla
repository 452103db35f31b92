------------------------------- MODULE MCMvhfs -------------------------------
(***************************************************************************)
(* Instances of Mvhfs for TLC.  A format keeps the data of the files that  *)
(* were there, and every such remainder multiplies the states of the next  *)
(* life of the disk; so a format begins only on a disk that holds no files *)
(* yet: one never formatted, left behind by an interrupted format, or just *)
(* formatted.                                                              *)
(***************************************************************************)
EXTENDS Mvhfs, TLC

NoFilesYet == \A s \in Slots : superblock[s] # Garbage => superblock[s].generation <= 1

MCSpec == Init /\ [][Next /\ (mvhfs_format => NoFilesYet)]_vars

NameSymmetry == Permutations(Names)
=============================================================================
