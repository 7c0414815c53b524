------------------------------ MODULE MCFiles ------------------------------
(* Instances of Files for TLC: a file over two blocks that are neither the *)
(* first nor in order, one that ends with its block, and the RTC; names    *)
(* longer than some of the reads ask for.                                  *)
EXTENDS Files

MCDir == << [name |-> ".",     length |-> 1, type |-> 1, inode |-> 0],
            [name |-> "frame", length |-> 5, type |-> 2, inode |-> 1],
            [name |-> "rtc",   length |-> 3, type |-> 0, inode |-> 0] >>

MCInodeLength == 0 :> 2 @@ 1 :> 3
MCInodeBlocks == 0 :> (0 :> 1) @@ 1 :> (0 :> 2 @@ 1 :> 0)
=============================================================================
