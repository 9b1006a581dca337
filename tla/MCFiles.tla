------------------------------- MODULE MCFiles ------------------------------
(* The two pages that list and delete files.  They share nothing but the   *)
(* server's process, so a behaviour is one of either: the two are checked  *)
(* side by side and not multiplied.                                        *)
EXTENDS Scripts, Hdfs

CONSTANTS p1, p2

VARIABLE part  \* the page that the behaviour is about

FilesInit ==
  /\ Init /\ HdfsInit
  /\ \/ part = "scripts" /\ hdfs = {}
     \/ part = "hdfs" /\ Dir = {}

FilesNext ==
  \/ part = "scripts" /\ Next /\ UNCHANGED <<hdfsVars, part>>
  \/ part = "hdfs" /\ HdfsNext /\ UNCHANGED <<vars, part>>

FilesSpec == FilesInit /\ [][FilesNext]_<<vars, hdfsVars, part>>

\* in the order of the numbers that stand for the names
MCListing == [dir \in SUBSET Names |-> SetToSortSeq(dir, LAMBDA m, n : m < n)]

MCPrinted == [fs \in SUBSET Files |-> SetToSortSeq(fs, LAMBDA f, g : f < g)]

SamePages == Permutations(Pages)
=============================================================================
