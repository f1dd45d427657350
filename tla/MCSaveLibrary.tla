---------------------------- MODULE MCSaveLibrary ----------------------------
(* Two titles of an account, one of them with two cache saves, and a system  *)
(* save; the SD card holds a directory, the saves a directory with a file,   *)
(* the partition a file.                                                     *)
EXTENDS SaveLibrary

CONSTANTS acc, cac, sys, t1, t2, t3, n1, n2

A1 == [user |-> acc, title |-> t1, system |-> FALSE, index |-> 0]
A2 == [user |-> acc, title |-> t2, system |-> FALSE, index |-> 0]
C1 == [user |-> cac, title |-> t1, system |-> FALSE, index |-> 0]
C2 == [user |-> cac, title |-> t1, system |-> FALSE, index |-> 1]
S3 == [user |-> sys, title |-> t3, system |-> TRUE, index |-> 0]
MCSave == {A1, A2, C1, C2, S3}
MCAtFirst == {{A1, C1, C2, S3}, {A1, A2, C1}}

\* An account that has a system save as well.
A3 == [user |-> acc, title |-> t3, system |-> TRUE, index |-> 0]
MCSystemSave == {A1, A3}
MCSystemAtFirst == {{A1, A3}}

MCRank == [s \in Save |-> CASE s.title = t1 -> s.index [] s.title = t2 -> 2 [] OTHER -> 3]
MCTrees == [f \in FileSystem |->
    IF f = SdCard THEN [dirs |-> {<<>>, <<n2>>}, files |-> {}]
    ELSE IF f \in Partition THEN [dirs |-> {<<>>}, files |-> {<<n1>>}]
    ELSE [dirs |-> {<<>>, <<n1>>}, files |-> {<<n1, n1>>}]]
=============================================================================
