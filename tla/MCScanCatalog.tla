--------------------------- MODULE MCScanCatalog ---------------------------
(* A root with a subdirectory, listed between the two files when they are  *)
(* next to it.                                                             *)
EXTENDS ScanCatalog

CONSTANTS root, a

MCDirs     == {root, a}
MCChildren == [d \in MCDirs |-> IF d = root THEN {a} ELSE {}]
MCRank     == [x \in Files \cup MCDirs |-> CASE x = root -> 0 [] x = 1 -> 1 [] x = a -> 2 [] x = 2 -> 3]
=============================================================================
