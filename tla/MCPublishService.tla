-------------------------- MODULE MCPublishService --------------------------
(* PublishService for TLC.  A workspace has a source file and a             *)
(* requirements.txt.  One contract has been saved from the first revision;  *)
(* then the owner adds a package, and goes on to edit the source.           *)
EXTENDS PublishService, TLC

CONSTANTS sa, sab

MCFileOrder == <<"requirements.txt", "main.py">>

First  == [f \in {"main.py", "requirements.txt"} |-> 0]
Second == [First EXCEPT !["requirements.txt"] = 1]

MCSelected == {First, Second}

MCSaved == <<First>>

MCSpecOf == [r \in MCSelected |-> IF r = First THEN sa ELSE sab]

MCPackagesOf == [s \in Specs |-> IF s = sab THEN {"a", "b"} ELSE {"a"}]
=============================================================================
