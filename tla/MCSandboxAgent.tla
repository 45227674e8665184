--------------------------- MODULE MCSandboxAgent ---------------------------
(* SandboxAgent for TLC.                                                     *)
EXTENDS SandboxAgent

\* A plain result, one that only says that it may be retried, and an exception.
MCResults ==
    {[status |-> "NONE", retryable |-> again, code |-> ""] : again \in BOOLEAN}
        \cup {[status |-> "OTHER", retryable |-> FALSE, code |-> ""]}

\* A success that may be retried, which no response of child.py is.
MCForged == {[status |-> "SUCCEEDED", retryable |-> TRUE, code |-> ""]}
=============================================================================
