---------------------------- MODULE MCWorkEngine ----------------------------
EXTENDS WorkEngine

\* Equally urgent items: the order of their last updates decides who runs.
MCPriority == [i \in Items |-> 1]
=============================================================================
