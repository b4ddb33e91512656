------------------------------ MODULE MCChalld ------------------------------
EXTENDS Challd, TLC

\* Connections are interchangeable, and so are bridge addresses: nothing orders or
\* distinguishes them.
Symmetry == Permutations(Conns) \cup Permutations(BridgeIPs)

\* Every external call of a step may fail.
StepFaults   == (Setup \cup Teardown) \ {"release"}
AllFaults    == StepFaults \cup {"accept", "wait", "crash"}
\* Docker can stop what it has started.
StopsFaults  == AllFaults \ {"stop"}
\* In addition, accept() does not fail and the process lives until it is signalled.
ServeFaults  == StopsFaults \ {"accept", "crash"}
=============================================================================
