------------------------------- MODULE MCMKCP -------------------------------
EXTENDS MKCP

\* More segments than the sender's window holds.
MCWrites == [client |-> 3, server |-> 0]

\* Both sides write.
MCTwoWay == [client |-> 1, server |-> 1]
=============================================================================
