----------------------------- MODULE MCRaftNode -----------------------------
\* The members are model values of the configurations; no symmetry is used, since the
\* runs fix who may start elections or check liveness.
EXTENDS RaftImplementsLog, TLC
=============================================================================
