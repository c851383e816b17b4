---------------------------- MODULE MCRpcConsumer ----------------------------
EXTENDS RpcConsumer, TLC

\* No liveness property is checked in the runs that use it.
CallsAreAlike == Permutations(Call)
=============================================================================
