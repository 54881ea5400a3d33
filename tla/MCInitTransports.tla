-------------------------- MODULE MCInitTransports --------------------------
EXTENDS InitTransports, TLC

\* Host identities are only compared for equality.
HostSymmetry == Permutations(Hosts)
===============================================================================
