-------------------------- MODULE MCManagedUpgrade --------------------------
\* The managed upgrade as it is: it has no constants, and every configuration is
\* among its initial states.
EXTENDS ManagedUpgrade
=============================================================================
