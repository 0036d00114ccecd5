------------------------------ MODULE MCKrknRun ------------------------------
\* A chaos run on a short clock.
EXTENDS KrknRun
=============================================================================
