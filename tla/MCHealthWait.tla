---------------------------- MODULE MCHealthWait ----------------------------
\* The health wait with two checks and short streaks, windows and timeouts.
EXTENDS HealthWait

MCChecks == {"cvo", "node"}
=============================================================================
