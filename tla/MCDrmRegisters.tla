---------------------------- MODULE MCDrmRegisters ----------------------------
EXTENDS DrmRegisters

\* What DrmRegisters lets RegisterAccess run.
TheAccesses == AllAccesses
ThePages    == AllPages
=============================================================================
