-------------------------- MODULE MCLicenseRequest --------------------------
EXTENDS LicenseRequest

\* The application with retries and without, the background thread with both
\* periods, and the same with no time at all.
CallProfiles ==
  {[timeout |-> 4, short |-> 2, long |-> 0],
   [timeout |-> 3, short |-> 0, long |-> 0],
   [timeout |-> 8, short |-> 2, long |-> 3],
   [timeout |-> 0, short |-> 1, long |-> 3]}
=============================================================================
