-------------------------- MODULE MCLicenseRenewal --------------------------
EXTENDS LicenseRenewal

\* The calls of this module make their own profile.
NoProfiles == {[timeout |-> 0, short |-> 1, long |-> 3]}
=============================================================================
