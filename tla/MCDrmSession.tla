---------------------------- MODULE MCDrmSession ----------------------------
(* DrmSession for TLC, with a few session ids as model values. *)
EXTENDS DrmSession
=============================================================================
