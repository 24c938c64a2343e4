---------------------------- MODULE MCAdminStreams ----------------------------
(* AdminStreams for TLC: two start requests.                                 *)
EXTENDS AdminStreams

CONSTANTS s1, s2
=============================================================================
