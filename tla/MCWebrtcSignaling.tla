------------------------- MODULE MCWebrtcSignaling -------------------------
(* Three browser sockets of one camera, two session ids. *)
EXTENDS WebrtcSignaling
============================================================================
