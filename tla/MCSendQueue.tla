----------------------------- MODULE MCSendQueue -----------------------------
(* SendQueue on small instances: the sets are given by the cfg files.        *)
EXTENDS SendQueue

=============================================================================
