--------------------------- MODULE MCPortalDaemon ---------------------------
(****************************************************************************)
(* PortalDaemon for the safety runs of TLC.  Which process is which does not  *)
(* matter: the daemon tells clients apart by their entry and their id.        *)
(****************************************************************************)
EXTENDS PortalDaemon, TLC

PeerSymmetry == Permutations(Peers)
=============================================================================
