---------------------------- MODULE MCBridgeJob -----------------------------
(***************************************************************************)
(* The bridge's OTA job and manager on a small instance: a file of three   *)
(* chunks, in increments of two, against a client and a leaf that may do   *)
(* anything, over either transport.                                        *)
(***************************************************************************)
EXTENDS BridgeJob

CONSTANT fA

MCFiles      == {fA}
MCNumChunks  == [f \in MCFiles |-> 3]

=============================================================================
