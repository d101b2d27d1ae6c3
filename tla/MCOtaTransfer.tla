--------------------------- MODULE MCOtaTransfer ---------------------------
(***************************************************************************)
(* OtaTransfer on a small instance, and both kinds of system side by side: *)
(* one in which everything may happen, and a healthy one.                  *)
(***************************************************************************)
EXTENDS OtaTransfer

CONSTANTS fA, fB

MCFiles     == {fA, fB}
MCNumChunks == [f \in MCFiles |-> IF f = fA THEN 3 ELSE 2]
MCTx        == 1..24

VARIABLE healthy

bothVars == <<vars, healthy>>

Sick(A) == ~healthy /\ A /\ UNCHANGED healthy
Sound(A) == healthy /\ A /\ UNCHANGED healthy

\* The system in which everything may happen, for safety.
SickInit   == Init /\ healthy = FALSE
SafetySpec == SickInit /\ [][Sick(Next)]_bothVars

\* loop() runs for ever on both sides, so a timer whose condition lasts fires;
\* a frame in flight arrives unless it is lost.  Nothing is assumed of the
\* source of a system that is not healthy, and the global timeout (optional in
\* Config) is not needed.
BothInit == Init /\ healthy \in BOOLEAN
BothSpec ==
    /\ BothInit
    /\ [][Sick(Next) \/ Sound(HealthyNext)]_bothVars
    /\ WF_bothVars(Sick(BridgeLoop)) /\ WF_bothVars(Sick(AckArrives))
    /\ WF_bothVars(Sick(FrameArrives)) /\ WF_bothVars(Sick(LeafCompleteAck))
    /\ WF_bothVars(Sick(LeafSilence)) /\ WF_bothVars(Sick(LeafRestart))
    /\ WF_bothVars(Sound(HealthyFeed)) /\ WF_bothVars(Sound(HealthyTimers))
    /\ WF_bothVars(Sound(AckArrives)) /\ WF_bothVars(Sound(HealthyFrameArrives))
    /\ WF_bothVars(Sound(LeafCompleteAck)) /\ WF_bothVars(Sound(HealthyRestart))

\* A lost or repeated frame costs a retry, never the transfer.
HealthyTransferSucceeds == (healthy /\ mState = "ANNOUNCING") ~> (mPublic = "SUCCESS")

=============================================================================
