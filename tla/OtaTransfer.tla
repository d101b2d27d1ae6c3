---------------------------- MODULE OtaTransfer ----------------------------
(***************************************************************************)
(* One bridge (OtaManager) and one leaf (FileReceiver) over the radio.     *)
(*                                                                         *)
(* Down: frames of the bridge arrive in order, may be lost, and may arrive *)
(* again (neither handle_file_transfer_ nor handle_file_data_ looks at     *)
(* their counter).  The radio queue is bounded; a send into a full queue   *)
(* is ESP_ERR_ESPNOW_NO_MEM.  Up: acks are lost or arrive in order, once   *)
(* (BridgeProtocol::handle_ack_ drops an ack whose counter is not newer).  *)
(* The source feeds the chunks of the file it announced.                   *)
(*                                                                         *)
(* The leaf is an ESP32 or an ESP8266.  The two differ in what an announce *)
(* does to the flash and in the boot; every other operator of              *)
(* FileReceiver8266 is the one of FileReceiver.                            *)
(***************************************************************************)
EXTENDS OtaFrames

CONSTANTS
    Images, CompleteAcks, TxCounters,                    \* of FileReceiver
    Esp8266,        \* the leaf is an ESP8266
    BeginUnstages,  \* of FileReceiver8266
    MaxAttempts, MaxBcRetries, HistoryLen, MaxStartTx,   \* of OtaManager
    QueueLen,       \* frames the radio queue holds
    AckQueueLen,    \* acks in flight
    MaxFaults       \* bound on lost and repeated frames

ASSUME LeafAssumption ==
    /\ Images \subseteq Files
    /\ CompleteAcks \in Nat \ {0}
    /\ TxCounters \subseteq Nat
    /\ Esp8266 \in BOOLEAN
    /\ BeginUnstages \in BOOLEAN

VARIABLES
    rxState, rxFile, rxInc, rxBuf, rxRound, rxWritten, rxAnnTx, rxBcTx, rxAcksLeft,
    hState, restartPending, slots, running, boot, rxOut,
    mState, mFile, mInc, mRound, mBcRetries, mHist, mGaps, mRequested, mPending,
    mSent, mAttempts, mAnnTx, mPublic, txCounter, mOut,
    down,           \* frames in flight to the leaf
    up,             \* acks in flight to the bridge
    faults          \* frames lost or repeated so far

R == INSTANCE FileReceiver8266
M == INSTANCE OtaManager

leafVars   == <<rxState, rxFile, rxInc, rxBuf, rxRound, rxWritten, rxAnnTx, rxBcTx,
                rxAcksLeft, hState, restartPending, slots, running, boot, rxOut>>
bridgeVars == <<mState, mFile, mInc, mRound, mBcRetries, mHist, mGaps, mRequested,
                mPending, mSent, mAttempts, mAnnTx, mPublic, txCounter, mOut>>
vars == <<leafVars, bridgeVars, down, up, faults>>

-----------------------------------------------------------------------------
(* The bridge takes a step; what it sends joins the radio queue.           *)

Room(n) == Len(down) + n <= QueueLen

\* The ABORT of a failing transfer is dropped when the queue is full.
BridgeSends ==
    down' = IF Room(Len(mOut')) THEN down \o mOut' ELSE down

\* What the radio answers depends on the room left in its queue.
SendResult(n) == IF Room(n) THEN "OK" ELSE "NO_MEM"

BridgeStep(A) == A /\ BridgeSends /\ UNCHANGED <<leafVars, up, faults>>

Start(f)          == BridgeStep(M!StartTransfer(f, SendResult(1)))
SourceChunk(seq)  == BridgeStep(M!OnSourceChunk(seq))
SourceAbort       == BridgeStep(M!OnSourceAbort)
AnnounceTimer     == BridgeStep(M!SendAnnounce(SendResult(1)))
SendChunk(seq)    == Room(1) /\ BridgeStep(M!PumpChunk(seq, SendResult(2)))
SendRoundEnd      == BridgeStep(M!PumpBlastComplete(SendResult(1)))
BlastTimer        == BridgeStep(M!RetryBlastComplete(SendResult(1)))
EndTimer          == BridgeStep(M!RetryEnd(SendResult(1)))
SilenceTimer      == BridgeStep(M!LoopSilence)
GlobalTimer       == BridgeStep(M!LoopGlobalTimeout)
TargetLost        == BridgeStep(M!LoopUnreachable)

AckArrives ==
    /\ up # <<>>
    /\ up' = Tail(up)
    /\ M!OnFileAck(Head(up), SendResult(1))
    /\ BridgeSends
    /\ UNCHANGED <<leafVars, faults>>

-----------------------------------------------------------------------------
(* The leaf takes a step; its ack goes up, or is lost if it cannot be sent. *)

LeafSends ==
    up' = IF Len(up) + Len(rxOut') <= AckQueueLen THEN up \o rxOut' ELSE up

LeafHandlesAnnounce(f, tx) ==
    \/ ~Esp8266 /\ R!HandleAnnounce(f, tx)
    \/ Esp8266 /\ R!HandleAnnounce8266(f, tx)

HandleFrame(frame) ==
    \/ frame.phase = "ANNOUNCE" /\ LeafHandlesAnnounce(frame.file, frame.tx)
    \/ frame.phase = "DATA" /\ R!HandleFileData(frame.file, frame.n)
    \/ frame.phase = "BLAST_COMPLETE" /\ R!HandleBlastComplete(frame.n, frame.tx)
    \/ frame.phase = "END" /\ R!HandleEnd
    \/ frame.phase = "ABORT" /\ R!HandleAbort

FrameArrives ==
    /\ down # <<>>
    /\ down' = Tail(down)
    /\ HandleFrame(Head(down))
    /\ LeafSends
    /\ UNCHANGED <<bridgeVars, faults>>

LeafStep(A) == A /\ LeafSends /\ UNCHANGED <<bridgeVars, down, faults>>

LeafCompleteAck == LeafStep(R!SendCompleteAck)
LeafSilence     == LeafStep(R!SilenceTimeout)

\* The leaf reboots or loses its session; frames and acks of the old session
\* no longer pass validate_session_.
NewSession(A) ==
    /\ A
    /\ down' = <<>> /\ up' = <<>>
    /\ UNCHANGED <<bridgeVars, faults>>

LeafRestarts   == (~Esp8266 /\ R!Restart) \/ (Esp8266 /\ R!Restart8266)
LeafLosesPower == (~Esp8266 /\ R!PowerLoss) \/ (Esp8266 /\ R!PowerLoss8266)

LeafRestart      == NewSession(LeafRestarts)
LeafPowerLoss    == faults < MaxFaults /\ rxState # "IDLE" /\ LeafLosesPower
                    /\ down' = <<>> /\ up' = <<>> /\ faults' = faults + 1
                    /\ UNCHANGED bridgeVars
LeafSessionLost  == NewSession(R!SessionCleared)

-----------------------------------------------------------------------------
(* The radio.                                                              *)

Fault == faults < MaxFaults /\ faults' = faults + 1

FrameLost == Fault /\ down # <<>> /\ down' = Tail(down) /\ UNCHANGED <<leafVars, bridgeVars, up>>
AckLost   == Fault /\ up # <<>> /\ up' = Tail(up) /\ UNCHANGED <<leafVars, bridgeVars, down>>

FrameRepeated ==
    /\ Fault /\ down # <<>>
    /\ HandleFrame(Head(down))
    /\ LeafSends
    /\ UNCHANGED <<bridgeVars, down>>

-----------------------------------------------------------------------------

Init == R!Init /\ M!Init /\ down = <<>> /\ up = <<>> /\ faults = 0

BridgeLoop ==
    \/ AnnounceTimer
    \/ \E seq \in M!AllSeqs : SendChunk(seq)
    \/ SendRoundEnd
    \/ BlastTimer
    \/ EndTimer
    \/ SilenceTimer

Next ==
    \/ \E f \in Files : Start(f)
    \/ \E seq \in M!AllSeqs : SourceChunk(seq)
    \/ SourceAbort
    \/ BridgeLoop
    \/ GlobalTimer
    \/ TargetLost
    \/ AckArrives
    \/ FrameArrives
    \/ LeafCompleteAck
    \/ LeafSilence
    \/ LeafRestart
    \/ LeafPowerLoss
    \/ LeafSessionLost
    \/ FrameLost
    \/ AckLost
    \/ FrameRepeated

Spec == Init /\ [][Next]_vars

-----------------------------------------------------------------------------
(* A system in good health: the source is prompt, no timer fires while a   *)
(* frame or an ack is in flight, the leaf accepts what it is offered and   *)
(* its flash works; up to MaxFaults frames are lost or repeated.         *)

\* Nothing is in flight and the leaf has no COMPLETE to send.
Quiet == down = <<>> /\ up = <<>> /\ rxState # "VERIFYING"

LeafHealthy ==
    /\ \A i \in 1..Len(rxOut') : rxOut'[i].kind \notin {"REJECT", "ABORT"} /\ rxOut'[i].ok
    /\ R!WrittenMatchesCommitted'
    /\ Head(down).phase = "ANNOUNCE" => rxOut' # <<>>

HealthyFrameArrives == FrameArrives /\ LeafHealthy
HealthyTimers == Quiet /\ (AnnounceTimer \/ BlastTimer \/ EndTimer)
HealthyFeed ==
    \/ \E seq \in M!AllSeqs : SourceChunk(seq) \/ SendChunk(seq)
    \/ SendRoundEnd

\* kRestartDelayMs outlasts the flight of the last COMPLETE.
HealthyRestart == up = <<>> /\ LeafRestart

HealthyNext ==
    \/ \E f \in Images : Start(f)
    \/ HealthyFeed
    \/ HealthyTimers
    \/ AckArrives
    \/ HealthyFrameArrives
    \/ LeafCompleteAck
    \/ HealthyRestart
    \/ FrameLost
    \/ FrameRepeated /\ LeafHealthy

-----------------------------------------------------------------------------
(* Properties.                                                             *)

LeafCommits == IF rxState = "RECEIVING" THEN rxInc ELSE Incs(rxFile)

\* The bridge is never ahead of the flash: whatever was lost, repeated or
\* left over from an earlier round or transfer, an increment it has moved
\* past is written in the leaf, and the leaf receives the bridge's file.
SenderNotAhead ==
    mState \in {"BLASTING", "WAITING_GAPS", "ENDING"} /\ R!Active =>
      rxFile = mFile /\ mInc <= LeafCommits

\* END is sent only to a leaf that has every chunk in flash.
EndOnlyWhenWritten == mState = "ENDING" /\ R!Active => rxState = "WAITING_END"

\* A GAPS ack never shows every chunk of the increment received, the case in
\* which handle_gaps_ack_ would move on before the leaf has written it.
NoFullBitmap ==
    \A i \in 1..Len(up) :
      up[i].kind = "GAPS" /\ ~up[i].clear /\ mState = "WAITING_GAPS" /\ M!InHistory(up[i].ref) =>
        M!MissingIn(up[i].got) # {}

\* When the bridge reports SUCCESS, the leaf holds the file.
SuccessMeansFlashed ==
    [][mPublic' = "SUCCESS" /\ mPublic # "SUCCESS" =>
         \E s \in {0, 1} : slots[s] = R!Image(mFile)]_vars

\* A transfer, once started, ends on both sides without the global timeout.
TransferEnds == (mState # "IDLE") ~> (mState = "IDLE")
LeafSettles  == (rxState # "IDLE") ~> (rxState = "IDLE")

=============================================================================
