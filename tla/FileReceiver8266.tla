-------------------------- MODULE FileReceiver8266 --------------------------
(***************************************************************************)
(* The file receiver of the ESP8266: espnow_82xx_remote's copy of the      *)
(* ESP32's (FileReceiver).  There are no two app partitions but one        *)
(* sketch, slot 0, and free flash behind it, slot 1, where the update is   *)
(* staged.  boot = 1 is an update staged whole, which the boot loader      *)
(* copies over the sketch at the next reset.  What the copy left as it was *)
(* has the name of the original with 8266 after it.                        *)
(***************************************************************************)
EXTENDS FileReceiver

CONSTANT BeginUnstages  \* OTABackend::begin forgets an update staged before

ASSUME Receiver8266Assumption == BeginUnstages \in BOOLEAN

-----------------------------------------------------------------------------
(* As on the ESP32.                                                        *)

HandleFileData8266(f, seq) == HandleFileData(f, seq)
IncrementWritten8266 == IncrementWritten
IncrementWriteFailed8266 == IncrementWriteFailed
BlastCompleteGaps8266(inc, tx) == BlastCompleteGaps(inc, tx)
HandleBlastComplete8266(inc, tx) == HandleBlastComplete(inc, tx)
EndVerified8266 == EndVerified
EndRejected8266 == EndRejected
HandleEnd8266 == EndVerified8266 \/ EndRejected8266 \/ EndIgnored
HandleAbort8266 == HandleAbort
SendCompleteAck8266 == SendCompleteAck
SilenceTimeout8266 == SilenceTimeout
SessionCleared8266 == SessionCleared

-----------------------------------------------------------------------------
(* The update is staged behind the sketch.                                 *)

Unstaged == IF BeginUnstages THEN 0 ELSE boot

\* A refusal may come after begin, as it does when begin_md5_ fails.
AnnounceRefused8266(f, tx) ==
    /\ rxState = "IDLE"
    /\ rxAnnTx' = tx
    /\ \/ UNCHANGED <<slots, boot>>
       \/ slots' = Erased /\ boot' = Unstaged
    /\ Reply(PlainAck("REJECT", tx))
    /\ UNCHANGED <<rxState, rxFile, rxInc, rxBuf, rxRound, rxWritten, rxBcTx,
                   rxAcksLeft, hState, restartPending, running>>

\* begin; the ACCEPT goes out.
AnnounceAccepted8266(f, tx) ==
    /\ rxState = "IDLE" /\ hState = "IDLE"
    /\ rxState' = "RECEIVING"
    /\ rxFile' = f
    /\ rxInc' = 0
    /\ rxBuf' = EmptyBuf
    /\ rxRound' = 0
    /\ rxWritten' = FALSE
    /\ rxAnnTx' = tx
    /\ hState' = "RECEIVING"
    /\ slots' = Erased
    /\ boot' = Unstaged
    /\ Reply(PlainAck("ACCEPT", tx))
    /\ UNCHANGED <<rxBcTx, rxAcksLeft, restartPending, running>>

\* begin; the ACCEPT cannot be sent.
AnnounceUnacked8266(f, tx) ==
    /\ rxState = "IDLE" /\ hState = "IDLE"
    /\ slots' = Erased
    /\ boot' = Unstaged
    /\ hState' = "IDLE"
    /\ NoReply
    /\ ResetTransfer
    /\ UNCHANGED <<restartPending, running>>

HandleAnnounce8266(f, tx) ==
    \/ AnnounceRefused8266(f, tx)
    \/ AnnounceWhileActive(f, tx)
    \/ AnnounceAccepted8266(f, tx)
    \/ AnnounceUnacked8266(f, tx)

\* Mutant of CopiedAtBoot: whatever is staged is copied.
AnythingCopied == slots[1] # <<>>

\* What the boot loader copies over the sketch.
CopiedAtBoot == boot = 1

Reboot8266(applied) ==
    /\ slots' = IF CopiedAtBoot /\ applied THEN [slots EXCEPT ![0] = slots[1]] ELSE slots
    /\ boot' = 0
    /\ hState' = "IDLE"
    /\ restartPending' = FALSE
    /\ NoReply
    /\ ResetTransfer
    /\ UNCHANGED running

\* perform_restart_if_due_.
Restart8266 == restartPending /\ Reboot8266(TRUE)

\* A power cut also loses the order to copy, a reset does not.
PowerLoss8266 == \E applied \in BOOLEAN : Reboot8266(applied)

FrameArrives8266 ==
    \/ \E f \in Files, tx \in TxCounters : HandleAnnounce8266(f, tx)
    \/ \E f \in Files : \E seq \in 0 .. (NumChunks[f] - 1) : HandleFileData8266(f, seq)
    \/ \E inc \in AllIncs, tx \in TxCounters : HandleBlastComplete8266(inc, tx)
    \/ HandleEnd8266
    \/ HandleAbort8266

Next8266 ==
    \/ FrameArrives8266
    \/ SendCompleteAck8266
    \/ SilenceTimeout8266
    \/ Restart8266
    \/ SessionCleared8266
    \/ PowerLoss8266

Spec8266 == Init /\ [][Next8266]_rxVars

=============================================================================
