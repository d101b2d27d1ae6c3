---------------------------- MODULE FileReceiver ----------------------------
(***************************************************************************)
(* The leaf side of an OTA transfer: class FileReceiver, its               *)
(* OTAFlashHandler, and the calls RemoteProtocol makes into them.          *)
(*                                                                         *)
(* The module is open: what a frame of the bridge carries is a parameter   *)
(* of the handler that takes it, the ack the handler sends is left in      *)
(* rxOut, and Next lets any frame arrive in any state.  OtaTransfer closes *)
(* the loop with the real bridge.                                          *)
(*                                                                         *)
(* A chunk is the pair <<file, seq>> of the file its bytes come from and   *)
(* its sequence number; an image is the sequence of its chunks.  MD5 is    *)
(* taken to tell different images apart.                                   *)
(***************************************************************************)
EXTENDS OtaFrames

CONSTANTS
    Images,         \* the files whose first byte is the ESP image magic 0xE9
    CompleteAcks,   \* kCompleteAckRetries
    TxCounters      \* frame counters; they only label acks

ASSUME ReceiverAssumption ==
    /\ Images \subseteq Files
    /\ CompleteAcks \in Nat \ {0}
    /\ TxCounters \subseteq Nat

VARIABLES
    rxState,        \* state_; ANNOUNCED, CHECKING and WRITING never outlive a handler
    rxFile,         \* file_size_, file_id_, action_ and last_announce_md5_
    rxInc,          \* current_increment_
    rxBuf,          \* increment_buf_: chunk held at each received index
    rxRound,        \* retransmit_round_
    rxWritten,      \* increment_written_
    rxAnnTx,        \* announce_tx_counter_
    rxBcTx,         \* last_blast_complete_tx_counter_
    rxAcksLeft,     \* complete_ack_remaining_
    hState,         \* OTAFlashHandler::state_, with its OTA handle
    restartPending, \* restart_pending_
    slots,          \* the two OTA app partitions, 0 and 1
    running,        \* the partition the leaf booted from
    boot,           \* the partition otadata selects for the next boot
    rxOut           \* acks sent by the last step

sessionVars == <<rxState, rxFile, rxInc, rxBuf, rxRound, rxWritten, rxAnnTx,
                 rxBcTx, rxAcksLeft>>
flashVars   == <<slots, running, boot>>
rxVars      == <<sessionVars, hState, restartPending, flashVars, rxOut>>

-----------------------------------------------------------------------------
(* Chunks, images and the geometry of the active transfer.                 *)

Chunk == Files \X Nat

\* The whole of file f, as the flash holds it after a faithful transfer.
Image(f) == [i \in 1..NumChunks[f] |-> <<f, i - 1>>]

\* A whole ESP image, which the bootloader accepts.
IsImage(content) == \E f \in Images : content = Image(f)

\* Mutant of UpdateSlot: counted from the selected slot, not the running one.
UpdateSlotFromBoot == 1 - boot

\* esp_ota_get_next_update_partition(nullptr): the slot not running.
UpdateSlot == 1 - running

\* What esp_ota_write appended since esp_ota_begin.
Flash == slots[UpdateSlot]

\* Chunks handed to flash by the increments the receiver has committed.
Committed == IF rxState = "RECEIVING" THEN IncrementStart(Cpi, rxInc) ELSE NumChunks[rxFile]

EmptyBuf == [i \in {} |-> <<NoFile, 0>>]

\* Mutant of BufferComplete: a short last increment never counts as complete.
BufferFull == DOMAIN rxBuf = 0 .. (Cpi - 1)

BufferComplete == DOMAIN rxBuf = 0 .. (NumInInc(rxFile, rxInc) - 1)

-----------------------------------------------------------------------------
(* Acks.                                                                   *)

Reply(ack) == rxOut' = <<ack>>
NoReply    == rxOut' = <<>>

-----------------------------------------------------------------------------
(* reset_(): back to IDLE with every field of the transfer cleared.        *)

ResetTransfer ==
    /\ rxState' = "IDLE"
    /\ rxFile' = NoFile
    /\ rxInc' = 0
    /\ rxBuf' = EmptyBuf
    /\ rxRound' = 0
    /\ rxWritten' = FALSE
    /\ rxAnnTx' = 0
    /\ rxBcTx' = 0
    /\ rxAcksLeft' = 0

\* Mutant of AbortTransfer: the handler is not told.
AbortWithoutHandler(notify) ==
    /\ IF notify THEN Reply(PlainAck("ABORT", rxAnnTx)) ELSE NoReply
    /\ ResetTransfer
    /\ UNCHANGED hState

\* abort(reason, notify_sender): handler on_abort, optional ack, reset_.
AbortTransfer(notify) ==
    /\ hState' = "IDLE"
    /\ IF notify THEN Reply(PlainAck("ABORT", rxAnnTx)) ELSE NoReply
    /\ ResetTransfer

-----------------------------------------------------------------------------
(* ANNOUNCE.  RemoteProtocol stores the frame's counter first.             *)

Erased == [slots EXCEPT ![UpdateSlot] = <<>>]

\* OTA disabled, deep sleep, bad parameters, no space, or (the slot may be
\* erased by then) esp_ota_begin or begin_md5_ failing: REJECT.
AnnounceRefused(f, tx) ==
    /\ rxState = "IDLE"
    /\ rxAnnTx' = tx
    /\ slots' \in {slots, Erased}
    /\ Reply(PlainAck("REJECT", tx))
    /\ UNCHANGED <<rxState, rxFile, rxInc, rxBuf, rxRound, rxWritten, rxBcTx,
                   rxAcksLeft, hState, restartPending, running, boot>>

\* A transfer is active.  The same announce again is accepted again, but
\* only while receiving; anything else is refused.
AnnounceWhileActive(f, tx) ==
    /\ rxState # "IDLE"
    /\ rxAnnTx' = tx
    /\ Reply(PlainAck(IF f = rxFile /\ rxState = "RECEIVING" THEN "ACCEPT" ELSE "REJECT", tx))
    /\ UNCHANGED <<rxState, rxFile, rxInc, rxBuf, rxRound, rxWritten, rxBcTx,
                   rxAcksLeft, hState, restartPending, flashVars>>

\* esp_ota_begin erases the update slot; the ACCEPT goes out.
AnnounceAccepted(f, tx) ==
    /\ rxState = "IDLE" /\ hState = "IDLE"
    /\ rxState' = "RECEIVING"
    /\ rxFile' = f
    /\ rxInc' = 0
    /\ rxBuf' = EmptyBuf
    /\ rxRound' = 0
    /\ rxWritten' = FALSE
    /\ rxAnnTx' = tx
    /\ hState' = "RECEIVING"
    /\ slots' = Erased
    /\ Reply(PlainAck("ACCEPT", tx))
    /\ UNCHANGED <<rxBcTx, rxAcksLeft, restartPending, running, boot>>

\* The ACCEPT could not be sent: the handler is aborted, the slot is erased.
AnnounceUnacked(f, tx) ==
    /\ rxState = "IDLE" /\ hState = "IDLE"
    /\ slots' = Erased
    /\ hState' = "IDLE"
    /\ NoReply
    /\ ResetTransfer
    /\ UNCHANGED <<restartPending, running, boot>>

HandleAnnounce(f, tx) ==
    \/ AnnounceRefused(f, tx)
    \/ AnnounceWhileActive(f, tx)
    \/ AnnounceAccepted(f, tx)
    \/ AnnounceUnacked(f, tx)

-----------------------------------------------------------------------------
(* FILE_DATA: chunk seq, with the bytes of file f.                         *)

\* Mutant of ChunkWanted: the bounds of the increment are not tested.
ChunkOfFile(seq) == rxState = "RECEIVING" /\ seq < NumChunks[rxFile]

\* In the current increment, so it has a place in the buffer.
ChunkWanted(seq) ==
    /\ rxState = "RECEIVING"
    /\ seq < NumChunks[rxFile]
    /\ seq \in SeqsOf(rxFile, rxInc)

DataBuffered(f, seq) ==
    /\ ChunkWanted(seq)
    /\ LET i == seq % Cpi
       IN  /\ i \notin DOMAIN rxBuf
           /\ rxBuf' = [j \in DOMAIN rxBuf \cup {i} |-> IF j = i THEN <<f, seq>> ELSE rxBuf[j]]
    /\ NoReply
    /\ UNCHANGED <<rxState, rxFile, rxInc, rxRound, rxWritten, rxAnnTx, rxBcTx,
                   rxAcksLeft, hState, restartPending, flashVars>>

\* Not receiving, outside the increment, or a duplicate.
DataDropped(f, seq) ==
    /\ ~ChunkWanted(seq) \/ seq % Cpi \in DOMAIN rxBuf
    /\ NoReply
    /\ UNCHANGED <<sessionVars, hState, restartPending, flashVars>>

HandleFileData(f, seq) == DataBuffered(f, seq) \/ DataDropped(f, seq)

-----------------------------------------------------------------------------
(* BLAST_COMPLETE for increment inc: write the increment or report gaps.   *)

\* The first n chunks of the buffered increment, in the order they are written.
Buffered(n) == [i \in 1..n |-> rxBuf[i - 1]]

\* on_data refuses a first chunk without the image magic.
MagicOk == Flash # <<>> \/ rxBuf[0][1] \in Images

\* write_increment_to_flash_ when it does not abort.  "written" is what
\* esp_ota_write took: after a failed chunk the increment is written again
\* from its first chunk, behind the chunks written before the failure.
WriteOutcomes ==
    LET all == Buffered(NumInInc(rxFile, rxInc))
    IN  {Flash \o all} \cup
        {Flash \o Buffered(i) \o all : i \in 0 .. (NumInInc(rxFile, rxInc) - 1)}

IncrementWritten ==
    /\ MagicOk
    /\ \E content \in WriteOutcomes : slots' = [slots EXCEPT ![UpdateSlot] = content]
    /\ Reply(ClearAck(rxBcTx'))
    /\ IF rxInc + 1 >= Incs(rxFile)
       THEN /\ rxState' = "WAITING_END"
            /\ rxWritten' = TRUE
            /\ UNCHANGED <<rxInc, rxBuf, rxRound>>
       ELSE /\ rxInc' = rxInc + 1
            /\ rxRound' = 0
            /\ rxWritten' = FALSE
            /\ rxBuf' = EmptyBuf
            /\ UNCHANGED rxState
    /\ UNCHANGED <<rxFile, rxAnnTx, rxAcksLeft, hState, restartPending, running, boot>>

\* A chunk fails and fails again on the retry: abort with FLASH_ERROR.
IncrementWriteFailed ==
    /\ \E i, j \in 0 .. (NumInInc(rxFile, rxInc) - 1) :
          /\ MagicOk \/ (i = 0 /\ j = 0)
          /\ slots' = [slots EXCEPT ![UpdateSlot] = Flash \o Buffered(i) \o Buffered(j)]
    /\ AbortTransfer(TRUE)
    /\ UNCHANGED <<restartPending, running, boot>>

\* Mutant of AlreadyCommitted: the current increment counts as committed.
CommittedOrCurrent(inc) == inc <= rxInc

\* The increment is in flash.
AlreadyCommitted(inc) == inc < rxInc \/ (inc = rxInc /\ rxWritten)

\* An increment already committed is acked again.
BlastCompleteOld(inc, tx) ==
    /\ AlreadyCommitted(inc)
    /\ rxBcTx' = tx
    /\ Reply(ClearAck(tx))
    /\ UNCHANGED <<rxState, rxFile, rxInc, rxBuf, rxRound, rxWritten, rxAnnTx,
                   rxAcksLeft, hState, restartPending, flashVars>>

BlastCompleteWrite(inc, tx) ==
    /\ inc = rxInc /\ ~rxWritten /\ BufferComplete
    /\ \/ rxBcTx' = tx /\ IncrementWritten
       \/ IncrementWriteFailed

\* Mutant of RoundsExhausted: off by one.
OneRoundMore == rxRound > MaxRounds

RoundsExhausted == rxRound >= MaxRounds

BlastCompleteGaps(inc, tx) ==
    /\ inc = rxInc /\ ~rxWritten /\ ~BufferComplete
    /\ IF RoundsExhausted
       THEN /\ AbortTransfer(TRUE)
            /\ UNCHANGED <<restartPending, flashVars>>
       ELSE /\ rxBcTx' = tx
            /\ rxRound' = rxRound + 1
            /\ Reply(GapsAck(tx, DOMAIN rxBuf))
            /\ UNCHANGED <<rxState, rxFile, rxInc, rxBuf, rxWritten, rxAnnTx,
                           rxAcksLeft, hState, restartPending, flashVars>>

\* Not receiving, or an increment not reached yet: only the counter is noted.
BlastCompleteIgnored(inc, tx) ==
    /\ rxState # "RECEIVING" \/ inc > rxInc
    /\ rxBcTx' = tx
    /\ NoReply
    /\ UNCHANGED <<rxState, rxFile, rxInc, rxBuf, rxRound, rxWritten, rxAnnTx,
                   rxAcksLeft, hState, restartPending, flashVars>>

HandleBlastComplete(inc, tx) ==
    \/ /\ rxState = "RECEIVING"
       /\ \/ BlastCompleteOld(inc, tx)
          \/ BlastCompleteWrite(inc, tx)
          \/ BlastCompleteGaps(inc, tx)
    \/ BlastCompleteIgnored(inc, tx)

-----------------------------------------------------------------------------
(* END: verify length and MD5, close the image, select it for boot.        *)

\* Mutant of ImageVerified: only a lower bound on the length.
LongEnough == Len(Flash) >= NumChunks[rxFile]

\* total_written_ == file_size_.
RightLength == Len(Flash) = NumChunks[rxFile]

\* The length is right and the digest matches.
ImageVerified ==
    /\ RightLength
    /\ Flash = Image(rxFile)

EndVerified ==
    /\ rxState = "WAITING_END"
    /\ ImageVerified
    /\ rxState' = "VERIFYING"
    /\ rxAcksLeft' = CompleteAcks
    /\ hState' = "IDLE"
    /\ boot' = UpdateSlot
    /\ NoReply
    /\ UNCHANGED <<rxFile, rxInc, rxBuf, rxRound, rxWritten, rxAnnTx, rxBcTx,
                   restartPending, slots, running>>

\* Wrong length, wrong digest, or esp_ota_end / set_boot_partition failing.
EndRejected ==
    /\ rxState = "WAITING_END"
    /\ hState' = "IDLE"
    /\ Reply(CompleteAck(rxAnnTx, FALSE))
    /\ ResetTransfer
    /\ UNCHANGED <<restartPending, flashVars>>

EndIgnored ==
    /\ rxState # "WAITING_END"
    /\ NoReply
    /\ UNCHANGED <<sessionVars, hState, restartPending, flashVars>>

HandleEnd == EndVerified \/ EndRejected \/ EndIgnored

\* ABORT from the bridge, in any active state.
HandleAbort ==
    /\ IF rxState = "IDLE"
       THEN UNCHANGED <<sessionVars, hState>> /\ NoReply
       ELSE AbortTransfer(FALSE)
    /\ UNCHANGED <<restartPending, flashVars>>

-----------------------------------------------------------------------------
(* loop() and the rest of the leaf.                                        *)

\* The complete phase: a COMPLETE ack a second, then reset_ and the restart.
SendCompleteAck ==
    /\ rxState = "VERIFYING"
    /\ Reply(CompleteAck(rxAnnTx, TRUE))
    /\ IF rxAcksLeft - 1 <= 0
       THEN ResetTransfer /\ restartPending' = TRUE
       ELSE /\ rxAcksLeft' = rxAcksLeft - 1
            /\ UNCHANGED <<rxState, rxFile, rxInc, rxBuf, rxRound, rxWritten,
                           rxAnnTx, rxBcTx, restartPending>>
    /\ UNCHANGED <<hState, flashVars>>

\* Mutant of SilenceTimeout: WAITING_END is not watched.
SilenceWhileReceiving ==
    /\ rxState = "RECEIVING"
    /\ AbortTransfer(TRUE)
    /\ UNCHANGED <<restartPending, flashVars>>

\* ESPNOW_RADIO_SILENCE_ABORT_MS without an accepted frame.  The 30 s of
\* OTA_SESSION_TIMEOUT_MS in RemoteProtocol::loop never elapse first.
SilenceTimeout ==
    /\ rxState \in {"RECEIVING", "WAITING_END"}
    /\ AbortTransfer(TRUE)
    /\ UNCHANGED <<restartPending, flashVars>>

\* clear_session_state_: the leaf lost its session with the bridge.
SessionCleared ==
    /\ rxState # "IDLE"
    /\ AbortTransfer(FALSE)
    /\ UNCHANGED <<restartPending, flashVars>>

\* The bootloader: the selected slot, or the other one if it holds no image.
Bootable(s) == IF IsImage(slots[s]) THEN s ELSE 1 - s

Reboot ==
    /\ running' = Bootable(boot)
    /\ boot' = Bootable(boot)
    /\ hState' = "IDLE"
    /\ restartPending' = FALSE
    /\ NoReply
    /\ ResetTransfer
    /\ UNCHANGED slots

\* perform_restart_if_due_, at the start of the leaf's loop().
Restart == restartPending /\ Reboot

\* A power cut, at any moment.
PowerLoss == Reboot

-----------------------------------------------------------------------------

Init ==
    /\ rxState = "IDLE" /\ rxFile = NoFile /\ rxInc = 0 /\ rxBuf = EmptyBuf
    /\ rxRound = 0 /\ rxWritten = FALSE /\ rxAnnTx = 0 /\ rxBcTx = 0
    /\ rxAcksLeft = 0 /\ hState = "IDLE" /\ restartPending = FALSE
    /\ running = 0 /\ boot = 0 /\ rxOut = <<>>
    /\ \E f \in Images : slots = [s \in {0, 1} |-> IF s = 0 THEN Image(f) ELSE <<>>]

AllSeqs == UNION {0 .. (NumChunks[f] - 1) : f \in Files}
AllIncs == UNION {0 .. (Incs(f) - 1) : f \in Files}

FrameArrives ==
    \/ \E f \in Files, tx \in TxCounters : HandleAnnounce(f, tx)
    \/ \E f \in Files : \E seq \in 0 .. (NumChunks[f] - 1) : HandleFileData(f, seq)
    \/ \E inc \in AllIncs, tx \in TxCounters : HandleBlastComplete(inc, tx)
    \/ HandleEnd
    \/ HandleAbort

Loop == SendCompleteAck \/ SilenceTimeout \/ Restart

Next == FrameArrives \/ Loop \/ SessionCleared \/ PowerLoss

Spec == Init /\ [][Next]_rxVars

-----------------------------------------------------------------------------
(* Properties.                                                             *)

Active == rxState \in {"RECEIVING", "WAITING_END"}

SessionTyped ==
    /\ rxState \in {"IDLE", "RECEIVING", "WAITING_END", "VERIFYING"}
    /\ rxFile \in Files \cup {NoFile}
    /\ (rxState = "IDLE") <=> (rxFile = NoFile)
    /\ rxInc \in Nat
    /\ rxState = "IDLE" => rxInc = 0 /\ DOMAIN rxBuf = {}
    /\ rxState # "IDLE" =>
         /\ rxInc < Incs(rxFile)
         /\ DOMAIN rxBuf \subseteq 0 .. (NumInInc(rxFile, rxInc) - 1)
    /\ rxBuf \in [DOMAIN rxBuf -> Chunk]
    /\ rxRound \in 0 .. MaxRounds
    /\ rxWritten \in BOOLEAN
    /\ rxWritten <=> rxState \in {"WAITING_END", "VERIFYING"}
    /\ rxAnnTx \in TxCounters \cup {0}
    /\ rxBcTx \in TxCounters \cup {0}
    /\ rxAcksLeft \in 0 .. CompleteAcks

DeviceTyped ==
    /\ hState \in {"IDLE", "RECEIVING"}
    /\ restartPending \in BOOLEAN
    /\ running \in {0, 1} /\ boot \in {0, 1}
    /\ slots \in [{0, 1} -> Seq(Chunk)]

\* Every field in its range; in particular the increment and the buffer stay
\* inside the announced file and the retransmit rounds inside their limit.
TypeOK == SessionTyped /\ DeviceTyped

\* The flash handler is open exactly while a transfer is active.  If an abort
\* or reset path left it open, on_announce would refuse every later OTA.
HandlerFollowsReceiver == (hState = "RECEIVING") <=> Active

\* END is only awaited once the last increment is in flash.
LastIncrementWaitsForEnd ==
    rxState \in {"WAITING_END", "VERIFYING"} => rxInc + 1 = Incs(rxFile)

\* What is in flash: at least the chunks of every committed increment, and,
\* unless a failed write was repeated, exactly those, each at its own place.
\* Late, repeated and reordered FILE_DATA (nothing in the frame says which
\* increment or transfer it belongs to) cannot shift a chunk.
FlashFollowsCommits ==
    Active =>
      /\ Len(Flash) >= Committed
      /\ Len(Flash) = Committed => \A i \in 1..Len(Flash) : Flash[i][2] = i - 1

\* A chunk in the increment buffer is at the index its number gives it.
BufferInPlace ==
    rxState = "RECEIVING" =>
      \A i \in DOMAIN rxBuf : rxBuf[i][2] = IncrementStart(Cpi, rxInc) + i

\* COMPLETE(SUCCESS) is only sent for an image that is complete in flash and
\* that the next boot selects.
CompleteOnlyVerified ==
    rxState = "VERIFYING" => boot = UpdateSlot /\ Flash = Image(rxFile)

\* Whatever is announced, aborted, lost or cut off, and wherever power fails,
\* the slot the leaf runs from holds a whole image: "Old firmware remains
\* bootable after: power loss mid-transfer, timeout, MD5 mismatch ..."
NeverBricked == IsImage(slots[running])

\* An all-clear GAPS ack, on which the bridge drops the increment for good,
\* is sent only for an increment whose every chunk is in flash.
ClearMeansWritten ==
    [][\A inc \in AllIncs, tx \in TxCounters :
          HandleBlastComplete(inc, tx) /\ rxOut' = <<ClearAck(tx)>> =>
            Len(Flash') >= IncrementEnd(NumChunks[rxFile], Cpi, inc)]_rxVars

\* A restart into the other slot never happens while an image whose MD5 has
\* not been checked is being written there.  Does not hold: README, section 6.
RebootOnlyAfterVerification == [][running' # running => ~Active]_rxVars

\* A repeated BLAST_COMPLETE for an increment already in flash is answered
\* all-clear, so that a lost GAPS ack does not cost the transfer.
CommittedIncrementIsReacked ==
    [][\A tx \in TxCounters :
          /\ Active /\ rxState' # "IDLE"
          /\ AlreadyCommitted(rxInc) /\ tx # rxBcTx
          /\ HandleBlastComplete(rxInc, tx)
          => rxOut' = <<ClearAck(tx)>>]_rxVars

\* Flash holds the committed chunks and nothing else, also after a write
\* that failed and was repeated.  Does not hold: README, section 6.
WrittenMatchesCommitted == Active => Len(Flash) = Committed

=============================================================================
