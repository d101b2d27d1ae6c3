------------------------- MODULE FileReceiverProofs -------------------------
(***************************************************************************)
(* What the leaf guarantees for every file, geometry and retry limit,      *)
(* whatever frames arrive and wherever power fails, on the ESP32 (Spec)    *)
(* and on the ESP8266 (Spec8266).                                          *)
(***************************************************************************)
EXTENDS FileReceiver8266, OtaFramesProofs, SequenceTheorems

-----------------------------------------------------------------------------
(* The two builds.                                                         *)

EitherNext == Next \/ Next8266

LEMMA OfEither == ([Next]_rxVars \/ [Next8266]_rxVars) <=> [EitherNext]_rxVars
  BY DEF EitherNext

\* What the ESP8266 does differently.
Announces8266 == \E f \in Files, tx \in TxCounters : HandleAnnounce8266(f, tx)
Reboots8266   == \E applied \in BOOLEAN : Reboot8266(applied)

LEMMA EitherCases ==
    [EitherNext]_rxVars => [Next]_rxVars \/ Announces8266 \/ Reboots8266
PROOF
  <1>1. FrameArrives8266 => FrameArrives \/ Announces8266
    BY DEF FrameArrives8266, FrameArrives, Announces8266, HandleFileData8266,
           HandleBlastComplete8266, HandleEnd8266, EndVerified8266, EndRejected8266,
           HandleAbort8266, HandleEnd
  <1>2. Next8266 => Next \/ Announces8266 \/ Reboots8266
    <2>1. TRUE \in BOOLEAN
      OBVIOUS
    <2> QED BY <1>1, <2>1
            DEF Next8266, Next, Loop, SendCompleteAck8266, SilenceTimeout8266,
                SessionCleared8266, Restart8266, PowerLoss8266, Reboots8266
  <1> QED BY <1>2 DEF EitherNext

-----------------------------------------------------------------------------
(* Type correctness.                                                       *)

LEMMA EmptyBufTyped ==
    DOMAIN EmptyBuf = {} /\ EmptyBuf \in [DOMAIN EmptyBuf -> Chunk]
  BY DEF EmptyBuf

\* reset_() leaves a well-typed idle session.
LEMMA ResetTyped ==
    ASSUME ResetTransfer
    PROVE  SessionTyped' /\ rxState' = "IDLE"
PROOF
  <1>1. 0 \in 0 .. MaxRounds /\ 0 \in 0 .. CompleteAcks
    BY FilesAssumption, ReceiverAssumption
  <1>2. DOMAIN rxBuf' = {} /\ rxBuf' \in [DOMAIN rxBuf' -> Chunk]
    BY EmptyBufTyped, Zenon DEF ResetTransfer
  <1> QED BY <1>1, <1>2 DEF ResetTransfer, SessionTyped

\* Erasing, or writing chunks to, the update slot keeps the flash well typed.
LEMMA SlotTyped ==
    ASSUME DeviceTyped, NEW content \in Seq(Chunk)
    PROVE  /\ UpdateSlot \in {0, 1} /\ Flash \in Seq(Chunk)
           /\ [slots EXCEPT ![UpdateSlot] = content] \in [{0, 1} -> Seq(Chunk)]
  BY DEF DeviceTyped, UpdateSlot, Flash

LEMMA ErasedTyped ==
    ASSUME DeviceTyped
    PROVE  Erased \in [{0, 1} -> Seq(Chunk)]
PROOF
  <1>1. <<>> \in Seq(Chunk)
    OBVIOUS
  <1> QED BY <1>1, SlotTyped DEF Erased

\* Part of a complete increment buffer is a sequence of chunks.
LEMMA BufferedTyped ==
    ASSUME SessionTyped, rxState # "IDLE", BufferComplete,
           NEW n \in 0 .. NumInInc(rxFile, rxInc)
    PROVE  Buffered(n) \in Seq(Chunk) /\ Len(Buffered(n)) = n
PROOF
  <1>1. n \in Nat /\ \A i \in 1 .. n : i - 1 \in DOMAIN rxBuf
    <2>1. PICK k \in Nat : k = NumInInc(rxFile, rxInc)
      BY IncrementShape DEF SessionTyped
    <2> QED BY <2>1 DEF BufferComplete
  <1>2. rxBuf \in [DOMAIN rxBuf -> Chunk]
    BY DEF SessionTyped
  <1>3. \A i \in 1 .. n : rxBuf[i - 1] \in Chunk
    BY <1>1, <1>2
  <1> QED BY <1>1, <1>3 DEF Buffered

LEMMA AnnounceTyped ==
    ASSUME TypeOK, NEW f \in Files, NEW tx \in TxCounters, HandleAnnounce(f, tx)
    PROVE  TypeOK'
PROOF
  <1>0. Erased \in [{0, 1} -> Seq(Chunk)]
    BY ErasedTyped DEF TypeOK
  <1>1. CASE AnnounceRefused(f, tx)
    BY <1>0, <1>1 DEF AnnounceRefused, TypeOK, SessionTyped, DeviceTyped
  <1>2. CASE AnnounceWhileActive(f, tx)
    BY <1>2 DEF AnnounceWhileActive, TypeOK, SessionTyped, DeviceTyped, flashVars
  <1>3. CASE AnnounceAccepted(f, tx)
    <2>1. 0 < Incs(f) /\ f # NoFile
      BY IncsBounds, FilesAssumption
    <2>2. SessionTyped'
      <3>1. 0 \in 0 .. MaxRounds
        BY FilesAssumption
      <3>2. DOMAIN rxBuf' = {} /\ rxBuf' \in [DOMAIN rxBuf' -> Chunk]
        BY <1>3, EmptyBufTyped, Zenon DEF AnnounceAccepted
      <3> QED BY <1>3, <2>1, <3>1, <3>2
              DEF AnnounceAccepted, TypeOK, SessionTyped
    <2>3. DeviceTyped'
      BY <1>0, <1>3 DEF AnnounceAccepted, TypeOK, DeviceTyped
    <2> QED BY <2>2, <2>3 DEF TypeOK
  <1>4. CASE AnnounceUnacked(f, tx)
    BY <1>0, <1>4, ResetTyped DEF AnnounceUnacked, TypeOK, DeviceTyped
  <1> QED BY <1>1, <1>2, <1>3, <1>4 DEF HandleAnnounce

LEMMA FileDataTyped ==
    ASSUME TypeOK, NEW f \in Files, NEW seq \in Nat, HandleFileData(f, seq)
    PROVE  TypeOK'
PROOF
  <1>1. CASE DataBuffered(f, seq)
    <2>1. rxState = "RECEIVING" /\ rxFile \in Files /\ rxInc \in Nat /\ rxInc < Incs(rxFile)
      BY <1>1, FilesAssumption DEF DataBuffered, ChunkWanted, TypeOK, SessionTyped
    <2> DEFINE i == seq % Cpi
               D == DOMAIN rxBuf \cup {i}
    <2>2. i \in 0 .. (NumInInc(rxFile, rxInc) - 1)
      BY <1>1, <2>1, ChunkIndex DEF DataBuffered, ChunkWanted
    <2>3. rxBuf' = [j \in D |-> IF j = i THEN <<f, seq>> ELSE rxBuf[j]]
      BY <1>1 DEF DataBuffered
    <2> HIDE DEF i
    <2>4. DOMAIN rxBuf' = D /\ rxBuf' \in [D -> Chunk]
      BY <2>3 DEF TypeOK, SessionTyped, Chunk
    <2> QED BY <1>1, <2>1, <2>2, <2>4
            DEF DataBuffered, TypeOK, SessionTyped, DeviceTyped, flashVars
  <1>2. CASE DataDropped(f, seq)
    BY <1>2 DEF DataDropped, TypeOK, SessionTyped, DeviceTyped, flashVars, sessionVars
  <1> QED BY <1>1, <1>2 DEF HandleFileData

\* abort(): whatever was active, the session is idle and well typed.
LEMMA AbortTyped ==
    ASSUME TypeOK, NEW notify \in BOOLEAN, AbortTransfer(notify),
           UNCHANGED <<restartPending, running, boot>>,
           slots' \in [{0, 1} -> Seq(Chunk)]
    PROVE  TypeOK'
  BY ResetTyped DEF AbortTransfer, TypeOK, DeviceTyped

\* What write_increment_to_flash_ leaves in the update slot, if it does not fail.
LEMMA WriteTyped ==
    ASSUME TypeOK, rxState = "RECEIVING", BufferComplete
    PROVE  /\ WriteOutcomes \subseteq Seq(Chunk)
           /\ \A i, j \in 0 .. (NumInInc(rxFile, rxInc) - 1) :
                Flash \o Buffered(i) \o Buffered(j) \in Seq(Chunk)
PROOF
  <1>1. PICK k \in Nat \ {0} : k = NumInInc(rxFile, rxInc)
    BY IncrementShape, FilesAssumption DEF TypeOK, SessionTyped
  <1>2. Flash \in Seq(Chunk)
    BY EmptyBufTyped, SlotTyped DEF TypeOK, DeviceTyped, UpdateSlot, Flash
  <1>3. \A n \in 0 .. k : Buffered(n) \in Seq(Chunk)
    BY <1>1, BufferedTyped DEF TypeOK
  <1>4. \A s, t, u \in Seq(Chunk) : s \o t \in Seq(Chunk) /\ s \o t \o u \in Seq(Chunk)
    OBVIOUS
  <1>5. k \in 0 .. k /\ \A i \in 0 .. (k - 1) : i \in 0 .. k
    BY <1>1
  <1>6. /\ Flash \o Buffered(k) \in Seq(Chunk)
        /\ \A i \in 0 .. (k - 1) : Flash \o Buffered(i) \o Buffered(k) \in Seq(Chunk)
        /\ \A i, j \in 0 .. (k - 1) : Flash \o Buffered(i) \o Buffered(j) \in Seq(Chunk)
    BY <1>2, <1>3, <1>4, <1>5, Zenon
  <1>7. WriteOutcomes = {Flash \o Buffered(k)} \cup
                        {Flash \o Buffered(i) \o Buffered(k) : i \in 0 .. (k - 1)}
    BY <1>1, Zenon DEF WriteOutcomes
  <1>8. WriteOutcomes \subseteq Seq(Chunk)
    BY <1>6, <1>7, Zenon
  <1> QED BY <1>1, <1>6, <1>8

LEMMA BlastCompleteTyped ==
    ASSUME TypeOK, NEW inc \in Nat, NEW tx \in TxCounters, HandleBlastComplete(inc, tx)
    PROVE  TypeOK'
PROOF
  <1>1. CASE BlastCompleteIgnored(inc, tx)
    BY <1>1 DEF BlastCompleteIgnored, TypeOK, SessionTyped, DeviceTyped, flashVars
  <1>2. CASE BlastCompleteOld(inc, tx)
    BY <1>2 DEF BlastCompleteOld, TypeOK, SessionTyped, DeviceTyped, flashVars
  <1>3. CASE rxState = "RECEIVING" /\ BlastCompleteGaps(inc, tx)
    <2>1. CASE RoundsExhausted
      <3>1. slots' \in [{0, 1} -> Seq(Chunk)] /\ AbortTransfer(TRUE)
            /\ UNCHANGED <<restartPending, running, boot>>
        BY <1>3, <2>1 DEF BlastCompleteGaps, TypeOK, DeviceTyped, flashVars
      <3> QED BY <3>1, AbortTyped
    <2>2. CASE ~RoundsExhausted
      <3>1. rxRound + 1 \in 0 .. MaxRounds
        BY <2>2, FilesAssumption DEF RoundsExhausted, TypeOK, SessionTyped
      <3> QED BY <1>3, <2>2, <3>1
              DEF BlastCompleteGaps, TypeOK, SessionTyped, DeviceTyped, flashVars
    <2> QED BY <2>1, <2>2
  <1>4. CASE rxState = "RECEIVING" /\ BlastCompleteWrite(inc, tx)
    <2>0. BufferComplete
      BY <1>4 DEF BlastCompleteWrite
    <2>1. CASE IncrementWriteFailed
      <3>1. slots' \in [{0, 1} -> Seq(Chunk)]
        BY <1>4, <2>0, <2>1, WriteTyped, SlotTyped DEF IncrementWriteFailed, TypeOK
      <3> QED BY <2>1, <3>1, AbortTyped DEF IncrementWriteFailed
    <2>2. CASE rxBcTx' = tx /\ IncrementWritten
      <3>1. slots' \in [{0, 1} -> Seq(Chunk)]
        BY <1>4, <2>0, <2>2, WriteTyped, SlotTyped DEF IncrementWritten, TypeOK
      <3>2. DeviceTyped'
        BY <2>2, <3>1 DEF IncrementWritten, TypeOK, DeviceTyped
      <3>3. Incs(rxFile) \in Nat /\ rxFile \in Files /\ rxFile # NoFile /\ MaxRounds \in Nat
        BY <1>4, IncsBounds, FilesAssumption DEF TypeOK, SessionTyped
      <3>4. CASE rxInc + 1 >= Incs(rxFile)
        <4>1. rxState' = "WAITING_END" /\ rxWritten' = TRUE
              /\ UNCHANGED <<rxFile, rxInc, rxBuf, rxRound, rxAnnTx, rxAcksLeft>>
          BY <2>2, <3>4 DEF IncrementWritten
        <4>2. SessionTyped'
          BY <1>4, <2>2, <3>3, <4>1 DEF TypeOK, SessionTyped
        <4> QED BY <3>2, <4>2 DEF TypeOK
      <3>5. CASE ~(rxInc + 1 >= Incs(rxFile))
        <4>1. DOMAIN rxBuf' = {} /\ rxBuf' \in [DOMAIN rxBuf' -> Chunk]
          BY <2>2, <3>5, EmptyBufTyped, Zenon DEF IncrementWritten
        <4>2. rxInc' = rxInc + 1 /\ rxRound' = 0 /\ rxWritten' = FALSE
              /\ UNCHANGED <<rxState, rxFile, rxAnnTx, rxAcksLeft>>
          BY <2>2, <3>5 DEF IncrementWritten
        <4>3. rxInc' \in Nat /\ rxInc' < Incs(rxFile') /\ rxRound' \in 0 .. MaxRounds
          BY <3>3, <3>5, <4>2 DEF TypeOK, SessionTyped
        <4>4. DOMAIN rxBuf' \subseteq 0 .. (NumInInc(rxFile', rxInc') - 1)
          BY <4>1
        <4>5. SessionTyped'
          BY <1>4, <2>2, <3>3, <4>1, <4>2, <4>3, <4>4 DEF TypeOK, SessionTyped
        <4> QED BY <3>2, <4>5 DEF TypeOK
      <3> QED BY <3>4, <3>5
    <2> QED BY <1>4, <2>1, <2>2 DEF BlastCompleteWrite
  <1> QED BY <1>1, <1>2, <1>3, <1>4 DEF HandleBlastComplete

LEMMA EndTyped ==
    ASSUME TypeOK, HandleEnd
    PROVE  TypeOK'
PROOF
  <1>1. CASE EndVerified
    <2>1. UpdateSlot \in {0, 1}
      BY DEF TypeOK, DeviceTyped, UpdateSlot
    <2>2. CompleteAcks \in 0 .. CompleteAcks
      BY ReceiverAssumption
    <2> QED BY <1>1, <2>1, <2>2 DEF EndVerified, TypeOK, SessionTyped, DeviceTyped
  <1>2. CASE EndRejected
    BY <1>2, ResetTyped DEF EndRejected, TypeOK, DeviceTyped, flashVars
  <1>3. CASE EndIgnored
    BY <1>3 DEF EndIgnored, TypeOK, SessionTyped, DeviceTyped, flashVars, sessionVars
  <1> QED BY <1>1, <1>2, <1>3 DEF HandleEnd

LEMMA LoopTyped ==
    ASSUME TypeOK, Loop \/ SessionCleared \/ PowerLoss \/ HandleAbort
    PROVE  TypeOK'
PROOF
  <1>1. CASE SendCompleteAck
    <2>1. CASE rxAcksLeft - 1 <= 0
      BY <1>1, <2>1, ResetTyped DEF SendCompleteAck, TypeOK, DeviceTyped, flashVars
    <2>2. CASE ~(rxAcksLeft - 1 <= 0)
      <3>1. rxAcksLeft - 1 \in 0 .. CompleteAcks
        BY <2>2, ReceiverAssumption DEF TypeOK, SessionTyped
      <3> QED BY <1>1, <2>2, <3>1
              DEF SendCompleteAck, TypeOK, SessionTyped, DeviceTyped, flashVars
    <2> QED BY <2>1, <2>2
  <1>2. CASE SilenceTimeout
    BY <1>2, AbortTyped DEF SilenceTimeout, flashVars, TypeOK, DeviceTyped
  <1>3. CASE SessionCleared
    BY <1>3, AbortTyped DEF SessionCleared, flashVars, TypeOK, DeviceTyped
  <1>4. CASE HandleAbort
    <2>1. CASE rxState = "IDLE"
      BY <1>4, <2>1 DEF HandleAbort, TypeOK, SessionTyped, DeviceTyped, flashVars, sessionVars
    <2>2. CASE rxState # "IDLE"
      BY <1>4, <2>2, AbortTyped DEF HandleAbort, flashVars, TypeOK, DeviceTyped
    <2> QED BY <2>1, <2>2
  <1>5. CASE Reboot
    <2>1. Bootable(boot) \in {0, 1}
      BY DEF Bootable, TypeOK, DeviceTyped
    <2> QED BY <1>5, <2>1, ResetTyped DEF Reboot, TypeOK, DeviceTyped
  <1> QED BY <1>1, <1>2, <1>3, <1>4, <1>5 DEF Loop, Restart, PowerLoss

\* Numbers a frame can carry.
LEMMA FrameNumbers ==
    /\ \A f \in Files : \A seq \in 0 .. (NumChunks[f] - 1) : seq \in Nat
    /\ \A inc \in AllIncs : inc \in Nat
  BY IncsBounds DEF AllIncs

LEMMA ImageTyped ==
    ASSUME NEW f \in Files
    PROVE  Image(f) \in Seq(Chunk)
PROOF
  <1>1. NumChunks[f] \in Nat
    BY FilesAssumption
  <1>2. \A i \in 1 .. NumChunks[f] : <<f, i - 1>> \in Chunk
    BY <1>1 DEF Chunk
  <1> QED BY <1>1, <1>2 DEF Image

LEMMA InitTyped == Init => TypeOK
PROOF
  <1> SUFFICES ASSUME Init PROVE TypeOK
    OBVIOUS
  <1>1. DeviceTyped
    <2>1. PICK f \in Images : slots = [s \in {0, 1} |-> IF s = 0 THEN Image(f) ELSE <<>>]
      BY DEF Init
    <2>2. Image(f) \in Seq(Chunk) /\ <<>> \in Seq(Chunk)
      BY <2>1, ImageTyped, ReceiverAssumption
    <2>3. slots \in [{0, 1} -> Seq(Chunk)]
      BY <2>1, <2>2
    <2> QED BY <2>3 DEF Init, DeviceTyped
  <1>2. SessionTyped
    <2>1. DOMAIN rxBuf = {} /\ rxBuf \in [DOMAIN rxBuf -> Chunk]
      BY EmptyBufTyped, Zenon DEF Init
    <2>2. 0 \in 0 .. MaxRounds /\ 0 \in 0 .. CompleteAcks
      BY FilesAssumption, ReceiverAssumption
    <2> QED BY <2>1, <2>2 DEF Init, SessionTyped
  <1> QED BY <1>1, <1>2 DEF TypeOK

LEMMA NextTyped == TypeOK /\ [Next]_rxVars => TypeOK'
PROOF
  <1> SUFFICES ASSUME TypeOK, [Next]_rxVars PROVE TypeOK'
    OBVIOUS
  <1>1. CASE FrameArrives
    <2>1. CASE \E f \in Files, tx \in TxCounters : HandleAnnounce(f, tx)
      BY <2>1, AnnounceTyped
    <2>2. CASE \E f \in Files : \E seq \in 0 .. (NumChunks[f] - 1) : HandleFileData(f, seq)
      BY <2>2, FileDataTyped, FrameNumbers
    <2>3. CASE \E inc \in AllIncs, tx \in TxCounters : HandleBlastComplete(inc, tx)
      BY <2>3, BlastCompleteTyped, FrameNumbers
    <2>4. CASE HandleEnd
      BY <2>4, EndTyped
    <2>5. CASE HandleAbort
      BY <2>5, LoopTyped
    <2> QED BY <1>1, <2>1, <2>2, <2>3, <2>4, <2>5 DEF FrameArrives
  <1>2. CASE Loop \/ SessionCleared \/ PowerLoss
    BY <1>2, LoopTyped
  <1>3. CASE UNCHANGED rxVars
    BY <1>3 DEF rxVars, sessionVars, flashVars, TypeOK, SessionTyped, DeviceTyped
  <1> QED BY <1>1, <1>2, <1>3 DEF Next

LEMMA Announce8266Typed ==
    ASSUME TypeOK, NEW f \in Files, NEW tx \in TxCounters, HandleAnnounce8266(f, tx)
    PROVE  TypeOK'
PROOF
  <1>0. Erased \in [{0, 1} -> Seq(Chunk)] /\ Unstaged \in {0, 1}
    BY ErasedTyped DEF TypeOK, DeviceTyped, Unstaged
  <1>1. CASE AnnounceRefused8266(f, tx)
    BY <1>0, <1>1 DEF AnnounceRefused8266, TypeOK, SessionTyped, DeviceTyped
  <1>2. CASE AnnounceWhileActive(f, tx)
    BY <1>2, AnnounceTyped DEF HandleAnnounce
  <1>3. CASE AnnounceAccepted8266(f, tx)
    <2>1. 0 < Incs(f) /\ f # NoFile
      BY IncsBounds, FilesAssumption
    <2>2. SessionTyped'
      <3>1. 0 \in 0 .. MaxRounds
        BY FilesAssumption
      <3>2. DOMAIN rxBuf' = {} /\ rxBuf' \in [DOMAIN rxBuf' -> Chunk]
        BY <1>3, EmptyBufTyped, Zenon DEF AnnounceAccepted8266
      <3> QED BY <1>3, <2>1, <3>1, <3>2
              DEF AnnounceAccepted8266, TypeOK, SessionTyped
    <2>3. DeviceTyped'
      BY <1>0, <1>3 DEF AnnounceAccepted8266, TypeOK, DeviceTyped
    <2> QED BY <2>2, <2>3 DEF TypeOK
  <1>4. CASE AnnounceUnacked8266(f, tx)
    BY <1>0, <1>4, ResetTyped DEF AnnounceUnacked8266, TypeOK, DeviceTyped
  <1> QED BY <1>1, <1>2, <1>3, <1>4 DEF HandleAnnounce8266

LEMMA Reboot8266Typed ==
    ASSUME TypeOK, NEW applied \in BOOLEAN, Reboot8266(applied)
    PROVE  TypeOK'
PROOF
  <1>1. slots' = slots \/ slots' = [slots EXCEPT ![0] = slots[1]]
    BY DEF Reboot8266
  <1>2. slots' \in [{0, 1} -> Seq(Chunk)]
    BY <1>1 DEF TypeOK, DeviceTyped
  <1> QED BY <1>2, ResetTyped DEF Reboot8266, TypeOK, DeviceTyped

LEMMA EitherTyped == TypeOK /\ [EitherNext]_rxVars => TypeOK'
  BY EitherCases, NextTyped, Announce8266Typed, Reboot8266Typed DEF Announces8266, Reboots8266

\* FileReceiver keeps every field of the transfer in its range: the current
\* increment inside the announced file, the buffered indices inside that
\* increment, the retransmit rounds within ESPNOW_MAX_RETRANSMIT_ROUNDS.
THEOREM ReceiverTypes == Spec \/ Spec8266 => []TypeOK
  BY InitTyped, EitherTyped, OfEither, PTL DEF Spec, Spec8266

-----------------------------------------------------------------------------
(* What a step can do to a transfer.                                       *)

\* The step leaves no transfer behind.
IdleAfter == rxState' = "IDLE" /\ hState' = "IDLE"

\* The step leaves the transfer, its buffer and the flash alone.
SameTransfer == UNCHANGED <<rxState, rxFile, rxInc, rxBuf, hState, flashVars>>

Accepts == \E f \in Files, tx \in TxCounters :
              AnnounceAccepted(f, tx) \/ AnnounceAccepted8266(f, tx)
Buffers == \E f \in Files, seq \in Nat : DataBuffered(f, seq)
Writes  == rxState = "RECEIVING" /\ BufferComplete /\ IncrementWritten

\* Of all the handlers only four do anything to a transfer but end it.
LEMMA StepShape ==
    ASSUME TypeOK, HandlerFollowsReceiver, [Next]_rxVars
    PROVE  IdleAfter \/ SameTransfer \/ Accepts \/ Buffers \/ Writes \/ EndVerified
PROOF
  <1>0. rxState \in {"IDLE", "VERIFYING"} => hState = "IDLE"
    BY DEF TypeOK, DeviceTyped, HandlerFollowsReceiver, Active
  <1>1. CASE \E f \in Files, tx \in TxCounters : HandleAnnounce(f, tx)
    BY <1>0, <1>1 DEF HandleAnnounce, AnnounceRefused, AnnounceWhileActive,
       AnnounceUnacked, ResetTransfer, IdleAfter, SameTransfer, Accepts, flashVars
  <1>2. CASE \E f \in Files : \E seq \in 0 .. (NumChunks[f] - 1) : HandleFileData(f, seq)
    <2>1. PICK f \in Files, seq \in Nat : HandleFileData(f, seq)
      BY <1>2, FrameNumbers
    <2> QED BY <2>1 DEF HandleFileData, DataDropped, SameTransfer, Buffers,
            sessionVars, flashVars
  <1>3. CASE \E inc \in AllIncs, tx \in TxCounters : HandleBlastComplete(inc, tx)
    <2>1. PICK inc \in AllIncs, tx \in TxCounters : HandleBlastComplete(inc, tx)
      BY <1>3
    <2>2. CASE BlastCompleteIgnored(inc, tx) \/ BlastCompleteOld(inc, tx)
      BY <2>2 DEF BlastCompleteIgnored, BlastCompleteOld, SameTransfer, flashVars
    <2>3. CASE BlastCompleteGaps(inc, tx)
      BY <2>3 DEF BlastCompleteGaps, AbortTransfer, ResetTransfer, IdleAfter,
         SameTransfer, flashVars
    <2>4. CASE rxState = "RECEIVING" /\ BlastCompleteWrite(inc, tx)
      BY <2>4 DEF BlastCompleteWrite, IncrementWriteFailed, AbortTransfer,
         ResetTransfer, IdleAfter, Writes
    <2> QED BY <2>1, <2>2, <2>3, <2>4 DEF HandleBlastComplete
  <1>4. CASE HandleEnd
    BY <1>4 DEF HandleEnd, EndRejected, EndIgnored, ResetTransfer, IdleAfter,
       SameTransfer, sessionVars
  <1>5. CASE HandleAbort \/ SilenceTimeout \/ SessionCleared
    BY <1>5 DEF HandleAbort, SilenceTimeout, SessionCleared, AbortTransfer,
       ResetTransfer, IdleAfter, SameTransfer, sessionVars
  <1>6. CASE SendCompleteAck
    BY <1>0, <1>6 DEF SendCompleteAck, ResetTransfer, IdleAfter, SameTransfer
  <1>7. CASE Restart \/ PowerLoss
    BY <1>7 DEF Restart, PowerLoss, Reboot, ResetTransfer, IdleAfter
  <1>8. CASE UNCHANGED rxVars
    BY <1>8 DEF rxVars, sessionVars, SameTransfer
  <1> QED BY <1>1, <1>2, <1>3, <1>4, <1>5, <1>6, <1>7, <1>8
          DEF Next, FrameArrives, Loop

LEMMA EitherShape ==
    ASSUME TypeOK, HandlerFollowsReceiver, [EitherNext]_rxVars
    PROVE  IdleAfter \/ SameTransfer \/ Accepts \/ Buffers \/ Writes \/ EndVerified
PROOF
  <1>1. rxState = "IDLE" => hState = "IDLE"
    BY DEF TypeOK, DeviceTyped, HandlerFollowsReceiver, Active
  <1>2. Announces8266 => IdleAfter \/ SameTransfer \/ Accepts
    BY <1>1 DEF Announces8266, HandleAnnounce8266, AnnounceRefused8266, AnnounceWhileActive,
       AnnounceUnacked8266, ResetTransfer, IdleAfter, SameTransfer, Accepts, flashVars
  <1>3. Reboots8266 => IdleAfter
    BY DEF Reboots8266, Reboot8266, ResetTransfer, IdleAfter
  <1> QED BY <1>2, <1>3, EitherCases, StepShape

\* Only the bootloader changes the running slot, and nothing writes to it.
LEMMA RunningSlotUntouched ==
    ASSUME TypeOK, HandlerFollowsReceiver, [Next]_rxVars, ~Reboot
    PROVE  running' = running /\ slots'[running] = slots[running]
PROOF
  <1>0. slots \in [{0, 1} -> Seq(Chunk)] /\ running \in {0, 1} /\ UpdateSlot = 1 - running
    BY DEF TypeOK, DeviceTyped, UpdateSlot
  <1>1. \A content : [slots EXCEPT ![UpdateSlot] = content][running] = slots[running]
    BY <1>0
  <1>2. CASE \E f \in Files, tx \in TxCounters : HandleAnnounce(f, tx)
    BY <1>1, <1>2 DEF HandleAnnounce, AnnounceRefused, AnnounceWhileActive,
       AnnounceAccepted, AnnounceUnacked, Erased, flashVars
  <1>3. CASE \E f \in Files : \E seq \in 0 .. (NumChunks[f] - 1) : HandleFileData(f, seq)
    BY <1>3 DEF HandleFileData, DataBuffered, DataDropped, flashVars
  <1>4. CASE \E inc \in AllIncs, tx \in TxCounters : HandleBlastComplete(inc, tx)
    <2>1. PICK inc \in AllIncs, tx \in TxCounters : HandleBlastComplete(inc, tx)
      BY <1>4
    <2>2. CASE BlastCompleteWrite(inc, tx)
      BY <1>1, <2>2 DEF BlastCompleteWrite, IncrementWritten, IncrementWriteFailed
    <2> QED BY <2>1, <2>2 DEF HandleBlastComplete, BlastCompleteIgnored,
            BlastCompleteOld, BlastCompleteGaps, flashVars
  <1>5. CASE HandleEnd \/ HandleAbort \/ SilenceTimeout \/ SessionCleared \/ SendCompleteAck
    BY <1>5 DEF HandleEnd, EndVerified, EndRejected, EndIgnored, HandleAbort,
       SilenceTimeout, SessionCleared, SendCompleteAck, flashVars
  <1>6. CASE UNCHANGED rxVars
    BY <1>6 DEF rxVars, flashVars
  <1> QED BY <1>2, <1>3, <1>4, <1>5, <1>6 DEF Next, FrameArrives, Loop, Restart, PowerLoss

-----------------------------------------------------------------------------
(* The control invariants.                                                 *)

ControlInv == HandlerFollowsReceiver /\ LastIncrementWaitsForEnd /\ CompleteOnlyVerified

LEMMA ControlNext == TypeOK /\ ControlInv /\ [EitherNext]_rxVars => ControlInv'
PROOF
  <1> SUFFICES ASSUME TypeOK, ControlInv, [EitherNext]_rxVars PROVE ControlInv'
    OBVIOUS
  <1> USE DEF ControlInv, HandlerFollowsReceiver, Active, LastIncrementWaitsForEnd,
              CompleteOnlyVerified
  <1>1. CASE IdleAfter
    BY <1>1 DEF IdleAfter
  <1>2. CASE SameTransfer
    BY <1>2 DEF SameTransfer, flashVars, UpdateSlot, Flash
  <1>3. CASE Accepts
    BY <1>3 DEF Accepts, AnnounceAccepted, AnnounceAccepted8266
  <1>4. CASE Buffers
    BY <1>4 DEF Buffers, DataBuffered, ChunkWanted
  <1>5. CASE Writes
    <2>1. rxInc \in Nat /\ rxInc < Incs(rxFile) /\ Incs(rxFile) \in Nat
      BY <1>5, IncsBounds, FilesAssumption DEF Writes, TypeOK, SessionTyped
    <2> QED BY <1>5, <2>1 DEF Writes, IncrementWritten
  <1>6. CASE EndVerified
    BY <1>6 DEF EndVerified, ImageVerified, UpdateSlot, Flash
  <1> QED BY <1>1, <1>2, <1>3, <1>4, <1>5, <1>6, EitherShape

LEMMA ControlInit == Init => ControlInv
  BY DEF Init, ControlInv, HandlerFollowsReceiver, Active, LastIncrementWaitsForEnd,
     CompleteOnlyVerified

\* The flash handler is open exactly while a transfer is active, so no abort
\* or reset path blocks the next OTA.
THEOREM HandlerIsReleased == Spec \/ Spec8266 => []HandlerFollowsReceiver
PROOF
  <1>1. ControlInv => HandlerFollowsReceiver
    BY DEF ControlInv
  <1> QED BY <1>1, InitTyped, EitherTyped, ControlInit, ControlNext, OfEither, PTL
          DEF Spec, Spec8266

\* COMPLETE(SUCCESS) is only sent for a file that is in flash, whole and
\* verified, and selected for the next boot.
THEOREM SuccessIsVerified == Spec \/ Spec8266 => []CompleteOnlyVerified
PROOF
  <1>1. ControlInv => CompleteOnlyVerified
    BY DEF ControlInv
  <1> QED BY <1>1, InitTyped, EitherTyped, ControlInit, ControlNext, OfEither, PTL
          DEF Spec, Spec8266

LEMMA BootNext == TypeOK /\ ControlInv /\ NeverBricked /\ [Next]_rxVars => NeverBricked'
PROOF
  <1> SUFFICES ASSUME TypeOK, ControlInv, NeverBricked, [Next]_rxVars PROVE NeverBricked'
    OBVIOUS
  <1>1. CASE Reboot
    <2>1. running \in {0, 1} /\ boot \in {0, 1}
      BY DEF TypeOK, DeviceTyped
    <2>2. IsImage(slots[Bootable(boot)])
      <3>1. CASE IsImage(slots[boot])
        BY <3>1, Zenon DEF Bootable
      <3>2. CASE ~IsImage(slots[boot])
        <4>1. 1 - boot = running
          BY <2>1, <3>2 DEF NeverBricked
        <4> QED BY <3>2, <4>1, Zenon DEF Bootable, NeverBricked
      <3> QED BY <3>1, <3>2
    <2> QED BY <1>1, <2>2 DEF Reboot, NeverBricked
  <1>2. CASE ~Reboot
    BY <1>2, RunningSlotUntouched DEF NeverBricked, ControlInv
  <1> QED BY <1>1, <1>2

\* Wherever the transfer stops and wherever power fails, the leaf runs from a
\* slot that holds a whole image.
THEOREM AlwaysBootable == Spec => []NeverBricked
PROOF
  <1>1. Init => NeverBricked
    <2> SUFFICES ASSUME Init PROVE NeverBricked
      OBVIOUS
    <2>1. PICK f \in Images : slots = [s \in {0, 1} |-> IF s = 0 THEN Image(f) ELSE <<>>]
      BY DEF Init
    <2>2. slots[running] = Image(f)
      BY <2>1 DEF Init
    <2> QED BY <2>1, <2>2 DEF NeverBricked, IsImage
  <1> QED BY <1>1, InitTyped, EitherTyped, ControlInit, ControlNext, BootNext, OfEither, PTL
          DEF Spec

-----------------------------------------------------------------------------
(* The contents of the flash.                                              *)

FlashInv == BufferInPlace /\ FlashFollowsCommits

\* A write that does not fail appends the increment at least once, and if it
\* appends nothing else it appends it right behind what was there.
LEMMA WriteGrows ==
    ASSUME TypeOK, rxState = "RECEIVING", BufferComplete, NEW content \in WriteOutcomes
    PROVE  LET k == NumInInc(rxFile, rxInc)
           IN  /\ k \in Nat \ {0} /\ Len(Flash) \in Nat /\ Len(content) \in Nat
               /\ Len(content) >= Len(Flash) + k
               /\ Len(content) = Len(Flash) + k => content = Flash \o Buffered(k)
PROOF
  <1>1. PICK k \in Nat \ {0} : k = NumInInc(rxFile, rxInc)
    BY IncrementShape, FilesAssumption DEF TypeOK, SessionTyped
  <1>2. Flash \in Seq(Chunk) /\ Len(Flash) \in Nat
    BY SlotTyped DEF TypeOK, DeviceTyped, UpdateSlot, Flash
  <1>3. \A n \in 0 .. k : Buffered(n) \in Seq(Chunk) /\ Len(Buffered(n)) = n
    BY <1>1, BufferedTyped DEF TypeOK
  <1>4. content = Flash \o Buffered(k)
        \/ \E i \in 0 .. (k - 1) : content = Flash \o Buffered(i) \o Buffered(k)
    BY <1>1, Zenon DEF WriteOutcomes
  <1>5. Buffered(k) \in Seq(Chunk) /\ Len(Buffered(k)) = k
    BY <1>1, <1>3
  <1>6. CASE content = Flash \o Buffered(k)
    BY <1>1, <1>2, <1>5, <1>6
  <1>7. CASE \E i \in 0 .. (k - 1) : content = Flash \o Buffered(i) \o Buffered(k)
    <2>1. PICK i \in 0 .. (k - 1) : content = Flash \o Buffered(i) \o Buffered(k)
      BY <1>7
    <2>2. Buffered(i) \in Seq(Chunk) /\ Len(Buffered(i)) = i /\ i \in Nat
      BY <1>1, <1>3
    <2> DEFINE part == Flash \o Buffered(i)
    <2>3. part \in Seq(Chunk) /\ Len(part) = Len(Flash) + i /\ (i = 0 => part = Flash)
      BY <1>2, <2>2
    <2>4. content = part \o Buffered(k)
      BY <2>1
    <2> HIDE DEF part
    <2>5. Len(content) = Len(part) + k
      <3>1. Len(part \o Buffered(k)) = Len(part) + Len(Buffered(k))
        BY <1>5, <2>3, ConcatProperties
      <3> QED BY <1>5, <2>4, <3>1, Zenon
    <2>6. Len(content) = Len(Flash) + k => i = 0
      BY <1>1, <1>2, <2>2, <2>3, <2>5
    <2>7. Len(content) \in Nat /\ Len(content) >= Len(Flash) + k
      BY <1>1, <1>2, <2>2, <2>3, <2>5
    <2>8. Len(content) = Len(Flash) + k => content = Flash \o Buffered(k)
      BY <2>3, <2>4, <2>6, Zenon
    <2> QED BY <1>1, <1>2, <2>7, <2>8
  <1> QED BY <1>4, <1>6, <1>7

\* The write of one increment carries both conjuncts of FlashFollowsCommits over.
LEMMA WriteFollows ==
    ASSUME TypeOK, FlashInv, Writes
    PROVE  FlashFollowsCommits'
PROOF
  <1>0. rxState = "RECEIVING" /\ BufferComplete /\ IncrementWritten
    BY DEF Writes
  <1>1. rxFile \in Files /\ rxInc \in Nat /\ rxInc < Incs(rxFile) /\ Incs(rxFile) \in Nat
    BY <1>0, IncsBounds, FilesAssumption DEF TypeOK, SessionTyped
  <1>2. PICK content \in WriteOutcomes : slots' = [slots EXCEPT ![UpdateSlot] = content]
    BY <1>0 DEF IncrementWritten
  <1>3. Flash' = content /\ Flash \in Seq(Chunk) /\ Len(Flash) \in Nat
    BY <1>0, <1>2 DEF IncrementWritten, TypeOK, DeviceTyped, UpdateSlot, Flash
  <1>4. PICK k \in Nat \ {0} : k = NumInInc(rxFile, rxInc)
    BY <1>1, IncrementShape
  <1>5. PICK b \in Nat : b = IncrementStart(Cpi, rxInc)
    BY <1>1, StartFacts, FilesAssumption
  <1>6. Committed' = b + k
    <2>1. CASE rxInc + 1 >= Incs(rxFile)
      <3>1. rxState' = "WAITING_END" /\ rxFile' = rxFile
        BY <1>0, <2>1 DEF IncrementWritten
      <3>2. b + k = NumChunks[rxFile]
        BY <1>1, <1>4, <1>5, <2>1, IncrementShape
      <3> QED BY <3>1, <3>2 DEF Committed
    <2>2. CASE rxInc + 1 < Incs(rxFile)
      <3>1. rxState' = "RECEIVING" /\ rxInc' = rxInc + 1
        BY <1>0, <1>1, <2>2 DEF IncrementWritten
      <3>2. k = Cpi /\ IncrementStart(Cpi, rxInc + 1) = IncrementStart(Cpi, rxInc) + Cpi
        BY <1>1, <1>4, <2>2, IncrementShape, StartFacts, FilesAssumption
      <3> QED BY <1>5, <3>1, <3>2 DEF Committed
    <2> QED BY <1>1, <2>1, <2>2
  <1>7. Len(Flash) >= b /\ (Len(Flash) = b => \A i \in 1..Len(Flash) : Flash[i][2] = i - 1)
    BY <1>0, <1>5 DEF FlashInv, FlashFollowsCommits, Active, Committed
  <1>8. /\ Len(content) \in Nat /\ Len(content) >= Len(Flash) + k
        /\ Len(content) = Len(Flash) + k => content = Flash \o Buffered(k)
    BY <1>0, <1>4, WriteGrows
  <1>9. ASSUME Len(content) = b + k
        PROVE  \A i \in 1 .. Len(content) : content[i][2] = i - 1
    <2>1. Len(Flash) = b /\ content = Flash \o Buffered(k)
      BY <1>3, <1>4, <1>5, <1>7, <1>8, <1>9, SMTT(30)
    <2>2. Buffered(k) \in Seq(Chunk) /\ Len(Buffered(k)) = k
      BY <1>0, <1>4, BufferedTyped DEF TypeOK
    <2> SUFFICES ASSUME NEW i \in 1 .. (b + k) PROVE content[i][2] = i - 1
      BY <1>9
    <2>3. CASE i <= b
      BY <1>3, <1>7, <2>1, <2>2, <2>3
    <2>4. CASE i > b
      <3>1. i - b \in 1 .. k /\ (i - b) - 1 \in 0 .. (k - 1)
        BY <1>4, <1>5, <2>4
      <3>2. content[i] = Buffered(k)[i - b]
        BY <1>3, <1>4, <1>5, <2>1, <2>2, <2>4, SMTT(30)
      <3>3. Buffered(k)[i - b] = rxBuf[(i - b) - 1]
        BY <3>1 DEF Buffered
      <3>4. rxBuf[(i - b) - 1][2] = b + ((i - b) - 1)
        BY <1>0, <1>4, <1>5, <3>1 DEF FlashInv, BufferInPlace, BufferComplete
      <3> QED BY <1>5, <3>1, <3>2, <3>3, <3>4
    <2> QED BY <1>4, <1>5, <2>3, <2>4
  <1> QED BY <1>3, <1>4, <1>5, <1>6, <1>7, <1>8, <1>9 DEF FlashFollowsCommits

LEMMA FlashNext == TypeOK /\ ControlInv /\ FlashInv /\ [EitherNext]_rxVars => FlashInv'
PROOF
  <1> SUFFICES ASSUME TypeOK, ControlInv, FlashInv, [EitherNext]_rxVars PROVE FlashInv'
    OBVIOUS
  <1> USE DEF FlashInv, FlashFollowsCommits, BufferInPlace, Active
  <1>1. CASE IdleAfter
    BY <1>1 DEF IdleAfter
  <1>2. CASE SameTransfer
    BY <1>2 DEF SameTransfer, flashVars, UpdateSlot, Flash, Committed
  <1>3. CASE Accepts
    <2>1. rxState' = "RECEIVING" /\ rxInc' = 0 /\ rxBuf' = EmptyBuf /\ slots' = Erased
          /\ running' = running
      BY <1>3 DEF Accepts, AnnounceAccepted, AnnounceAccepted8266
    <2>2. Flash' = <<>>
      BY <2>1 DEF Erased, Flash, UpdateSlot, TypeOK, DeviceTyped
    <2>3. Committed' = 0
      BY <2>1, StartFacts, FilesAssumption DEF Committed
    <2>4. FlashFollowsCommits'
      BY <2>2, <2>3
    <2>5. BufferInPlace'
      BY <2>1, EmptyBufTyped
    <2> QED BY <2>4, <2>5
  <1>4. CASE Buffers
    <2>1. PICK f \in Files, seq \in Nat : DataBuffered(f, seq)
      BY <1>4 DEF Buffers
    <2>2. rxState = "RECEIVING" /\ rxFile \in Files /\ rxInc \in Nat /\ rxInc < Incs(rxFile)
          /\ seq \in SeqsOf(rxFile, rxInc)
      BY <2>1, FilesAssumption DEF DataBuffered, ChunkWanted, TypeOK, SessionTyped
    <2> DEFINE i == seq % Cpi
    <2>3. seq = IncrementStart(Cpi, rxInc) + i
      BY <2>2, ChunkIndex
    <2>4. rxBuf' = [j \in DOMAIN rxBuf \cup {i} |-> IF j = i THEN <<f, seq>> ELSE rxBuf[j]]
          /\ UNCHANGED <<rxState, rxFile, rxInc, slots, running>>
      BY <2>1 DEF DataBuffered, flashVars
    <2> HIDE DEF i
    <2>5. BufferInPlace'
      BY <2>2, <2>3, <2>4
    <2>6. FlashFollowsCommits'
      BY <2>4 DEF Flash, UpdateSlot, Committed
    <2> QED BY <2>5, <2>6
  <1>5. CASE Writes
    <2>1. FlashFollowsCommits'
      BY <1>5, WriteFollows
    <2>2. BufferInPlace'
      <3>1. rxState' = "RECEIVING" => rxBuf' = EmptyBuf
        BY <1>5 DEF Writes, IncrementWritten
      <3> QED BY <3>1, EmptyBufTyped
    <2> QED BY <2>1, <2>2
  <1>6. CASE EndVerified
    BY <1>6 DEF EndVerified
  <1> QED BY <1>1, <1>2, <1>3, <1>4, <1>5, <1>6, EitherShape DEF ControlInv

LEMMA FlashInit == Init => FlashInv
  BY DEF Init, FlashInv, FlashFollowsCommits, BufferInPlace, Active

\* Whatever order FILE_DATA arrives in, the flash holds the chunks of every
\* committed increment, and nothing else unless a failed write was repeated.
THEOREM FlashIsInOrder == Spec \/ Spec8266 => []FlashFollowsCommits
PROOF
  <1>1. FlashInv => FlashFollowsCommits
    BY DEF FlashInv
  <1> QED BY <1>1, InitTyped, EitherTyped, ControlInit, ControlNext, FlashInit, FlashNext,
             OfEither, PTL DEF Spec, Spec8266

\* An all-clear GAPS ack is only sent for an increment that is in flash.
THEOREM ClearAcksAreWritten == Spec \/ Spec8266 => ClearMeansWritten
PROOF
  <1> DEFINE A == \A inc \in AllIncs, tx \in TxCounters :
                    HandleBlastComplete(inc, tx) /\ rxOut' = <<ClearAck(tx)>> =>
                      Len(Flash') >= IncrementEnd(NumChunks[rxFile], Cpi, inc)
  <1>1. TypeOK /\ ControlInv /\ FlashInv /\ [EitherNext]_rxVars => A
    <2> SUFFICES ASSUME TypeOK, FlashInv,
                        NEW inc \in AllIncs, NEW tx \in TxCounters,
                        HandleBlastComplete(inc, tx), rxOut' = <<ClearAck(tx)>>
                 PROVE  Len(Flash') >= IncrementEnd(NumChunks[rxFile], Cpi, inc)
      OBVIOUS
    <2>1. ~BlastCompleteIgnored(inc, tx) /\ ~BlastCompleteGaps(inc, tx)
      <3>1. <<ClearAck(tx)>> # <<>>
        OBVIOUS
      <3>2. \A got : ClearAck(tx) # GapsAck(tx, got)
        BY DEF ClearAck, GapsAck, PlainAck
      <3>3. \A ref : ClearAck(tx) # PlainAck("ABORT", ref)
        BY DEF ClearAck, PlainAck
      <3> QED BY <3>1, <3>2, <3>3 DEF BlastCompleteIgnored, BlastCompleteGaps,
              AbortTransfer, Reply, NoReply
    <2>2. rxState = "RECEIVING" /\ (BlastCompleteOld(inc, tx) \/ BlastCompleteWrite(inc, tx))
      BY <2>1 DEF HandleBlastComplete
    <2>3. rxFile \in Files /\ rxInc \in Nat /\ rxInc < Incs(rxFile) /\ Incs(rxFile) \in Nat
          /\ inc \in Nat
      BY <2>2, IncsBounds, FilesAssumption, FrameNumbers DEF TypeOK, SessionTyped
    <2>4. Len(Flash) \in Nat /\ Len(Flash) >= IncrementStart(Cpi, rxInc)
      BY <2>2 DEF FlashInv, FlashFollowsCommits, Active, Committed, TypeOK, DeviceTyped,
                  UpdateSlot, Flash
    <2>5. CASE BlastCompleteOld(inc, tx)
      <3>1. inc < rxInc /\ Flash' = Flash
        BY <2>2, <2>5 DEF BlastCompleteOld, AlreadyCommitted, TypeOK, SessionTyped,
                          flashVars, Flash, UpdateSlot
      <3>2. IncrementEnd(NumChunks[rxFile], Cpi, inc) = IncrementStart(Cpi, inc) + Cpi
        BY <2>3, <3>1, IncrementShape
      <3>3. IncrementStart(Cpi, inc) + Cpi = IncrementStart(Cpi, inc + 1)
        BY <2>3, StartFacts, FilesAssumption
      <3>4. IncrementStart(Cpi, inc + 1) <= IncrementStart(Cpi, rxInc)
        BY <2>3, <3>1, StartMono, FilesAssumption
      <3>5. IncrementStart(Cpi, rxInc) \in Nat /\ IncrementStart(Cpi, inc + 1) \in Nat
        <4>1. inc + 1 \in Nat /\ Cpi \in Nat \ {0}
          BY <2>3, FilesAssumption
        <4> QED BY <2>3, <4>1, StartFacts
      <3> QED BY <2>4, <3>1, <3>2, <3>3, <3>4, <3>5
    <2>6. CASE BlastCompleteWrite(inc, tx)
      <3>1. inc = rxInc /\ BufferComplete /\ IncrementWritten
        <4>1. ClearAck(tx) # PlainAck("ABORT", rxAnnTx)
          BY DEF ClearAck, PlainAck
        <4> QED BY <2>6, <4>1 DEF BlastCompleteWrite, IncrementWriteFailed, AbortTransfer, Reply
      <3>2. PICK content \in WriteOutcomes : slots' = [slots EXCEPT ![UpdateSlot] = content]
        BY <3>1 DEF IncrementWritten
      <3>3. Flash' = content
        BY <3>1, <3>2 DEF IncrementWritten, TypeOK, DeviceTyped, UpdateSlot, Flash
      <3>4. PICK k \in Nat : k = NumInInc(rxFile, rxInc)
        BY <2>3, IncrementShape
      <3>5. Len(content) \in Nat /\ Len(content) >= Len(Flash) + k
        BY <2>2, <3>1, <3>4, WriteGrows
      <3>6. IncrementEnd(NumChunks[rxFile], Cpi, inc) = IncrementStart(Cpi, rxInc) + k
        BY <2>3, <3>1, <3>4, IncrementShape
      <3>7. IncrementStart(Cpi, rxInc) \in Nat
        BY <2>3, StartFacts, FilesAssumption
      <3> QED BY <2>4, <3>3, <3>4, <3>5, <3>6, <3>7
    <2> QED BY <2>2, <2>5, <2>6
  <1>2. [][A]_rxVars <=> ClearMeansWritten
    BY DEF ClearMeansWritten
  <1> HIDE DEF A
  <1> QED BY <1>1, <1>2, InitTyped, EitherTyped, ControlInit, ControlNext, FlashInit,
             FlashNext, OfEither, PTL DEF Spec, Spec8266

-----------------------------------------------------------------------------
(* The update staged behind the sketch of the ESP8266.                     *)

\* The first chunk of what is staged carries the image magic.
StartsImage == Flash # <<>> => Flash[1][1] \in Images

\* What is in the two slots.  While a transfer is active nothing is ordered
\* to be copied, and what is ordered to be copied is a whole image.
StagedInv ==
    /\ NeverBricked
    /\ running = 0
    /\ Active => boot = 0 /\ StartsImage
    /\ boot = 1 => IsImage(slots[1])

\* The step leaves the flash alone and starts no transfer.
FlashKept == UNCHANGED flashVars /\ (Active' => Active)

\* OTABackend::begin.
Begins == slots' = Erased /\ boot' = Unstaged /\ running' = running

WriteFails == rxState = "RECEIVING" /\ BufferComplete /\ IncrementWriteFailed

\* What a step of the ESP8266 does to its flash.
LEMMA FlashShape8266 ==
    ASSUME [Next8266]_rxVars
    PROVE  FlashKept \/ Begins \/ Writes \/ WriteFails \/ EndVerified \/ Reboots8266
PROOF
  <1>1. CASE \E f \in Files, tx \in TxCounters : HandleAnnounce8266(f, tx)
    BY <1>1 DEF HandleAnnounce8266, AnnounceRefused8266, AnnounceWhileActive,
       AnnounceAccepted8266, AnnounceUnacked8266, FlashKept, Begins, flashVars, Active
  <1>2. CASE \E f \in Files : \E seq \in 0 .. (NumChunks[f] - 1) : HandleFileData(f, seq)
    BY <1>2 DEF HandleFileData, DataBuffered, DataDropped, FlashKept, flashVars, Active,
       sessionVars
  <1>3. CASE \E inc \in AllIncs, tx \in TxCounters : HandleBlastComplete(inc, tx)
    <2>1. PICK inc \in AllIncs, tx \in TxCounters : HandleBlastComplete(inc, tx)
      BY <1>3
    <2>2. CASE rxState = "RECEIVING" /\ BlastCompleteWrite(inc, tx)
      BY <2>2 DEF BlastCompleteWrite, Writes, WriteFails
    <2> QED BY <2>1, <2>2 DEF HandleBlastComplete, BlastCompleteIgnored, BlastCompleteOld,
            BlastCompleteGaps, AbortTransfer, ResetTransfer, FlashKept, flashVars, Active
  <1>4. CASE HandleEnd
    BY <1>4 DEF HandleEnd, EndRejected, EndIgnored, ResetTransfer, FlashKept, Active,
       sessionVars
  <1>5. CASE HandleAbort \/ SilenceTimeout \/ SessionCleared \/ SendCompleteAck
    BY <1>5 DEF HandleAbort, SilenceTimeout, SessionCleared, SendCompleteAck, AbortTransfer,
       ResetTransfer, FlashKept, flashVars, Active, sessionVars
  <1>6. CASE Reboots8266 \/ Restart8266
    BY <1>6 DEF Reboots8266, Restart8266
  <1>7. CASE UNCHANGED rxVars
    BY <1>7 DEF rxVars, sessionVars, FlashKept, Active
  <1> QED BY <1>1, <1>2, <1>3, <1>4, <1>5, <1>6, <1>7
          DEF Next8266, FrameArrives8266, HandleFileData8266, HandleBlastComplete8266,
              HandleEnd8266, EndVerified8266, EndRejected8266, HandleEnd, HandleAbort8266,
              SendCompleteAck8266, SilenceTimeout8266, SessionCleared8266, PowerLoss8266,
              Reboots8266

LEMMA FirstOfConcat ==
    ASSUME NEW S, NEW s \in Seq(S), NEW t \in Seq(S)
    PROVE  /\ s \o t \in Seq(S)
           /\ s # <<>> => s \o t # <<>> /\ (s \o t)[1] = s[1]
           /\ s = <<>> => s \o t = t
  OBVIOUS

\* A write leaves the first chunk where it is, or puts one there that passed
\* the test of the magic.
LEMMA WriteStartsImage ==
    ASSUME TypeOK, StartsImage, Writes
    PROVE  StartsImage'
PROOF
  <1>0. rxState = "RECEIVING" /\ BufferComplete /\ IncrementWritten
    BY DEF Writes
  <1>1. PICK content \in WriteOutcomes : slots' = [slots EXCEPT ![UpdateSlot] = content]
    BY <1>0 DEF IncrementWritten
  <1>2. Flash' = content /\ Flash \in Seq(Chunk) /\ Len(Flash) \in Nat
    BY <1>0, <1>1 DEF IncrementWritten, TypeOK, DeviceTyped, UpdateSlot, Flash
  <1>3. PICK k \in Nat \ {0} : k = NumInInc(rxFile, rxInc)
    BY <1>0, IncrementShape, FilesAssumption DEF TypeOK, SessionTyped
  <1>4. \A n \in 0 .. k : /\ Buffered(n) \in Seq(Chunk) /\ Len(Buffered(n)) = n
                          /\ n > 0 => Buffered(n)[1] = rxBuf[0]
    <2> SUFFICES ASSUME NEW n \in 0 .. k
                 PROVE  /\ Buffered(n) \in Seq(Chunk) /\ Len(Buffered(n)) = n
                        /\ n > 0 => Buffered(n)[1] = rxBuf[0]
      OBVIOUS
    <2>1. Buffered(n) \in Seq(Chunk) /\ Len(Buffered(n)) = n
      BY <1>0, <1>3, BufferedTyped DEF TypeOK
    <2>2. n > 0 => Buffered(n)[1] = rxBuf[0]
      BY <1>3 DEF Buffered
    <2> QED BY <2>1, <2>2
  <1>5. k \in 0 .. k /\ k > 0
    BY <1>3
  <1>6. Flash = <<>> => rxBuf[0][1] \in Images
    BY <1>0 DEF IncrementWritten, MagicOk
  <1>7. ASSUME NEW part \in Seq(Chunk), content = part \o Buffered(k),
               part # <<>> => part[1][1] \in Images,
               part = <<>> => Flash = <<>>
        PROVE  content[1][1] \in Images
    <2>1. CASE part # <<>>
      BY <1>4, <1>5, <1>7, <2>1, FirstOfConcat
    <2>2. CASE part = <<>>
      <3>1. content = Buffered(k)
        BY <1>4, <1>5, <1>7, <2>2, FirstOfConcat
      <3> QED BY <1>4, <1>5, <1>6, <1>7, <2>2, <3>1
    <2> QED BY <2>1, <2>2
  <1>8. ASSUME content = Flash \o Buffered(k) PROVE content[1][1] \in Images
    BY <1>2, <1>7, <1>8 DEF StartsImage
  <1>9. ASSUME \E i \in 0 .. (k - 1) : content = Flash \o Buffered(i) \o Buffered(k)
        PROVE  content[1][1] \in Images
    <2>1. PICK i \in 0 .. (k - 1) : content = (Flash \o Buffered(i)) \o Buffered(k)
      BY <1>9
    <2>2. Buffered(i) \in Seq(Chunk) /\ Len(Buffered(i)) = i
          /\ (i > 0 => Buffered(i)[1] = rxBuf[0])
      BY <1>3, <1>4
    <2>3. PICK part \in Seq(Chunk) : part = Flash \o Buffered(i)
      BY <1>2, <2>2, FirstOfConcat
    <2>4. CASE Flash # <<>>
      <3>1. part # <<>> /\ part[1] = Flash[1]
        BY <1>2, <2>2, <2>3, <2>4, FirstOfConcat
      <3> QED BY <1>7, <2>1, <2>3, <2>4, <3>1 DEF StartsImage
    <2>5. CASE Flash = <<>>
      <3>1. part = Buffered(i)
        BY <1>2, <2>2, <2>3, <2>5, FirstOfConcat
      <3>2. part # <<>> => i > 0
        BY <2>2, <3>1
      <3>3. part # <<>> => part[1][1] \in Images
        BY <1>6, <2>2, <2>5, <3>1, <3>2
      <3> QED BY <1>7, <2>1, <2>3, <2>5, <3>3
    <2> QED BY <2>4, <2>5
  <1>10. content[1][1] \in Images
    BY <1>1, <1>3, <1>8, <1>9, Zenon DEF WriteOutcomes
  <1> QED BY <1>2, <1>10 DEF StartsImage

LEMMA Staged8266Next ==
    ASSUME BeginUnstages, TypeOK, ControlInv, StagedInv, [Next8266]_rxVars
    PROVE  StagedInv'
PROOF
  <1>0. running = 0 /\ UpdateSlot = 1 /\ slots \in [{0, 1} -> Seq(Chunk)] /\ boot \in {0, 1}
    BY DEF StagedInv, TypeOK, DeviceTyped, UpdateSlot
  <1>1. CASE FlashKept
    BY <1>1 DEF FlashKept, flashVars, StagedInv, StartsImage, NeverBricked, Flash, UpdateSlot
  <1>2. CASE Begins
    <2>1. slots' = [slots EXCEPT ![1] = <<>>] /\ boot' = 0 /\ running' = 0
      BY <1>0, <1>2 DEF Begins, Erased, Unstaged
    <2>2. slots'[0] = slots[0] /\ slots'[1] = <<>>
      BY <1>0, <2>1
    <2>3. NeverBricked'
      BY <1>0, <2>1, <2>2 DEF StagedInv, NeverBricked
    <2>4. Flash' = <<>>
      BY <2>1, <2>2 DEF Flash, UpdateSlot
    <2> QED BY <2>1, <2>3, <2>4 DEF StagedInv, StartsImage
  <1>3. CASE Writes
    <2>1. StartsImage'
      BY <1>3, WriteStartsImage DEF StagedInv, Writes, Active
    <2>2. boot = 0
      BY <1>3 DEF StagedInv, Writes, Active
    <2>3. boot' = boot /\ running' = running /\ slots'[0] = slots[0]
      BY <1>0, <1>3 DEF Writes, IncrementWritten
    <2>4. NeverBricked'
      BY <1>0, <2>3 DEF StagedInv, NeverBricked
    <2> QED BY <1>0, <2>1, <2>2, <2>3, <2>4 DEF StagedInv
  <1>4. CASE WriteFails
    <2>1. boot = 0
      BY <1>4 DEF StagedInv, WriteFails, Active
    <2>2. boot' = boot /\ running' = running /\ slots'[0] = slots[0] /\ ~Active'
      BY <1>0, <1>4 DEF WriteFails, IncrementWriteFailed, AbortTransfer, ResetTransfer, Active
    <2>3. NeverBricked'
      BY <1>0, <2>2 DEF StagedInv, NeverBricked
    <2> QED BY <1>0, <2>1, <2>2, <2>3 DEF StagedInv
  <1>5. CASE EndVerified
    <2>1. Flash = Image(rxFile) /\ slots' = slots /\ running' = running /\ ~Active'
      BY <1>5 DEF EndVerified, ImageVerified, Active
    <2>2. rxFile \in Files /\ NumChunks[rxFile] \in Nat \ {0}
      BY <1>5, FilesAssumption DEF EndVerified, TypeOK, SessionTyped
    <2>3. Image(rxFile) # <<>> /\ Image(rxFile)[1] = <<rxFile, 0>>
      BY <2>2 DEF Image
    <2>4. rxFile \in Images
      BY <1>5, <2>1, <2>3 DEF StagedInv, StartsImage, EndVerified, Active
    <2>5. IsImage(slots[1])
      BY <1>0, <2>1, <2>4 DEF IsImage, Flash
    <2> QED BY <2>1, <2>5 DEF StagedInv, NeverBricked
  <1>6. CASE Reboots8266
    <2>1. PICK applied \in BOOLEAN : Reboot8266(applied)
      BY <1>6 DEF Reboots8266
    <2>2. running' = running /\ boot' = 0 /\ ~Active'
      BY <2>1 DEF Reboot8266, ResetTransfer, Active
    <2>3. IsImage(slots'[0])
      <3>1. CASE boot = 1 /\ applied
        <4>1. slots'[0] = slots[1]
          BY <1>0, <2>1, <3>1 DEF Reboot8266, CopiedAtBoot
        <4> QED BY <3>1, <4>1 DEF StagedInv
      <3>2. CASE ~(boot = 1 /\ applied)
        <4>1. slots' = slots
          BY <2>1, <3>2 DEF Reboot8266, CopiedAtBoot
        <4> QED BY <1>0, <4>1 DEF StagedInv, NeverBricked
      <3> QED BY <3>1, <3>2
    <2> QED BY <1>0, <2>2, <2>3 DEF StagedInv, NeverBricked
  <1> QED BY <1>1, <1>2, <1>3, <1>4, <1>5, <1>6, FlashShape8266

\* The ESP8266 runs a whole image too, wherever the transfer stops and wherever
\* power fails, if OTABackend::begin forgets an update staged before.  If it
\* did not, a reset during the next transfer would copy half of one.
THEOREM AlwaysBootable8266 == ASSUME BeginUnstages PROVE Spec8266 => []NeverBricked
PROOF
  <1>1. Init => StagedInv
    <2> SUFFICES ASSUME Init PROVE StagedInv
      OBVIOUS
    <2>1. PICK f \in Images : slots = [s \in {0, 1} |-> IF s = 0 THEN Image(f) ELSE <<>>]
      BY DEF Init
    <2>2. slots[running] = Image(f)
      BY <2>1 DEF Init
    <2> QED BY <2>1, <2>2 DEF Init, StagedInv, NeverBricked, IsImage, Active
  <1>2. TypeOK /\ ControlInv /\ StagedInv /\ [Next8266]_rxVars => StagedInv'
    BY Staged8266Next
  <1>3. StagedInv => NeverBricked
    BY DEF StagedInv
  <1> QED BY <1>1, <1>2, <1>3, InitTyped, EitherTyped, ControlInit, ControlNext, OfEither, PTL
          DEF Spec8266

=============================================================================
