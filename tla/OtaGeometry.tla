---------------------------- MODULE OtaGeometry ----------------------------
(***************************************************************************)
(* The arithmetic with which the bridge (ESPNowOTAManager::handle_accept_) *)
(* and the leaf (FileReceiver::compute_increment_geometry_) cut a file     *)
(* into chunks and the chunks into increments.  Both sides evaluate the    *)
(* same formulas on what the ACCEPT ack carries, so one definition serves  *)
(* both.  Sequence numbers count from 0.                                   *)
(***************************************************************************)
EXTENDS Integers

\* static_cast<uint16_t>, the type of every increment and per-increment count.
U16(n) == n % 65536

\* Bytes of one increment: min(remote buffer, ESPNOW_MAX_INCREMENT_KB) KB.
MaxIncrementKb == 8
IncrementBytes(kb) == 1024 * (IF kb < MaxIncrementKb THEN kb ELSE MaxIncrementKb)

\* Division rounding up, as both sides spell it: n / d + (n % d != 0 ? 1 : 0).
CeilDiv(n, d) == (n \div d) + (IF n % d # 0 THEN 1 ELSE 0)

\* The code's guards against a count of zero.
AtLeastOne(n) == IF n = 0 THEN 1 ELSE n

ChunksPerIncrement(kb, chunkSize) ==
    AtLeastOne(U16(IncrementBytes(kb) \div chunkSize))

TotalChunksFor(fileSize, chunkSize) == CeilDiv(fileSize, chunkSize)

TotalIncrements(chunks, cpi) == AtLeastOne(U16(CeilDiv(chunks, cpi)))

\* increment_start_seq.
IncrementStart(cpi, inc) == inc * cpi

\* chunks_in_last_increment; zero is replaced by a full increment.
ChunksInLast(chunks, cpi) ==
    LET rest == U16(chunks - IncrementStart(cpi, TotalIncrements(chunks, cpi) - 1))
    IN  IF rest = 0 THEN cpi ELSE rest

\* chunks_in_increment_ / chunks_in_this_increment.
ChunksInIncrement(chunks, cpi, inc) ==
    IF inc + 1 >= TotalIncrements(chunks, cpi) THEN ChunksInLast(chunks, cpi) ELSE cpi

\* increment_end_seq (exclusive).
IncrementEnd(chunks, cpi, inc) ==
    LET end == IncrementStart(cpi, inc) + ChunksInIncrement(chunks, cpi, inc)
    IN  IF end < chunks THEN end ELSE chunks

IncrementSeqs(chunks, cpi, inc) ==
    IncrementStart(cpi, inc) .. (IncrementEnd(chunks, cpi, inc) - 1)

\* expected_chunk_len_: the length a chunk of this sequence number must have.
ExpectedChunkLen(fileSize, chunkSize, seq) ==
    LET offset == seq * chunkSize
    IN  IF seq >= TotalChunksFor(fileSize, chunkSize) \/ offset >= fileSize THEN 0
        ELSE IF fileSize - offset < chunkSize THEN fileSize - offset ELSE chunkSize

=============================================================================
