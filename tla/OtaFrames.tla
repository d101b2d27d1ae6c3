----------------------------- MODULE OtaFrames -----------------------------
(***************************************************************************)
(* What the two ends of an OTA transfer share: the files, the geometry     *)
(* they agree on, the frames of the bridge (FILE_TRANSFER, FILE_DATA) and  *)
(* the FILE_TRANSFER acks of the leaf.                                     *)
(***************************************************************************)
EXTENDS Integers, Sequences, FiniteSets, OtaGeometry

CONSTANTS
    Files,          \* the files a source may send
    NumChunks,      \* NumChunks[f]: length of file f in chunks
    Cpi,            \* chunks_per_increment
    MaxRounds,      \* ESPNOW_MAX_RETRANSMIT_ROUNDS
    NoFile          \* file_id when no transfer is active

ASSUME FilesAssumption ==
    /\ NoFile \notin Files
    /\ NumChunks \in [Files -> Nat \ {0}]
    /\ Cpi \in Nat \ {0}
    /\ MaxRounds \in Nat
\* A file fits the update partition (on_announce), far below 2^16 increments.
ASSUME PartitionAssumption ==
    \A f \in Files : NumChunks[f] < 65536

Incs(f) == TotalIncrements(NumChunks[f], Cpi)
NumInInc(f, inc) == ChunksInIncrement(NumChunks[f], Cpi, inc)
SeqsOf(f, inc) == IncrementSeqs(NumChunks[f], Cpi, inc)

\* Frames of the bridge.  n is the increment of a BLAST_COMPLETE and the
\* sequence number of a FILE_DATA; only the frames that are acked by number
\* keep their tx counter.  The file of a FILE_DATA stands for its bytes: the
\* frame itself does not name the transfer it belongs to.
Announce(f, tx)        == [phase |-> "ANNOUNCE", file |-> f, n |-> 0, tx |-> tx]
BlastComplete(inc, tx) == [phase |-> "BLAST_COMPLETE", file |-> NoFile, n |-> inc, tx |-> tx]
Data(f, seq)           == [phase |-> "DATA", file |-> f, n |-> seq, tx |-> 0]
End                    == [phase |-> "END", file |-> NoFile, n |-> 0, tx |-> 0]
Abort                  == [phase |-> "ABORT", file |-> NoFile, n |-> 0, tx |-> 0]

\* espnow_ack_t and its trailing bytes.  "clear" is a GAPS ack with an empty
\* bitmap, "got" the bits of a bitmap, "ok" a COMPLETE with SUCCESS or, for
\* the other kinds, trailing bytes that are well formed and agree with the
\* announce.
AckKinds == {"ACCEPT", "REJECT", "GAPS", "COMPLETE", "ABORT"}

PlainAck(kind, ref)       == [kind |-> kind, ref |-> ref, clear |-> FALSE, got |-> {}, ok |-> TRUE]
ClearAck(ref)             == [PlainAck("GAPS", ref) EXCEPT !.clear = TRUE]
GapsAck(ref, received)    == [PlainAck("GAPS", ref) EXCEPT !.got = received]
CompleteAck(ref, success) == [PlainAck("COMPLETE", ref) EXCEPT !.ok = success]

=============================================================================
