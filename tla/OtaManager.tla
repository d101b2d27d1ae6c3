----------------------------- MODULE OtaManager -----------------------------
(***************************************************************************)
(* The bridge side of an OTA transfer: class ESPNowOTAManager.             *)
(*                                                                         *)
(* Handlers and loop() passes are atomic, as they are when the source is   *)
(* the serial transport, whose frames the main loop itself handles.  The   *)
(* module is open: the source's calls and the leaf's acks are parameters,  *)
(* frames handed to the radio are left in mOut.  Timeouts may fire at any  *)
(* moment, so the backoff after NO_MEM is a loop() pass that does nothing. *)
(***************************************************************************)
EXTENDS OtaFrames

CONSTANTS
    MaxAttempts,    \* ESPNOW_FILE_MAX_RETRIES
    MaxBcRetries,   \* ESPNOW_MAX_BLAST_COMPLETE_RETRIES
    HistoryLen,     \* length of blast_complete_tx_history
    MaxStartTx      \* bound: no transfer starts after this many numbered frames

ASSUME ManagerAssumption ==
    /\ MaxAttempts \in Nat \ {0}
    /\ MaxBcRetries \in Nat \ {0}
    /\ HistoryLen \in Nat \ {0}
    /\ MaxStartTx \in Nat

VARIABLES
    mState,         \* state_; ABORTING and COMPLETE never outlive a handler
    mFile,          \* file_size_, md5_, file_id_, action_
    mInc,           \* tracker_.current_increment
    mRound,         \* tracker_.retransmit_round
    mBcRetries,     \* tracker_.blast_complete_retries
    mHist,          \* tracker_.blast_complete_tx_history
    mGaps,          \* tracker_.gap_sequences
    mRequested,     \* tracker_.requested_sequences: asked of the source
    mPending,       \* pending_chunks_ by number; the leaf places chunks by number
    mSent,          \* tracker_.sent_sequences
    mAttempts,      \* control_attempt_count_
    mAnnTx,         \* announce_tx_counter_
    mPublic,        \* public_state_
    txCounter,      \* the session's tx_counter, counting the numbered frames
    mOut            \* frames handed to the radio by the last step

roundVars == <<mGaps, mRequested, mPending, mSent>>
mVars     == <<mState, mFile, mInc, mRound, mBcRetries, mHist, roundVars,
               mAttempts, mAnnTx, mPublic, txCounter, mOut>>

Busy == mState # "IDLE"

\* What send_frame_fn_ returns: ESP_OK, ESP_ERR_ESPNOW_NO_MEM,
\* ESP_ERR_NOT_FOUND (no session with the leaf), or another error.
SendResults == {"OK", "NO_MEM", "NOT_FOUND", "FAIL"}

-----------------------------------------------------------------------------
(* reset_() and the two ways a transfer ends.                              *)

ResetTracker ==
    /\ mInc' = 0
    /\ mRound' = 0
    /\ mBcRetries' = 0
    /\ mHist' = <<>>
    /\ mGaps' = {}
    /\ mRequested' = {}
    /\ mPending' = {}
    /\ mSent' = {}

Reset ==
    /\ mState' = "IDLE"
    /\ mFile' = NoFile
    /\ mAttempts' = 0
    /\ mAnnTx' = 0
    /\ ResetTracker

\* Mutant of FailTransfer: public_state_ is not set.
FailQuietly(notify) ==
    /\ mOut' = IF notify THEN <<Abort>> ELSE <<>>
    /\ Reset
    /\ UNCHANGED <<mPublic, txCounter>>

\* fail_transfer_(reason, message, notify_remote).  Whether the ABORT gets
\* out is up to the radio.
FailTransfer(notify) ==
    /\ mPublic' = "FAIL"
    /\ mOut' = IF notify THEN <<Abort>> ELSE <<>>
    /\ Reset
    /\ UNCHANGED txCounter

Nothing == UNCHANGED <<mState, mFile, mInc, mRound, mBcRetries, mHist,
                       roundVars, mAttempts, mAnnTx, mPublic, txCounter>>
           /\ mOut' = <<>>

-----------------------------------------------------------------------------
(* start_transfer and send_announce_.                                      *)

\* Mutant of AttemptsExhausted: off by one.
OneAttemptMore(n) == n > MaxAttempts

\* control_attempt_count_ = n: no further ANNOUNCE or END.
AttemptsExhausted(n) == n >= MaxAttempts

\* The announce of file f goes out; n is control_attempt_count_ so far.
AnnounceSent(f, n) ==
    /\ mAnnTx' = txCounter
    /\ mAttempts' = n + 1
    /\ txCounter' = txCounter + 1
    /\ mOut' = <<Announce(f, txCounter)>>

\* Refused while a transfer is active: a second call changes nothing.
StartTransfer(f, res) ==
    /\ ~Busy /\ txCounter <= MaxStartTx
    /\ \/ /\ res \in {"OK", "NO_MEM"}
          /\ mState' = "ANNOUNCING"
          /\ mFile' = f
          /\ mPublic' = "START_RECEIVED"
          /\ ResetTracker
          /\ \/ res = "OK" /\ AnnounceSent(f, 0)
             \/ /\ res = "NO_MEM"
                /\ mAttempts' = 0 /\ mAnnTx' = 0 /\ mOut' = <<>>
                /\ UNCHANGED txCounter
       \/ res \in {"NOT_FOUND", "FAIL"} /\ FailTransfer(FALSE)

\* loop() in ANNOUNCING: the first send after a NO_MEM, or a retry.
SendAnnounce(res) ==
    /\ mState = "ANNOUNCING"
    /\ \/ AttemptsExhausted(mAttempts) /\ FailTransfer(TRUE)
       \/ /\ ~AttemptsExhausted(mAttempts) /\ res = "OK"
          /\ AnnounceSent(mFile, mAttempts)
          /\ UNCHANGED <<mState, mFile, mInc, mRound, mBcRetries, mHist,
                         roundVars, mPublic>>
       \/ ~AttemptsExhausted(mAttempts) /\ res = "NO_MEM" /\ Nothing
       \/ /\ ~AttemptsExhausted(mAttempts) /\ res \in {"NOT_FOUND", "FAIL"}
          /\ FailTransfer(FALSE)

-----------------------------------------------------------------------------
(* The source.                                                             *)

\* request_increment_chunks_: what a round asks for.
RoundTarget(f, inc, round, gaps) == IF round = 0 THEN SeqsOf(f, inc) ELSE gaps

\* A chunk nobody asked for, or asked for once and given twice, is refused.
ChunkExpected(seq) == seq \in mRequested

OnSourceChunk(seq) ==
    /\ mState = "BLASTING"
    /\ ChunkExpected(seq)
    /\ mPending' = mPending \cup {seq}
    /\ mRequested' = mRequested \ {seq}
    /\ mOut' = <<>>
    /\ UNCHANGED <<mState, mFile, mInc, mRound, mBcRetries, mHist, mGaps, mSent,
                   mAttempts, mAnnTx, mPublic, txCounter>>

OnSourceAbort == Busy /\ FailTransfer(TRUE)

-----------------------------------------------------------------------------
(* loop(): sending chunks, BLAST_COMPLETE and END.                         *)

\* send_blast_complete_, in a pass that already sent the frames "before".
SendBlastComplete(res, before) ==
    \/ /\ res = "OK"
       /\ mState' = "WAITING_GAPS"
       /\ mHist' = LET h == Append(mHist, txCounter)
                   IN  IF Len(h) > HistoryLen THEN Tail(h) ELSE h
       /\ mBcRetries' = mBcRetries + 1
       /\ txCounter' = txCounter + 1
       /\ mOut' = before \o <<BlastComplete(mInc, txCounter)>>
       /\ UNCHANGED <<mFile, mInc, mRound, mAttempts, mAnnTx, mPublic>>
    \/ /\ res \in {"NO_MEM", "FAIL"}
       /\ mOut' = before
       /\ UNCHANGED <<mState, mHist, mBcRetries, txCounter, mFile, mInc, mRound,
                      mAttempts, mAnnTx, mPublic>>

\* pump_blasting_: nothing is asked for, queued or sent yet.
PumpRequest ==
    /\ mState = "BLASTING"
    /\ mRequested = {} /\ mSent = {} /\ mPending = {}
    /\ mRequested' = RoundTarget(mFile, mInc, mRound, mGaps)
    /\ mPublic' = "TRANSFERRING"
    /\ mOut' = <<>>
    /\ UNCHANGED <<mState, mFile, mInc, mRound, mBcRetries, mHist, mGaps,
                   mPending, mSent, mAttempts, mAnnTx, txCounter>>

\* Mutant of RoundDrained: chunks still asked for are forgotten.
QueueDrained(seq) == mPending = {seq}

\* pump_queued_chunks_ with a queued chunk: send it, and close the round
\* with BLAST_COMPLETE after the last one.  A chunk that fails stays queued.
RoundDrained(seq) == mPending = {seq} /\ mRequested = {}

PumpChunk(seq, res) ==
    /\ mState = "BLASTING" /\ seq \in mPending
    /\ \/ /\ ~RoundDrained(seq)
          /\ mOut' = <<Data(mFile, seq)>>
          /\ mPending' = mPending \ {seq}
          /\ mSent' = mSent \cup {seq}
          /\ UNCHANGED <<mState, mFile, mInc, mRound, mBcRetries, mHist, mGaps,
                         mRequested, mAttempts, mAnnTx, mPublic, txCounter>>
       \/ /\ RoundDrained(seq)
          /\ mPending' = {}
          /\ mSent' = mSent \cup {seq}
          /\ SendBlastComplete(res, <<Data(mFile, seq)>>)
          /\ UNCHANGED <<mGaps, mRequested>>
       \/ /\ RoundDrained(seq) /\ res = "NOT_FOUND"
          /\ FailTransfer(FALSE)

\* pump_queued_chunks_ when only the BLAST_COMPLETE is still to be sent.
PumpBlastComplete(res) ==
    /\ mState = "BLASTING"
    /\ mPending = {} /\ mRequested = {} /\ mSent # {}
    /\ \/ SendBlastComplete(res, <<>>) /\ UNCHANGED roundVars
       \/ res = "NOT_FOUND" /\ FailTransfer(FALSE)

\* Mutant of BcRetriesExhausted: one retry too few.
LastRetryRefused == mBcRetries + 1 >= MaxBcRetries

BcRetriesExhausted == mBcRetries >= MaxBcRetries

\* loop() in WAITING_GAPS, ESPNOW_BLAST_COMPLETE_TIMEOUT_MS after the last send.
RetryBlastComplete(res) ==
    /\ mState = "WAITING_GAPS"
    /\ \/ BcRetriesExhausted /\ FailTransfer(TRUE)
       \/ /\ ~BcRetriesExhausted
          /\ \/ SendBlastComplete(res, <<>>) /\ UNCHANGED roundVars
             \/ res = "NOT_FOUND" /\ FailTransfer(FALSE)

\* send_end_ with control_attempt_count_ = n, from handle_gaps_ack_ or loop().
SendEnd(n, res) ==
    \/ AttemptsExhausted(n) /\ FailTransfer(TRUE)
    \/ /\ ~AttemptsExhausted(n) /\ res = "OK"
       /\ mState' = "ENDING"
       /\ mAttempts' = n + 1
       /\ mPublic' = "VERIFYING"
       /\ mOut' = <<End>>
       /\ UNCHANGED <<mFile, mInc, mRound, mBcRetries, mHist, roundVars, mAnnTx, txCounter>>
    \/ ~AttemptsExhausted(n) /\ res \in {"NO_MEM", "FAIL"} /\ FailTransfer(TRUE)
    \/ ~AttemptsExhausted(n) /\ res = "NOT_FOUND" /\ FailTransfer(FALSE)

RetryEnd(res) == mState = "ENDING" /\ SendEnd(mAttempts, res)

-----------------------------------------------------------------------------
(* on_file_ack.                                                            *)

\* Mutant of AcceptExpected: ref_tx_counter is not compared.
AnyAccept(ack) == ack.kind = "ACCEPT"

\* An ACCEPT of the latest announce.
AcceptExpected(ack) == ack.kind = "ACCEPT" /\ ack.ref = mAnnTx

\* handle_accept_: the geometry is fixed and the first increment requested.
HandleAccept(ack) ==
    /\ mState = "ANNOUNCING" /\ AcceptExpected(ack)
    /\ \/ ~ack.ok /\ FailTransfer(TRUE)
       \/ /\ ack.ok
          /\ mState' = "BLASTING"
          /\ mInc' = 0 /\ mRound' = 0 /\ mBcRetries' = 0 /\ mHist' = <<>>
          /\ mAttempts' = 0
          /\ mRequested' = SeqsOf(mFile, 0)
          /\ mSent' = {}
          /\ mPublic' = "TRANSFERRING"
          /\ mOut' = <<>>
          /\ UNCHANGED <<mFile, mGaps, mPending, mAnnTx, txCounter>>

\* Mutant of InHistory: any BLAST_COMPLETE will do.
AnyRef(ref) == ref # 0

\* The ack refers to a BLAST_COMPLETE of the current round.
InHistory(ref) == \E i \in 1..Len(mHist) : mHist[i] = ref

IsLastIncrement == mInc + 1 >= Incs(mFile)

\* Mutant of BlastRound: sent_sequences is not cleared.
BlastRoundKeepingSent(inc, round, wanted) ==
    /\ mState' = "BLASTING"
    /\ mInc' = inc
    /\ mRound' = round
    /\ mBcRetries' = 0
    /\ mRequested' = wanted
    /\ mOut' = <<>>
    /\ UNCHANGED <<mFile, mPending, mSent, mAttempts, mAnnTx, mPublic, txCounter>>

\* BLASTING again, in increment inc, round "round", asking for "wanted".
BlastRound(inc, round, wanted) ==
    /\ mState' = "BLASTING"
    /\ mInc' = inc
    /\ mRound' = round
    /\ mBcRetries' = 0
    /\ mRequested' = wanted
    /\ mSent' = {}
    /\ mOut' = <<>>
    /\ UNCHANGED <<mFile, mPending, mAttempts, mAnnTx, mPublic, txCounter>>

\* An empty bitmap: the increment is complete.
GapsClear(res) ==
    \/ IsLastIncrement /\ SendEnd(0, res)
    \/ /\ ~IsLastIncrement
       /\ BlastRound(mInc + 1, 0, SeqsOf(mFile, mInc + 1))
       /\ mHist' = <<>> /\ mGaps' = {}

\* Mutant of MissingIn: a short last increment is taken for a full one.
MissingInFull(got) == {IncrementStart(Cpi, mInc) + i : i \in (0 .. (Cpi - 1)) \ got}

MissingIn(got) == {IncrementStart(Cpi, mInc) + i : i \in (0 .. (NumInInc(mFile, mInc) - 1)) \ got}

\* A bitmap: another round for what is missing.  A bitmap with every bit set
\* also moves on, but keeps the history and does not look for the last one.
GapsMissing(got) ==
    \/ mRound >= MaxRounds /\ FailTransfer(TRUE)
    \/ /\ mRound < MaxRounds /\ MissingIn(got) # {}
       /\ BlastRound(mInc, mRound + 1, MissingIn(got))
       /\ mHist' = <<>> /\ mGaps' = MissingIn(got)
    \/ /\ mRound < MaxRounds /\ MissingIn(got) = {}
       /\ BlastRound(mInc + 1, 0, SeqsOf(mFile, mInc + 1))
       /\ mGaps' = {} /\ UNCHANGED mHist

HandleGaps(ack, res) ==
    /\ mState = "WAITING_GAPS" /\ ack.kind = "GAPS" /\ InHistory(ack.ref)
    /\ \/ ~ack.ok /\ FailTransfer(TRUE)
       \/ ack.ok /\ ack.clear /\ GapsClear(res)
       \/ ack.ok /\ ~ack.clear /\ GapsMissing(ack.got)

\* handle_complete_: in any busy state, whatever the ack refers to.
HandleComplete(ack) ==
    /\ Busy /\ ack.kind = "COMPLETE"
    /\ \/ /\ ack.ok
          /\ mPublic' = "SUCCESS"
          /\ mOut' = <<>>
          /\ Reset
          /\ UNCHANGED txCounter
       \/ ~ack.ok /\ FailTransfer(FALSE)

\* handle_reject_ and handle_abort_ack_, likewise.
HandleRejectOrAbort(ack) ==
    /\ Busy /\ ack.kind \in {"REJECT", "ABORT"}
    /\ FailTransfer(FALSE)

AckIgnored(ack) ==
    /\ \/ ~Busy
       \/ ack.kind = "ACCEPT" /\ ~(mState = "ANNOUNCING" /\ AcceptExpected(ack))
       \/ ack.kind = "GAPS" /\ ~(mState = "WAITING_GAPS" /\ InHistory(ack.ref))
    /\ Nothing

OnFileAck(ack, res) ==
    \/ HandleAccept(ack)
    \/ HandleGaps(ack, res)
    \/ HandleComplete(ack)
    \/ HandleRejectOrAbort(ack)
    \/ AckIgnored(ack)

-----------------------------------------------------------------------------
(* loop(): giving up.                                                      *)

LoopUnreachable == Busy /\ FailTransfer(FALSE)

LoopGlobalTimeout == Busy /\ FailTransfer(TRUE)

\* Mutant of LoopSilence: a source that stops in BLASTING is not noticed.
LoopSilenceWaiting == mState = "WAITING_GAPS" /\ FailTransfer(TRUE)

LoopSilence == mState \in {"BLASTING", "WAITING_GAPS"} /\ FailTransfer(TRUE)

-----------------------------------------------------------------------------

Init ==
    /\ mState = "IDLE" /\ mFile = NoFile
    /\ mInc = 0 /\ mRound = 0 /\ mBcRetries = 0 /\ mHist = <<>>
    /\ mGaps = {} /\ mRequested = {} /\ mPending = {} /\ mSent = {}
    /\ mAttempts = 0 /\ mAnnTx = 0 /\ mPublic = "IDLE" /\ txCounter = 1 /\ mOut = <<>>

AllSeqs == UNION {0 .. (NumChunks[f] - 1) : f \in Files}

SourceCalls ==
    \/ \E f \in Files, res \in SendResults : StartTransfer(f, res)
    \/ \E seq \in AllSeqs : OnSourceChunk(seq)
    \/ OnSourceAbort

LoopPass ==
    \/ \E res \in SendResults :
          \/ SendAnnounce(res)
          \/ \E seq \in AllSeqs : PumpChunk(seq, res)
          \/ PumpBlastComplete(res)
          \/ RetryBlastComplete(res)
          \/ RetryEnd(res)
    \/ PumpRequest
    \/ LoopUnreachable
    \/ LoopGlobalTimeout
    \/ LoopSilence

\* Every ack a leaf may send, referring to any frame already sent where the
\* reference is looked at.
AnyAck ==
    \E ref \in 0 .. (txCounter - 1), ok \in BOOLEAN, res \in SendResults :
      \/ \E kind \in {"COMPLETE", "REJECT", "ABORT"} :
            OnFileAck([PlainAck(kind, 0) EXCEPT !.ok = ok], res)
      \/ OnFileAck([PlainAck("ACCEPT", ref) EXCEPT !.ok = ok], res)
      \/ OnFileAck([ClearAck(ref) EXCEPT !.ok = ok], res)
      \/ \E got \in SUBSET (0 .. (Cpi - 1)) :
            OnFileAck([GapsAck(ref, got) EXCEPT !.ok = ok], res)

Next == SourceCalls \/ LoopPass \/ AnyAck

Spec == Init /\ [][Next]_mVars

-----------------------------------------------------------------------------
(* Properties.                                                             *)

TypeOK ==
    /\ mState \in {"IDLE", "ANNOUNCING", "BLASTING", "WAITING_GAPS", "ENDING"}
    /\ mFile \in Files \cup {NoFile}
    /\ (mState = "IDLE") <=> (mFile = NoFile)
    /\ mInc \in Nat /\ mRound \in 0 .. MaxRounds
    /\ mBcRetries \in 0 .. MaxBcRetries
    /\ mHist \in Seq(Nat) /\ Len(mHist) <= HistoryLen
    /\ mGaps \in SUBSET Nat /\ mRequested \in SUBSET Nat
    /\ mPending \in SUBSET Nat /\ mSent \in SUBSET Nat
    /\ mAttempts \in 0 .. MaxAttempts
    /\ mAnnTx \in Nat /\ txCounter \in Nat
    /\ mPublic \in {"IDLE", "START_RECEIVED", "TRANSFERRING", "VERIFYING", "SUCCESS", "FAIL"}

Target == RoundTarget(mFile, mInc, mRound, mGaps)

\* The three sets of a round partition what the round is for, so no chunk is
\* lost between the source, the queue and the radio, and none is sent twice.
RoundPartition ==
    mState \in {"BLASTING", "WAITING_GAPS"} =>
      /\ mRequested \cup mPending \cup mSent = Target
      /\ mRequested \cap mPending = {}
      /\ mRequested \cap mSent = {}
      /\ mPending \cap mSent = {}

\* BLAST_COMPLETE goes out only after every chunk of the round went out.
RoundSentBeforeBlastComplete == mState = "WAITING_GAPS" => mSent = Target /\ Target # {}

\* What the bridge asks to send again is inside the current increment.
TargetInIncrement ==
    mState \in {"BLASTING", "WAITING_GAPS"} => Target \subseteq SeqsOf(mFile, mInc)

\* Every way a transfer ends leaves a final status for the status page and
\* the API; every active transfer shows a non-final one.
StatusFollowsState == (mState = "IDLE") <=> mPublic \in {"IDLE", "SUCCESS", "FAIL"}

=============================================================================
