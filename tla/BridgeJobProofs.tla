-------------------------- MODULE BridgeJobProofs ---------------------------
(***************************************************************************)
(* The manager, and the bridge's OTA job on top of it: their invariants    *)
(* for every file, geometry, bound and transport.  The manager's are       *)
(* proved for its own Next and for the steps in which it is not called     *)
(* (Nothing), so that they carry over to the job's.                        *)
(***************************************************************************)
EXTENDS BridgeJob, OtaFramesProofs

\* What the status page shows, state by state.
StatusOK ==
    /\ mState = "IDLE" => mPublic \in {"IDLE", "SUCCESS", "FAIL"}
    /\ mState = "ANNOUNCING" => mPublic = "START_RECEIVED"
    /\ mState \in {"BLASTING", "WAITING_GAPS"} => mPublic = "TRANSFERRING"
    /\ mState = "ENDING" => mPublic = "VERIFYING"

\* Nothing is left over from before when a state begins.
FreshOK ==
    /\ mState = "ANNOUNCING" => mPending = {}
    /\ mState = "BLASTING" => mBcRetries = 0
    /\ mState \in {"IDLE", "ANNOUNCING", "WAITING_GAPS", "ENDING"} => mRequested = {}

RoundOK == RoundPartition /\ RoundSentBeforeBlastComplete /\ TargetInIncrement

IInv == TypeOK /\ RoundOK /\ StatusOK /\ FreshOK

-----------------------------------------------------------------------------
(* What a round asks for.                                                  *)

\* An increment's chunks are numbers; past the last increment there are none.
LEMMA SeqsFacts ==
    ASSUME NEW f \in Files, NEW inc \in Nat
    PROVE  /\ SeqsOf(f, inc) \in SUBSET Nat
           /\ SeqsOf(f, inc) # {} => inc < Incs(f)
PROOF
  <1>1. PICK d \in Nat \ {0}, n \in Nat \ {0}, t \in Nat \ {0} :
            d = Cpi /\ n = NumChunks[f] /\ t = Incs(f) /\ n <= IncrementStart(Cpi, t)
    BY FilesAssumption, IncsBounds
  <1>2. PICK lastInc \in Nat \ {0} : lastInc = ChunksInLast(NumChunks[f], Cpi)
    <2>1. t - 1 \in Nat /\ t - 1 < t /\ (t - 1) + 1 >= t
      BY <1>1
    <2>2. NumInInc(f, t - 1) = ChunksInLast(NumChunks[f], Cpi)
      BY <1>1, <2>1 DEF NumInInc, ChunksInIncrement, Incs
    <2>3. NumInInc(f, t - 1) \in Nat \ {0}
      BY <1>1, <2>1, IncrementShape
    <2> QED BY <2>2, <2>3
  <1>3. PICK k \in Nat \ {0} : k = NumInInc(f, inc)
    BY <1>1, <1>2 DEF NumInInc, ChunksInIncrement
  <1>4. PICK b \in Nat : b = IncrementStart(Cpi, inc)
    BY <1>1, StartFacts
  <1>5. SeqsOf(f, inc) = b .. ((IF b + k < n THEN b + k ELSE n) - 1)
    BY <1>1, <1>3, <1>4 DEF SeqsOf, IncrementSeqs, IncrementEnd, NumInInc
  <1>6. ASSUME inc >= t PROVE b >= n
    <2>1. PICK c \in Nat : c = IncrementStart(Cpi, t)
      BY <1>1, StartFacts
    <2> QED BY <1>1, <1>4, <1>6, <2>1, StartMono
  <1> QED BY <1>1, <1>5, <1>6, SMTT(30)

\* The missing chunks of an increment are its chunks.
LEMMA MissingFacts ==
    ASSUME NEW f \in Files, NEW inc \in Nat, inc < Incs(f), NEW got
    PROVE  {IncrementStart(Cpi, inc) + i : i \in (0 .. (NumInInc(f, inc) - 1)) \ got}
              \subseteq SeqsOf(f, inc)
PROOF
  <1>1. PICK b \in Nat, k \in Nat \ {0} :
            /\ b = IncrementStart(Cpi, inc) /\ k = NumInInc(f, inc)
            /\ IncrementEnd(NumChunks[f], Cpi, inc) = b + k
    BY FilesAssumption, StartFacts, IncrementShape
  <1>2. SeqsOf(f, inc) = b .. (b + k - 1)
    BY <1>1 DEF SeqsOf, IncrementSeqs
  <1> QED BY <1>1, <1>2, SMTT(30)

-----------------------------------------------------------------------------
(* The steps that several handlers share.                                  *)

LEMMA NothingKeeps ==
    ASSUME IInv, Nothing
    PROVE  IInv'
BY DEF IInv, Nothing, TypeOK, RoundOK, RoundPartition, RoundSentBeforeBlastComplete,
       TargetInIncrement, Target, RoundTarget, StatusOK, FreshOK, roundVars

\* IDLE, with every field reset.
LEMMA ResetKeeps ==
    ASSUME IInv, Reset, mPublic' \in {"SUCCESS", "FAIL"}, UNCHANGED txCounter
    PROVE  IInv' /\ mState' = "IDLE"
PROOF
  <1>1. TypeOK'
    BY FilesAssumption, ManagerAssumption
       DEF IInv, TypeOK, Reset, ResetTracker
  <1> QED BY <1>1 DEF IInv, Reset, ResetTracker, RoundOK, RoundPartition,
                      RoundSentBeforeBlastComplete, TargetInIncrement, StatusOK, FreshOK

LEMMA FailKeeps ==
    ASSUME IInv, NEW notify, FailTransfer(notify)
    PROVE  IInv' /\ mState' = "IDLE" /\ mPublic' = "FAIL"
BY ResetKeeps DEF FailTransfer

\* A step out of the rounds.
LEMMA OutOfRounds ==
    ASSUME mState' \in {"IDLE", "ANNOUNCING", "ENDING"}
    PROVE  RoundOK'
BY DEF RoundOK, RoundPartition, RoundSentBeforeBlastComplete, TargetInIncrement

\* What BLASTING and WAITING_GAPS are for, in one formula.
LEMMA RoundShape ==
    RoundOK <=> (mState \in {"BLASTING", "WAITING_GAPS"} =>
                   /\ mRequested \cup mPending \cup mSent = Target
                   /\ mRequested \cap mPending = {}
                   /\ mRequested \cap mSent = {}
                   /\ mPending \cap mSent = {}
                   /\ Target \subseteq SeqsOf(mFile, mInc)
                   /\ mState = "WAITING_GAPS" => mSent = Target /\ Target # {})
BY DEF RoundOK, RoundPartition, RoundSentBeforeBlastComplete, TargetInIncrement

\* The announce goes out for the n-th time.
LEMMA AnnounceTypes ==
    ASSUME TypeOK, NEW f, NEW n \in 0 .. MaxAttempts, n < MaxAttempts, AnnounceSent(f, n)
    PROVE  mAttempts' \in 0 .. MaxAttempts /\ mAnnTx' \in Nat /\ txCounter' \in Nat
BY ManagerAssumption DEF TypeOK, AnnounceSent

\* BLAST_COMPLETE closes a round whose chunks are all sent.
LEMMA BlastCompleteKeeps ==
    ASSUME IInv, NEW res, NEW before, SendBlastComplete(res, before),
           mState \in {"BLASTING", "WAITING_GAPS"}, ~BcRetriesExhausted,
           UNCHANGED <<mGaps, mRequested>>, mRequested = {}, mPending' = {},
           mSent' = mPending \cup mSent, mSent' # {}
    PROVE  IInv'
PROOF
  <1>1. mBcRetries + 1 \in 0 .. MaxBcRetries
    BY ManagerAssumption DEF IInv, TypeOK, BcRetriesExhausted
  <1>2. /\ UNCHANGED <<mFile, mInc, mRound, mGaps, mRequested, mAttempts, mAnnTx, mPublic>>
        /\ mState' \in {mState, "WAITING_GAPS"}
        /\ mState' = "BLASTING" => UNCHANGED mBcRetries
        /\ mBcRetries' \in {mBcRetries, mBcRetries + 1}
    BY DEF SendBlastComplete
  <1>3. mHist' \in Seq(Nat) /\ Len(mHist') <= HistoryLen /\ txCounter' \in Nat
    <2>1. mHist \in Seq(Nat) /\ Len(mHist) <= HistoryLen /\ txCounter \in Nat
      BY DEF IInv, TypeOK
    <2>2. CASE UNCHANGED <<mHist, txCounter>>
      BY <2>1, <2>2
    <2>3. CASE ~UNCHANGED <<mHist, txCounter>>
      <3> DEFINE h == Append(mHist, txCounter)
      <3>1. txCounter' = txCounter + 1 /\ mHist' = IF Len(h) > HistoryLen THEN Tail(h) ELSE h
        BY <2>3 DEF SendBlastComplete
      <3>2. h \in Seq(Nat) /\ Len(h) = Len(mHist) + 1
        BY <2>1
      <3> HIDE DEF h
      <3>3. h # <<>> /\ Tail(h) \in Seq(Nat) /\ Len(Tail(h)) = Len(h) - 1
        BY <2>1, <3>2
      <3> QED BY <2>1, <3>1, <3>2, <3>3, ManagerAssumption
    <2> QED BY <2>2, <2>3
  <1>4. TypeOK'
    <2>1. mPending \cup mSent \in SUBSET Nat
      BY DEF IInv, TypeOK
    <2> QED BY <1>1, <1>2, <1>3, <2>1 DEF IInv, TypeOK
  <1>5. RoundOK'
    <2>1. /\ Target' = Target /\ Target = mPending \cup mSent
          /\ Target \subseteq SeqsOf(mFile, mInc)
      BY <1>2, RoundShape DEF IInv, Target, RoundTarget
    <2> QED BY <1>2, <2>1 DEF RoundOK, RoundPartition, RoundSentBeforeBlastComplete,
                              TargetInIncrement
  <1>6. StatusOK' /\ FreshOK'
    BY <1>2 DEF IInv, StatusOK, FreshOK
  <1> QED BY <1>4, <1>5, <1>6 DEF IInv

\* END goes out, or the transfer fails.
LEMMA EndKeeps ==
    ASSUME IInv, Busy, NEW n \in 0 .. MaxAttempts, NEW res, SendEnd(n, res),
           mState \in {"WAITING_GAPS", "ENDING"}
    PROVE  IInv' /\ mState' \in {"IDLE", "ENDING"}
PROOF
  <1>1. CASE mState' # "ENDING"
    BY <1>1, FailKeeps DEF SendEnd
  <1>2. CASE mState' = "ENDING"
    <2>1. /\ mAttempts' = n + 1 /\ n < MaxAttempts /\ mPublic' = "VERIFYING"
          /\ UNCHANGED <<mFile, mInc, mRound, mBcRetries, mHist, mGaps, mRequested,
                         mPending, mSent, mAnnTx, txCounter>>
      <3>1. ~FailTransfer(TRUE) /\ ~FailTransfer(FALSE)
        BY <1>2, FailKeeps
      <3>2. /\ ~AttemptsExhausted(n) /\ mAttempts' = n + 1 /\ mPublic' = "VERIFYING"
            /\ UNCHANGED <<mFile, mInc, mRound, mBcRetries, mHist, roundVars, mAnnTx, txCounter>>
        BY <3>1, Zenon DEF SendEnd
      <3> QED BY <3>2, ManagerAssumption DEF AttemptsExhausted, roundVars
    <2>2. TypeOK'
      BY <1>2, <2>1, ManagerAssumption DEF IInv, TypeOK, Busy
    <2> QED BY <1>2, <2>1, <2>2, OutOfRounds DEF IInv, StatusOK, FreshOK
  <1> QED BY <1>1, <1>2

\* A new round, in the same increment or the next.
LEMMA NewRoundKeeps ==
    ASSUME IInv, mState = "WAITING_GAPS", NEW inc \in Nat, NEW round \in 0 .. MaxRounds,
           NEW wanted, BlastRound(inc, round, wanted), mGaps' \in SUBSET Nat,
           wanted = RoundTarget(mFile, inc, round, mGaps'),
           wanted \subseteq SeqsOf(mFile, inc), mHist' \in {<<>>, mHist}
    PROVE  IInv'
PROOF
  <1>1. mFile \in Files
    BY DEF IInv, TypeOK
  <1>2. /\ mState' = "BLASTING" /\ mInc' = inc /\ mRound' = round /\ mBcRetries' = 0
        /\ mRequested' = wanted /\ mSent' = {}
        /\ UNCHANGED <<mFile, mPending, mAttempts, mAnnTx, mPublic, txCounter>>
    BY DEF BlastRound
  <1>3. wanted \in SUBSET Nat
    BY <1>1, SeqsFacts
  <1>4. mPending = {}
    BY RoundShape DEF IInv
  <1>5. TypeOK'
    <2>1. mHist' \in Seq(Nat) /\ Len(mHist') <= HistoryLen
      <3>1. /\ mHist \in Seq(Nat) /\ Len(mHist) <= HistoryLen
            /\ <<>> \in Seq(Nat) /\ Len(<<>>) <= HistoryLen
        BY ManagerAssumption DEF IInv, TypeOK
      <3> QED BY <3>1, Zenon
    <2> QED BY <1>1, <1>2, <1>3, <2>1, FilesAssumption, ManagerAssumption, SMTT(30) DEF IInv, TypeOK
  <1>6. RoundOK'
    <2>1. Target' = wanted
      BY <1>2 DEF Target
    <2> QED BY <1>2, <1>4, <2>1 DEF RoundOK, RoundPartition, RoundSentBeforeBlastComplete,
                                    TargetInIncrement
  <1> QED BY <1>2, <1>5, <1>6 DEF IInv, StatusOK, FreshOK

-----------------------------------------------------------------------------
(* One lemma for each call into the manager.                               *)

LEMMA InitHolds == Init => IInv
BY FilesAssumption, ManagerAssumption
   DEF Init, IInv, TypeOK, RoundOK, RoundPartition, RoundSentBeforeBlastComplete,
       TargetInIncrement, StatusOK, FreshOK

LEMMA StartKeeps ==
    ASSUME IInv, NEW f \in Files, NEW res, StartTransfer(f, res)
    PROVE  IInv' /\ mState' \in {"IDLE", "ANNOUNCING"}
PROOF
  <1>1. CASE FailTransfer(FALSE)
    BY <1>1, FailKeeps
  <1>2. CASE ~FailTransfer(FALSE)
    <2>1. /\ mState' = "ANNOUNCING" /\ mFile' = f /\ mPublic' = "START_RECEIVED"
          /\ ResetTracker
          /\ \/ AnnounceSent(f, 0)
             \/ mAttempts' = 0 /\ mAnnTx' = 0 /\ UNCHANGED txCounter
      BY <1>2, Zenon DEF StartTransfer
    <2>2. mAttempts' \in 0 .. MaxAttempts /\ mAnnTx' \in Nat /\ txCounter' \in Nat
      <3>1. CASE AnnounceSent(f, 0)
        BY <3>1, AnnounceTypes, ManagerAssumption DEF IInv
      <3> QED BY <2>1, <3>1, ManagerAssumption DEF IInv, TypeOK
    <2>3. TypeOK'
      BY <2>1, <2>2, FilesAssumption, ManagerAssumption DEF TypeOK, ResetTracker
    <2> QED BY <2>1, <2>3, OutOfRounds DEF IInv, StatusOK, FreshOK, ResetTracker
  <1> QED BY <1>1, <1>2

LEMMA AnnounceKeeps ==
    ASSUME IInv, NEW res, SendAnnounce(res)
    PROVE  IInv'
PROOF
  <1>1. CASE FailTransfer(TRUE) \/ FailTransfer(FALSE)
    BY <1>1, FailKeeps
  <1>2. CASE Nothing
    BY <1>2, NothingKeeps
  <1>3. CASE ~(FailTransfer(TRUE) \/ FailTransfer(FALSE)) /\ ~Nothing
    <2>1. /\ mState = "ANNOUNCING" /\ ~AttemptsExhausted(mAttempts)
          /\ AnnounceSent(mFile, mAttempts)
          /\ UNCHANGED <<mState, mFile, mInc, mRound, mBcRetries, mHist, roundVars, mPublic>>
      BY <1>3, Zenon DEF SendAnnounce
    <2>2. mAttempts' \in 0 .. MaxAttempts /\ mAnnTx' \in Nat /\ txCounter' \in Nat
      <3>1. mAttempts \in 0 .. MaxAttempts /\ mAttempts < MaxAttempts
        BY <2>1, ManagerAssumption DEF IInv, TypeOK, AttemptsExhausted
      <3> QED BY <2>1, <3>1, AnnounceTypes DEF IInv
    <2>3. TypeOK'
      BY <2>1, <2>2 DEF IInv, TypeOK, roundVars
    <2> QED BY <2>1, <2>3, OutOfRounds DEF IInv, StatusOK, FreshOK, roundVars
  <1> QED BY <1>1, <1>2, <1>3

\* A chunk moves from those asked for to those queued.
LEMMA SourceChunkKeeps ==
    ASSUME IInv, NEW seq, OnSourceChunk(seq)
    PROVE  IInv' /\ mState' = mState
PROOF
  <1>1. /\ mState = "BLASTING" /\ seq \in mRequested
        /\ mPending' = mPending \cup {seq} /\ mRequested' = mRequested \ {seq}
        /\ UNCHANGED <<mState, mFile, mInc, mRound, mBcRetries, mHist, mGaps, mSent,
                       mAttempts, mAnnTx, mPublic, txCounter>>
    BY DEF OnSourceChunk, ChunkExpected
  <1>2. TypeOK'
    BY <1>1 DEF IInv, TypeOK
  <1>3. RoundOK'
    <2>1. /\ Target' = Target /\ mRequested \cup mPending \cup mSent = Target
          /\ mRequested \cap mPending = {} /\ mRequested \cap mSent = {}
          /\ mPending \cap mSent = {} /\ Target \subseteq SeqsOf(mFile, mInc)
      BY <1>1, RoundShape DEF IInv, Target, RoundTarget
    <2> QED BY <1>1, <2>1 DEF RoundOK, RoundPartition, RoundSentBeforeBlastComplete,
                              TargetInIncrement
  <1> QED BY <1>1, <1>2, <1>3 DEF IInv, StatusOK, FreshOK

\* All of the round is asked for, queued or sent: nothing is left to ask for.
LEMMA PumpRequestKeeps ==
    ASSUME IInv, PumpRequest
    PROVE  IInv' /\ mRequested' = {} /\ mState' = mState
PROOF
  <1>1. /\ mState = "BLASTING" /\ mRequested = {} /\ mSent = {} /\ mPending = {}
        /\ mRequested' = Target /\ mPublic' = "TRANSFERRING"
        /\ UNCHANGED <<mState, mFile, mInc, mRound, mBcRetries, mHist, mGaps, mPending,
                       mSent, mAttempts, mAnnTx, txCounter>>
    BY DEF PumpRequest, Target
  <1>2. Target = {}
    BY <1>1, RoundShape DEF IInv
  <1>3. UNCHANGED <<mState, mFile, mInc, mRound, mBcRetries, mHist, mGaps, mRequested,
                    mPending, mSent, mAttempts, mAnnTx, mPublic, txCounter>>
    BY <1>1, <1>2 DEF IInv, StatusOK
  <1> QED BY <1>2, <1>1, <1>3
          DEF IInv, TypeOK, RoundOK, RoundPartition, RoundSentBeforeBlastComplete,
              TargetInIncrement, Target, RoundTarget, StatusOK, FreshOK

\* A chunk is sent; the last one brings the BLAST_COMPLETE with it.
LEMMA PumpChunkKeeps ==
    ASSUME IInv, NEW seq, NEW res, PumpChunk(seq, res)
    PROVE  IInv'
PROOF
  <1>1. mState = "BLASTING" /\ seq \in mPending
    BY DEF PumpChunk
  <1>2. CASE FailTransfer(FALSE)
    BY <1>2, FailKeeps
  <1>3. CASE ~FailTransfer(FALSE) /\ RoundDrained(seq)
    <2>1. /\ mRequested = {} /\ mPending = {seq} /\ mPending' = {}
          /\ mSent' = mSent \cup {seq} /\ UNCHANGED <<mGaps, mRequested>>
          /\ SendBlastComplete(res, <<Data(mFile, seq)>>)
      BY <1>3, Zenon DEF PumpChunk, RoundDrained
    <2>2. ~BcRetriesExhausted
      BY <1>1, ManagerAssumption DEF IInv, FreshOK, BcRetriesExhausted
    <2>3. mSent' = mPending \cup mSent /\ mSent' # {}
      BY <2>1
    <2> QED BY <1>1, <2>1, <2>2, <2>3, BlastCompleteKeeps
  <1>4. CASE ~FailTransfer(FALSE) /\ ~RoundDrained(seq)
    <2>1. /\ mPending' = mPending \ {seq} /\ mSent' = mSent \cup {seq}
          /\ UNCHANGED <<mState, mFile, mInc, mRound, mBcRetries, mHist, mGaps,
                         mRequested, mAttempts, mAnnTx, mPublic, txCounter>>
      BY <1>4, Zenon DEF PumpChunk
    <2>2. TypeOK'
      BY <1>1, <2>1 DEF IInv, TypeOK
    <2>3. RoundOK'
      <3>1. /\ Target' = Target /\ mRequested \cup mPending \cup mSent = Target
            /\ mRequested \cap mPending = {} /\ mRequested \cap mSent = {}
            /\ mPending \cap mSent = {} /\ Target \subseteq SeqsOf(mFile, mInc)
        BY <1>1, <2>1, RoundShape DEF IInv, Target, RoundTarget
      <3> QED BY <1>1, <2>1, <3>1 DEF RoundOK, RoundPartition,
                 RoundSentBeforeBlastComplete, TargetInIncrement
    <2> QED BY <1>1, <2>1, <2>2, <2>3 DEF IInv, StatusOK, FreshOK
  <1> QED BY <1>2, <1>3, <1>4

LEMMA PumpBlastCompleteKeeps ==
    ASSUME IInv, NEW res, PumpBlastComplete(res)
    PROVE  IInv'
PROOF
  <1>1. mState = "BLASTING" /\ mPending = {} /\ mRequested = {} /\ mSent # {}
    BY DEF PumpBlastComplete
  <1>2. CASE FailTransfer(FALSE)
    BY <1>2, FailKeeps
  <1>3. CASE ~FailTransfer(FALSE)
    <2>1. SendBlastComplete(res, <<>>) /\ UNCHANGED <<mGaps, mRequested, mPending, mSent>>
      BY <1>3 DEF PumpBlastComplete, roundVars
    <2>2. ~BcRetriesExhausted
      BY <1>1, ManagerAssumption DEF IInv, FreshOK, BcRetriesExhausted
    <2>3. mPending' = {} /\ mSent' = mPending \cup mSent /\ mSent' # {}
      BY <1>1, <2>1
    <2> QED BY <1>1, <2>1, <2>2, <2>3, BlastCompleteKeeps
  <1> QED BY <1>2, <1>3

LEMMA RetryBlastCompleteKeeps ==
    ASSUME IInv, NEW res, RetryBlastComplete(res)
    PROVE  IInv'
PROOF
  <1>1. mState = "WAITING_GAPS"
    BY DEF RetryBlastComplete
  <1>2. mPending = {} /\ mRequested = {} /\ mSent # {}
    BY <1>1, RoundShape DEF IInv
  <1>3. CASE FailTransfer(FALSE) \/ FailTransfer(TRUE)
    BY <1>3, FailKeeps
  <1>4. CASE ~(FailTransfer(FALSE) \/ FailTransfer(TRUE))
    <2>1. /\ SendBlastComplete(res, <<>>) /\ ~BcRetriesExhausted
          /\ UNCHANGED <<mGaps, mRequested, mPending, mSent>>
      BY <1>4 DEF RetryBlastComplete, roundVars
    <2>2. mPending' = {} /\ mSent' = mPending \cup mSent /\ mSent' # {}
      BY <1>2, <2>1
    <2> QED BY <1>1, <1>2, <2>1, <2>2, BlastCompleteKeeps
  <1> QED BY <1>3, <1>4

LEMMA RetryEndKeeps ==
    ASSUME IInv, NEW res, RetryEnd(res)
    PROVE  IInv'
BY EndKeeps DEF RetryEnd, IInv, TypeOK, Busy

LEMMA LoopKeeps ==
    ASSUME IInv, LoopPass
    PROVE  IInv'
BY AnnounceKeeps, PumpChunkKeeps, PumpBlastCompleteKeeps, RetryBlastCompleteKeeps,
   RetryEndKeeps, PumpRequestKeeps, FailKeeps, Zenon
   DEF LoopPass, LoopUnreachable, LoopGlobalTimeout, LoopSilence

-----------------------------------------------------------------------------
(* The acks.                                                               *)

LEMMA AcceptKeeps ==
    ASSUME IInv, NEW ack, HandleAccept(ack)
    PROVE  IInv'
PROOF
  <1>1. mState = "ANNOUNCING" /\ mFile \in Files /\ mPending = {}
    BY DEF HandleAccept, IInv, TypeOK, FreshOK
  <1>2. CASE FailTransfer(TRUE)
    BY <1>2, FailKeeps
  <1>3. CASE ~FailTransfer(TRUE)
    <2>1. /\ mState' = "BLASTING" /\ mInc' = 0 /\ mRound' = 0 /\ mBcRetries' = 0
          /\ mHist' = <<>> /\ mAttempts' = 0 /\ mRequested' = SeqsOf(mFile, 0)
          /\ mSent' = {} /\ mPublic' = "TRANSFERRING"
          /\ UNCHANGED <<mFile, mGaps, mPending, mAnnTx, txCounter>>
      BY <1>3, Zenon DEF HandleAccept
    <2>2. SeqsOf(mFile, 0) \in SUBSET Nat
      BY <1>1, SeqsFacts
    <2>3. TypeOK'
      BY <1>1, <2>1, <2>2, FilesAssumption, ManagerAssumption DEF IInv, TypeOK
    <2>4. RoundOK'
      <3>1. Target' = SeqsOf(mFile, 0)
        BY <2>1 DEF Target, RoundTarget
      <3> QED BY <1>1, <2>1, <3>1 DEF RoundOK, RoundPartition,
                 RoundSentBeforeBlastComplete, TargetInIncrement
    <2> QED BY <2>1, <2>3, <2>4 DEF IInv, StatusOK, FreshOK
  <1> QED BY <1>2, <1>3

LEMMA ClearKeeps ==
    ASSUME IInv, mState = "WAITING_GAPS", NEW res, GapsClear(res)
    PROVE  IInv'
PROOF
  <1>1. CASE SendEnd(0, res)
    BY <1>1, EndKeeps, ManagerAssumption DEF Busy
  <1>2. CASE ~SendEnd(0, res)
    <2>1. /\ BlastRound(mInc + 1, 0, SeqsOf(mFile, mInc + 1))
          /\ mHist' = <<>> /\ mGaps' = {}
      BY <1>2 DEF GapsClear
    <2>2. mInc + 1 \in Nat /\ 0 \in 0 .. MaxRounds
      BY FilesAssumption DEF IInv, TypeOK
    <2>3. SeqsOf(mFile, mInc + 1) = RoundTarget(mFile, mInc + 1, 0, mGaps')
      BY DEF RoundTarget
    <2> QED BY <2>1, <2>2, <2>3, NewRoundKeeps
  <1> QED BY <1>1, <1>2

LEMMA MissingKeeps ==
    ASSUME IInv, mState = "WAITING_GAPS", NEW got, GapsMissing(got)
    PROVE  IInv'
PROOF
  <1>1. mFile \in Files /\ mInc \in Nat /\ mRound \in 0 .. MaxRounds /\ MaxRounds \in Nat
    BY FilesAssumption DEF IInv, TypeOK
  <1>2. mInc < Incs(mFile)
    <2>1. Target # {} /\ Target \subseteq SeqsOf(mFile, mInc)
      BY RoundShape DEF IInv
    <2> QED BY <1>1, <2>1, SeqsFacts
  <1>3. MissingIn(got) \subseteq SeqsOf(mFile, mInc) /\ SeqsOf(mFile, mInc) \in SUBSET Nat
    BY <1>1, <1>2, MissingFacts, SeqsFacts DEF MissingIn
  <1>4. CASE FailTransfer(TRUE)
    BY <1>4, FailKeeps
  <1>5. CASE /\ mRound < MaxRounds
             /\ BlastRound(mInc, mRound + 1, MissingIn(got))
             /\ mHist' = <<>> /\ mGaps' = MissingIn(got)
    <2>1. mRound + 1 \in 0 .. MaxRounds /\ mRound + 1 # 0
      BY <1>1, <1>5
    <2>2. MissingIn(got) = RoundTarget(mFile, mInc, mRound + 1, mGaps')
      BY <1>5, <2>1 DEF RoundTarget
    <2> QED BY <1>1, <1>3, <1>5, <2>1, <2>2, NewRoundKeeps
  <1>6. CASE /\ BlastRound(mInc + 1, 0, SeqsOf(mFile, mInc + 1))
             /\ mGaps' = {} /\ UNCHANGED mHist
    <2>1. mInc + 1 \in Nat /\ 0 \in 0 .. MaxRounds
      BY <1>1
    <2>2. SeqsOf(mFile, mInc + 1) = RoundTarget(mFile, mInc + 1, 0, mGaps')
      BY DEF RoundTarget
    <2> QED BY <1>6, <2>1, <2>2, NewRoundKeeps
  <1> QED BY <1>4, <1>5, <1>6 DEF GapsMissing

LEMMA AckKeeps ==
    ASSUME IInv, NEW ack, NEW res, OnFileAck(ack, res)
    PROVE  IInv'
PROOF
  <1>1. CASE HandleAccept(ack)
    BY <1>1, AcceptKeeps
  <1>2. CASE HandleGaps(ack, res)
    BY <1>2, FailKeeps, ClearKeeps, MissingKeeps, Zenon DEF HandleGaps
  <1>3. CASE HandleComplete(ack)
    BY <1>3, FailKeeps, ResetKeeps DEF HandleComplete
  <1>4. CASE HandleRejectOrAbort(ack)
    BY <1>4, FailKeeps DEF HandleRejectOrAbort
  <1>5. CASE AckIgnored(ack)
    BY <1>5, NothingKeeps DEF AckIgnored
  <1> QED BY <1>1, <1>2, <1>3, <1>4, <1>5 DEF OnFileAck

LEMMA AnyAckKeeps ==
    ASSUME IInv, AnyAck
    PROVE  IInv'
BY AckKeeps, Zenon DEF AnyAck

-----------------------------------------------------------------------------
(* The theorems.                                                           *)

LEMMA NextKeeps ==
    ASSUME IInv, Next
    PROVE  IInv'
PROOF
  <1>1. CASE SourceCalls
    BY <1>1, StartKeeps, SourceChunkKeeps, FailKeeps, Zenon DEF SourceCalls, OnSourceAbort
  <1>2. CASE LoopPass
    BY <1>2, LoopKeeps
  <1>3. CASE AnyAck
    BY <1>3, AnyAckKeeps
  <1> QED BY <1>1, <1>2, <1>3 DEF Next

LEMMA StutterKeeps ==
    ASSUME IInv, UNCHANGED mVars
    PROVE  IInv'
BY DEF IInv, mVars, roundVars, TypeOK, RoundOK, RoundPartition,
       RoundSentBeforeBlastComplete, TargetInIncrement, Target, RoundTarget, StatusOK, FreshOK

LEMMA ManagerInvariant == Spec => []IInv
PROOF
  <1>1. Init => IInv
    BY InitHolds
  <1>2. IInv /\ [Next]_mVars => IInv'
    BY NextKeeps, StutterKeeps
  <1> QED BY <1>1, <1>2, PTL DEF Spec

\* The manager's fields stay in range: no counter of attempts or rounds passes
\* its limit.
THEOREM ManagerTypes == Spec => []TypeOK
PROOF
  <1>1. IInv => TypeOK
    BY DEF IInv
  <1> QED BY <1>1, ManagerInvariant, PTL

\* No chunk of a round is lost or sent twice between source, queue and radio.
THEOREM RoundsArePartitioned == Spec => []RoundPartition
PROOF
  <1>1. IInv => RoundPartition
    BY DEF IInv, RoundOK
  <1> QED BY <1>1, ManagerInvariant, PTL

\* BLAST_COMPLETE follows the last chunk of its round, and no round is empty.
THEOREM BlastCompleteIsLast == Spec => []RoundSentBeforeBlastComplete
PROOF
  <1>1. IInv => RoundSentBeforeBlastComplete
    BY DEF IInv, RoundOK
  <1> QED BY <1>1, ManagerInvariant, PTL

\* A retransmit round stays inside the increment, whatever bitmap arrives.
THEOREM RoundsStayInIncrement == Spec => []TargetInIncrement
PROOF
  <1>1. IInv => TargetInIncrement
    BY DEF IInv, RoundOK
  <1> QED BY <1>1, ManagerInvariant, PTL

\* The public status is final exactly while no transfer is active.
THEOREM StatusIsTrue == Spec => []StatusFollowsState
PROOF
  <1>1. IInv => StatusFollowsState
    BY DEF IInv, TypeOK, StatusOK, StatusFollowsState
  <1> QED BY <1>1, ManagerInvariant, PTL

-----------------------------------------------------------------------------
(* The job and its transfer agree.                                         *)

Active == job \in {"WAITING", "TRANSFERRING"}

\* The job and the manager.
AgreeOK ==
    /\ stage \in {"drain", "poll", "api"}
    /\ Busy => Active
    /\ mState = "ANNOUNCING" => job = "WAITING"
    /\ Active => mPublic # "IDLE"
    /\ job = "TRANSFERRING" => prev \notin {"SUCCESS", "FAIL"}

\* The job and its client.
ToldOK ==
    /\ client \in BOOLEAN /\ asked \in BOOLEAN /\ heard \in BOOLEAN
    /\ client => attached
    /\ asked => client
    /\ heard => client
    /\ heard /\ ~Active => told \notin {"STARTED", "ACCEPTED"}
    /\ heard /\ Active /\ stage = "api" => Busy

\* What is remembered, and what the client holds.  Once the leaf was asked for
\* its gaps the last request is forgotten, so that a round of any of its
\* chunks is asked for again.
AskedOK ==
    job = "TRANSFERRING" /\ asked =>
      /\ mState = "WAITING_GAPS" /\ stage # "poll" => last = {}
      /\ mRequested \subseteq open \/ (last = {} /\ stage # "api")

JobInv == IInv /\ AgreeOK /\ ToldOK /\ AskedOK

-----------------------------------------------------------------------------
(* What the job sees of the manager's steps.                               *)

\* The manager becomes busy by a start alone, and its status is never IDLE
\* again.
NoStart ==
    /\ Busy' => Busy
    /\ mState' = "ANNOUNCING" => mState = "ANNOUNCING"
    /\ mPublic' = "IDLE" => mPublic = "IDLE"

LEMMA FailSeen ==
    ASSUME IInv, NEW notify, FailTransfer(notify)
    PROVE  NoStart /\ mState' = "IDLE" /\ mRequested' = {}
BY FailKeeps DEF NoStart, Busy, FailTransfer, Reset, ResetTracker

LEMMA NothingSeen ==
    ASSUME Nothing
    PROVE  UNCHANGED <<mState, mPublic, mRequested>> /\ NoStart
BY DEF Nothing, NoStart, Busy, roundVars

LEMMA EndSent ==
    ASSUME IInv, NEW n, NEW res, SendEnd(n, res), mState \in {"WAITING_GAPS", "ENDING"}
    PROVE  NoStart /\ mState' \in {"IDLE", "ENDING"} /\ mRequested' = {}
PROOF
  <1>1. mRequested = {}
    BY DEF IInv, FreshOK
  <1> QED BY <1>1, FailSeen DEF SendEnd, NoStart, Busy, roundVars

LEMMA BlastCompleteSeen ==
    ASSUME NEW res, NEW before, SendBlastComplete(res, before),
           mState \in {"BLASTING", "WAITING_GAPS"}
    PROVE  NoStart
BY DEF SendBlastComplete, NoStart, Busy

\* loop() asks the source for nothing it had not asked for.
LEMMA LoopSeen ==
    ASSUME IInv, LoopPass \/ Nothing
    PROVE  IInv' /\ NoStart /\ mRequested' \subseteq mRequested
PROOF
  <1>1. CASE Nothing
    BY <1>1, NothingKeeps, NothingSeen
  <1>2. CASE \E notify \in BOOLEAN : FailTransfer(notify)
    BY <1>2, FailKeeps, FailSeen
  <1>3. CASE LoopPass /\ ~Nothing /\ ~(\E notify \in BOOLEAN : FailTransfer(notify))
    <2>1. IInv'
      BY <1>3, LoopKeeps
    <2>2. NoStart /\ mRequested' \subseteq mRequested
      <3>1. ASSUME NEW res, SendAnnounce(res)
            PROVE  NoStart /\ mRequested' \subseteq mRequested
        BY <1>3, <3>1 DEF SendAnnounce, NoStart, Busy, roundVars
      <3>2. ASSUME NEW res, NEW seq, PumpChunk(seq, res)
            PROVE  NoStart /\ mRequested' \subseteq mRequested
        <4>1. mState = "BLASTING" /\ ~FailTransfer(FALSE)
          BY <1>3, <3>2 DEF PumpChunk
        <4>2. CASE RoundDrained(seq)
          BY <3>2, <4>1, <4>2, BlastCompleteSeen DEF PumpChunk
        <4>3. CASE ~RoundDrained(seq)
          BY <3>2, <4>1, <4>3 DEF PumpChunk, NoStart, Busy
        <4> QED BY <4>2, <4>3
      <3>3. ASSUME NEW res, PumpBlastComplete(res)
            PROVE  NoStart /\ mRequested' \subseteq mRequested
        BY <1>3, <3>3, BlastCompleteSeen DEF PumpBlastComplete, roundVars
      <3>4. ASSUME NEW res, RetryBlastComplete(res)
            PROVE  NoStart /\ mRequested' \subseteq mRequested
        BY <1>3, <3>4, BlastCompleteSeen DEF RetryBlastComplete, roundVars
      <3>5. ASSUME NEW res, RetryEnd(res)
            PROVE  NoStart /\ mRequested' \subseteq mRequested
        BY <3>5, EndSent DEF RetryEnd
      <3>6. ASSUME PumpRequest
            PROVE  NoStart /\ mRequested' \subseteq mRequested
        BY <3>6, PumpRequestKeeps DEF PumpRequest, NoStart, Busy
      <3>7. ~LoopUnreachable /\ ~LoopGlobalTimeout /\ ~LoopSilence
        BY <1>3 DEF LoopUnreachable, LoopGlobalTimeout, LoopSilence
      <3> QED BY <1>3, <3>1, <3>2, <3>3, <3>4, <3>5, <3>6, <3>7, Zenon DEF LoopPass
    <2> QED BY <2>1, <2>2
  <1> QED BY <1>1, <1>2, <1>3

\* An ack asks the source for more only when the leaf accepts, or after a
\* BLAST_COMPLETE.
LEMMA AckSeen ==
    ASSUME IInv, AnyAck
    PROVE  /\ IInv' /\ NoStart
           /\ mState' = "WAITING_GAPS" => mState = "WAITING_GAPS"
           /\ mRequested' \subseteq mRequested \/ mState \in {"ANNOUNCING", "WAITING_GAPS"}
PROOF
  <1> DEFINE Seen == /\ NoStart
                     /\ mState' = "WAITING_GAPS" => mState = "WAITING_GAPS"
                     /\ \/ mRequested' \subseteq mRequested
                        \/ mState \in {"ANNOUNCING", "WAITING_GAPS"}
  <1>1. ASSUME NEW notify, FailTransfer(notify) PROVE Seen
    BY <1>1, FailSeen
  <1>2. ASSUME NEW ack, NEW res, OnFileAck(ack, res) PROVE Seen
    <2>1. CASE HandleAccept(ack)
      BY <1>1, <2>1 DEF HandleAccept, NoStart, Busy
    <2>2. CASE HandleGaps(ack, res)
      <3>1. mState = "WAITING_GAPS"
        BY <2>2 DEF HandleGaps
      <3>2. ASSUME NEW inc, NEW round, NEW wanted, BlastRound(inc, round, wanted)
            PROVE  Seen
        BY <3>1, <3>2 DEF BlastRound, NoStart, Busy
      <3>3. ASSUME SendEnd(0, res) PROVE Seen
        BY <3>1, <3>3, EndSent
      <3> HIDE DEF Seen
      <3>4. ASSUME GapsClear(res) PROVE Seen
        BY <3>2, <3>3, <3>4, Zenon DEF GapsClear
      <3>5. ASSUME GapsMissing(ack.got) PROVE Seen
        BY <1>1, <3>2, <3>5, Zenon DEF GapsMissing
      <3> QED BY <1>1, <2>2, <3>4, <3>5, Zenon DEF HandleGaps
    <2>3. CASE HandleComplete(ack)
      <3>1. CASE FailTransfer(FALSE)
        BY <1>1, <3>1
      <3>2. CASE ~FailTransfer(FALSE)
        BY <2>3, <3>2 DEF HandleComplete, NoStart, Busy, Reset, ResetTracker
      <3> QED BY <3>1, <3>2
    <2>4. CASE HandleRejectOrAbort(ack)
      BY <1>1, <2>4 DEF HandleRejectOrAbort
    <2>5. CASE AckIgnored(ack)
      BY <2>5, NothingSeen DEF AckIgnored
    <2> QED BY <1>2, <2>1, <2>2, <2>3, <2>4, <2>5 DEF OnFileAck
  <1>3. Seen
    <2> HIDE DEF Seen
    <2> QED BY <1>2, Zenon DEF AnyAck
  <1> QED BY <1>3, AnyAckKeeps

\* api_ota_abort leaves no transfer behind.
LEMMA AbortSeen ==
    ASSUME IInv, AbortJob
    PROVE  IInv' /\ ~Busy' /\ job' = "IDLE" /\ (mPublic' = "IDLE" => mPublic = "IDLE")
PROOF
  <1>1. CASE FailTransfer(TRUE)
    BY <1>1, FailKeeps DEF AbortJob, Busy
  <1>2. CASE ~Busy /\ Nothing
    BY <1>2, NothingKeeps, NothingSeen DEF AbortJob, Busy
  <1> QED BY <1>1, <1>2 DEF AbortJob, OnSourceAbort

-----------------------------------------------------------------------------
(* The invariant, step by step.                                            *)

LEMMA JobInitHolds == JobInit => JobInv
BY InitHolds DEF JobInit, Init, JobInv, AgreeOK, ToldOK, AskedOK, Active, Busy

LEMMA DrainKeeps ==
    ASSUME JobInv, DrainAck
    PROVE  JobInv'
PROOF
  <1>1. /\ stage = "drain"
        /\ UNCHANGED <<stage, job, prev, last, open, client, attached, told, asked, heard>>
    BY DEF DrainAck, JobIdle
  <1>2. /\ IInv' /\ NoStart
        /\ mState' = "WAITING_GAPS" => mState = "WAITING_GAPS"
        /\ mRequested' \subseteq mRequested \/ mState \in {"ANNOUNCING", "WAITING_GAPS"}
    BY AckSeen DEF DrainAck, JobInv
  <1> QED BY <1>1, <1>2 DEF JobInv, AgreeOK, ToldOK, AskedOK, Active, NoStart

LEMMA ManagerLoopKeeps ==
    ASSUME JobInv, ManagerLoop
    PROVE  JobInv'
PROOF
  <1>1. /\ stage = "drain" /\ stage' = "poll"
        /\ UNCHANGED <<job, prev, last, open, client, attached, told, asked, heard>>
    BY DEF ManagerLoop, JobIdle
  <1>2. IInv' /\ NoStart /\ mRequested' \subseteq mRequested
    BY LoopSeen DEF ManagerLoop, JobInv
  <1> QED BY <1>1, <1>2 DEF JobInv, AgreeOK, ToldOK, AskedOK, Active, NoStart

LEMMA NextLoopKeeps ==
    ASSUME JobInv, NextLoop
    PROVE  JobInv'
BY NothingKeeps, NothingSeen
   DEF NextLoop, JobIdle, JobInv, AgreeOK, ToldOK, AskedOK, Active, NoStart, Busy

\* Who was asked is there, and holds the request.
LEMMA AskForSeen ==
    ASSUME ToldOK, NEW seqs, AskFor(seqs)
    PROVE  /\ last' = seqs /\ asked' \in BOOLEAN
           /\ asked' => client
           /\ asked' => open' = seqs
PROOF
  <1>1. CASE client /\ open' = seqs /\ asked' = TRUE
    BY <1>1 DEF AskFor
  <1>2. CASE ~client /\ UNCHANGED <<open, asked>>
    <2>1. asked' = asked /\ ~asked /\ asked \in BOOLEAN
      BY <1>2, Zenon DEF ToldOK
    <2>2. ~asked' /\ asked' \in BOOLEAN
      BY <2>1, Zenon
    <2>3. last' = seqs
      BY DEF AskFor
    <2> QED BY <2>2, <2>3, Zenon
  <1> QED BY <1>1, <1>2, Zenon DEF AskFor

LEMMA EmitKeeps ==
    ASSUME JobInv, EmitOtaEvents
    PROVE  JobInv'
PROOF
  <1>1. /\ stage = "poll" /\ stage' = "api" /\ IInv' /\ IInv
        /\ UNCHANGED <<mState, mPublic, mRequested, client, attached, heard>>
    BY NothingKeeps, NothingSeen DEF EmitOtaEvents, JobInv
  <1>2. /\ mState = "WAITING_GAPS" => mRequested = {}
        /\ mPublic = "TRANSFERRING" => mState # "ANNOUNCING"
        /\ Busy => mPublic \notin {"SUCCESS", "FAIL"}
        /\ ~Busy => mPublic \in {"IDLE", "SUCCESS", "FAIL"}
        /\ Busy' <=> Busy
    BY <1>1 DEF IInv, FreshOK, StatusOK, TypeOK, Busy
  <1>3. CASE attached /\ PollWaiting
    <2>1. CASE LeafAccepted
      <3>1. /\ job' = "TRANSFERRING" /\ prev' = "TRANSFERRING" /\ Busy
            /\ AskFor(mRequested)
        BY <1>3, <2>1 DEF PollWaiting, LeafAccepted
      <3>2. /\ last' = mRequested /\ asked' \in BOOLEAN
            /\ asked' => client
            /\ asked' => open' = mRequested
        BY <3>1, AskForSeen DEF JobInv
      <3>3. AskedOK'
        BY <1>1, <1>2, <3>2 DEF AskedOK
      <3>4. ToldOK'
        BY <1>1, <3>1, <3>2 DEF JobInv, ToldOK, Active, Busy
      <3> QED BY <1>1, <1>2, <2>1, <3>1, <3>3, <3>4
              DEF LeafAccepted, JobInv, AgreeOK, Active
    <2>2. CASE ~LeafAccepted
      <3>1. /\ job' \in {"WAITING", "IDLE"} /\ UNCHANGED asked
            /\ ~Busy => job' = "IDLE" /\ (client => told' = "FAILED")
            /\ Busy => UNCHANGED <<job, told>>
        BY <1>3, <2>2 DEF PollWaiting, DontAsk, Untold, Tell
      <3> QED BY <1>1, <1>2, <1>3, <3>1 DEF JobInv, AgreeOK, ToldOK, AskedOK, Active, Busy
    <2> QED BY <2>1, <2>2
  <1>4. CASE attached /\ PollTransferring
    <2>1. CASE EndSeen \/ ~Busy
      <3>1. EndSeen /\ ~Busy
        BY <1>2, <1>4, <2>1 DEF JobInv, AgreeOK, Active, EndSeen, PollTransferring
      <3>2. job' \in {"SUCCESS", "FAILED"} /\ (client => told' = job')
        BY <1>4, <3>1 DEF PollTransferring, EndSeen, Tell
      <3>3. UNCHANGED asked
        BY <1>4, <3>1 DEF PollTransferring
      <3> QED BY <1>1, <1>2, <1>4, <3>1, <3>2, <3>3
              DEF JobInv, AgreeOK, ToldOK, AskedOK, Active, Busy
    <2>2. CASE ~EndSeen /\ Busy
      <3>1. RequestChunks /\ prev' = mPublic /\ UNCHANGED <<told, job>>
        BY <1>4, <2>2 DEF PollTransferring, Untold
      <3>2. AskedOK'
        <4>1. CASE AskFor(mRequested)
          <5>1. /\ last' = mRequested /\ asked' \in BOOLEAN
                /\ asked' => client
                /\ asked' => open' = mRequested
            BY <4>1, AskForSeen DEF JobInv
          <5> QED BY <1>1, <1>2, <5>1 DEF AskedOK
        <4>2. CASE ~AskFor(mRequested)
          BY <1>1, <1>2, <1>4, <3>1, <4>2
             DEF RequestChunks, DontAsk, JobInv, ToldOK, AskedOK
        <4> QED BY <4>1, <4>2
      <3>3. asked' \in BOOLEAN /\ (asked' => client)
        BY <1>4, <3>1, AskForSeen DEF RequestChunks, DontAsk, JobInv, ToldOK
      <3> QED BY <1>1, <1>2, <1>4, <2>2, <3>1, <3>2, <3>3
              DEF JobInv, AgreeOK, ToldOK, Active
    <2> QED BY <2>1, <2>2
  <1>5. CASE NothingToTell
    BY <1>1, <1>2, <1>5 DEF NothingToTell, DontAsk, Untold,
       JobInv, AgreeOK, ToldOK, AskedOK, Active
  <1> QED BY <1>3, <1>4, <1>5 DEF EmitOtaEvents

\* The client's own aborts, and those it provokes.
LEMMA AbortKeeps ==
    ASSUME JobInv, AbortJob, client => told' \in {"ABORTED", "ERROR"},
           UNCHANGED <<stage, prev, last, open, client, attached, asked, heard>>
    PROVE  JobInv'
PROOF
  <1>1. /\ IInv' /\ ~Busy' /\ mState' # "ANNOUNCING" /\ job' = "IDLE"
    BY AbortSeen DEF JobInv, Busy
  <1> QED BY <1>1 DEF JobInv, AgreeOK, ToldOK, AskedOK, Active

LEMMA StartJobKeeps ==
    ASSUME JobInv, NEW f \in Files, NEW res, ClientStart(f, res)
    PROVE  JobInv'
PROOF
  <1>1. /\ ~Busy /\ IInv' /\ mState' \in {"IDLE", "ANNOUNCING"} /\ client
        /\ UNCHANGED <<stage, prev, open, client, attached, asked>>
    BY StartKeeps DEF ClientStart, StartTransfer, JobInv
  <1>2. mPublic' # "IDLE"
    BY DEF ClientStart, StartTransfer, FailTransfer
  <1>3. mRequested' = {}
    BY <1>1 DEF IInv, FreshOK
  <1>4. CASE mState' = "IDLE"
    <2>1. UNCHANGED <<job, last, told, heard>>
      BY <1>4 DEF ClientStart
    <2> QED BY <1>1, <1>2, <1>3, <1>4, <2>1
            DEF JobInv, AgreeOK, ToldOK, AskedOK, Active, Busy
  <1>5. CASE mState' = "ANNOUNCING"
    <2>1. job' = "WAITING" /\ last' = {} /\ told' = "STARTED" /\ heard' = TRUE
      BY <1>5 DEF ClientStart
    <2> QED BY <1>1, <1>2, <1>3, <1>5, <2>1
            DEF JobInv, AgreeOK, ToldOK, AskedOK, Active, Busy
  <1> QED BY <1>1, <1>4, <1>5

LEMMA ChunkKeeps ==
    ASSUME JobInv, NEW seq, ClientChunk(seq)
    PROVE  JobInv'
PROOF
  <1>1. UNCHANGED <<stage, prev, last, client, attached, asked, heard>>
    BY DEF ClientChunk
  <1>2. CASE /\ job = "TRANSFERRING" /\ OnSourceChunk(seq)
             /\ open' = open \ {seq} /\ UNCHANGED <<job, told>>
    <2>1. IInv'
      BY <1>2, SourceChunkKeeps DEF JobInv
    <2>2. mRequested' = mRequested \ {seq} /\ UNCHANGED <<mState, mPublic>>
      BY <1>2 DEF OnSourceChunk
    <2> QED BY <1>1, <1>2, <2>1, <2>2 DEF JobInv, AgreeOK, ToldOK, AskedOK, Active, Busy
  <1>3. CASE AbortJob /\ Tell("ERROR") /\ UNCHANGED open
    BY <1>1, <1>3, AbortKeeps DEF Tell
  <1> QED BY <1>2, <1>3 DEF ClientChunk

LEMMA StaleKeeps ==
    ASSUME JobInv, ClientStaleBatch
    PROVE  JobInv'
PROOF
  <1>1. /\ IInv' /\ IInv /\ UNCHANGED <<mState, mPublic, mRequested>>
        /\ UNCHANGED <<stage, job, prev, client, attached, told, heard>>
    BY NothingKeeps, NothingSeen DEF ClientStaleBatch, JobInv
  <1>2. mState = "WAITING_GAPS" => mRequested = {}
    BY <1>1 DEF IInv, FreshOK
  <1>3. CASE AskFor(mRequested)
    <2>1. /\ last' = mRequested /\ asked' \in BOOLEAN
          /\ asked' => client
          /\ asked' => open' = mRequested
      BY <1>3, AskForSeen DEF JobInv
    <2>2. AskedOK'
      BY <1>1, <1>2, <2>1 DEF AskedOK
    <2> QED BY <1>1, <2>1, <2>2 DEF JobInv, AgreeOK, ToldOK, Active, Busy
  <1>4. CASE mRequested = {} /\ last' = {} /\ UNCHANGED <<open, asked>>
    <2>1. AskedOK'
      BY <1>1, <1>2, <1>4 DEF AskedOK
    <2> QED BY <1>1, <1>4, <2>1 DEF JobInv, AgreeOK, ToldOK, Active, Busy
  <1> QED BY <1>3, <1>4 DEF ClientStaleBatch

LEMMA ConnectionKeeps ==
    ASSUME JobInv, ClientConnects \/ ClientLeaves \/ ClientClosed
    PROVE  JobInv'
PROOF
  <1>1. /\ IInv' /\ UNCHANGED <<mState, mPublic, mRequested, stage, job, told>>
    BY NothingKeeps, NothingSeen DEF ClientConnects, ClientLeaves, ClientClosed, JobInv
  <1>2. CASE ClientConnects
    <2>1. /\ ~client /\ client' = TRUE /\ attached' = TRUE
          /\ UNCHANGED <<last, open, asked, heard>>
          /\ job = "TRANSFERRING" => prev' = ""
      BY <1>2 DEF ClientConnects
    <2> QED BY <1>1, <2>1 DEF JobInv, AgreeOK, ToldOK, AskedOK, Active, Busy
  <1>3. CASE ClientLeaves \/ ClientClosed
    <2>1. client' = FALSE /\ asked' = FALSE /\ heard' = FALSE /\ UNCHANGED prev
      BY <1>3 DEF ClientLeaves, ClientClosed
    <2> QED BY <1>1, <2>1 DEF JobInv, AgreeOK, ToldOK, AskedOK, Active, Busy
  <1> QED BY <1>2, <1>3

LEMMA ClientKeeps ==
    ASSUME JobInv, ClientActs
    PROVE  JobInv'
BY StartJobKeeps, ChunkKeeps, AbortKeeps, StaleKeeps, ConnectionKeeps
   DEF ClientActs, ClientBadChunk, ClientAbort, Tell

LEMMA JobStutterKeeps ==
    ASSUME JobInv, UNCHANGED <<mVars, jobVars>>
    PROVE  JobInv'
BY StutterKeeps
   DEF JobInv, mVars, roundVars, jobVars, AgreeOK, ToldOK, AskedOK, Active, Busy

LEMMA JobInvariant == JobSpec => []JobInv
PROOF
  <1>1. JobInit => JobInv
    BY JobInitHolds
  <1>2. JobInv /\ [JobNext]_<<mVars, jobVars>> => JobInv'
    BY ClientKeeps, DrainKeeps, ManagerLoopKeeps, EmitKeeps, NextLoopKeeps, JobStutterKeeps
       DEF JobNext
  <1> QED BY <1>1, <1>2, PTL DEF JobSpec

-----------------------------------------------------------------------------
(* The theorems.                                                           *)

\* The manager's invariants hold under the schedule of loop() as well.
THEOREM ManagerUnderLoop ==
    JobSpec => [](TypeOK /\ RoundPartition /\ RoundSentBeforeBlastComplete
                  /\ TargetInIncrement /\ StatusFollowsState)
PROOF
  <1>1. JobInv => TypeOK /\ RoundPartition /\ RoundSentBeforeBlastComplete
                  /\ TargetInIncrement /\ StatusFollowsState
    BY DEF JobInv, IInv, RoundOK, TypeOK, StatusOK, StatusFollowsState
  <1> QED BY <1>1, JobInvariant, PTL

\* After each poll the client's open request covers all the manager waits for.
THEOREM RequestsCoverNeeds == JobSpec => []AwaitedIsAsked
PROOF
  <1>1. JobInv => AwaitedIsAsked
    BY DEF JobInv, AskedOK, AwaitedIsAsked
  <1> QED BY <1>1, JobInvariant, PTL

\* No transfer outlives its job, and a client that stays learns how it ended.
THEOREM JobsEndTogether == JobSpec => []JobFollowsTransfer
PROOF
  <1>1. JobInv => JobFollowsTransfer
    BY DEF JobInv, AgreeOK, ToldOK, Active, JobFollowsTransfer
  <1> QED BY <1>1, JobInvariant, PTL

=============================================================================
