------------------------- MODULE OtaTransferProofs -------------------------
(***************************************************************************)
(* That the bridge is never ahead of the flash, and that a SUCCESS of a    *)
(* transfer the leaf accepted is the truth, for every file, geometry,      *)
(* retry limit and queue length, whatever frames and acks are lost,        *)
(* repeated, or left over from earlier rounds and transfers.               *)
(***************************************************************************)
EXTENDS OtaTransfer, OtaFramesProofs, SequenceTheorems

Phases == {"ANNOUNCE", "DATA", "BLAST_COMPLETE", "END", "ABORT"}

Frame == [phase : Phases, file : Files \cup {NoFile}, n : Nat, tx : Nat]
Ack   == [kind : AckKinds, ref : Nat, clear : BOOLEAN, got : SUBSET Nat, ok : BOOLEAN]

-----------------------------------------------------------------------------
(* The inductive invariant.                                                *)

\* The leaf accepted what the bridge announced.
Accepted == mState \in {"BLASTING", "WAITING_GAPS", "ENDING"}

LeafOK ==
    /\ rxState \in {"IDLE", "RECEIVING", "WAITING_END", "VERIFYING"}
    /\ rxInc \in Nat /\ rxAnnTx \in Nat
    /\ R!Active => rxFile \in Files
    /\ rxState = "RECEIVING" =>
         /\ ~rxWritten /\ rxInc < Incs(rxFile)
         /\ DOMAIN rxBuf \subseteq 0 .. (NumInInc(rxFile, rxInc) - 1)

BridgeOK ==
    /\ mState \in {"IDLE", "ANNOUNCING", "BLASTING", "WAITING_GAPS", "ENDING"}
    /\ mState # "IDLE" => mFile \in Files
    /\ mInc \in Nat /\ mAnnTx \in Nat /\ txCounter \in Nat \ {0}
    /\ mHist \in Seq(Nat) /\ \A i \in 1..Len(mHist) : mHist[i] < txCounter

\* Numbers in flight were given out; announces and their acks are not 0.
FramesOK ==
    /\ down \in Seq(Frame)
    /\ \A j \in 1..Len(down) : down[j].tx < txCounter
    /\ \A j \in 1..Len(down) :
         down[j].phase = "ANNOUNCE" => down[j].tx > 0 /\ down[j].file \in Files

AcksOK ==
    /\ up \in Seq(Ack)
    /\ \A i \in 1..Len(up) :
         up[i].kind \in {"ACCEPT", "GAPS"} => up[i].ref < txCounter
    /\ \A i \in 1..Len(up) : up[i].kind = "ACCEPT" => up[i].ref > 0

\* While announcing: nothing follows the latest announce, and once it was
\* answered nothing but its repetition is in flight.
LatestAnnounceLast ==
    mState = "ANNOUNCING" =>
      \A j \in 1..Len(down) :
        down[j].phase = "ANNOUNCE" /\ down[j].tx = mAnnTx =>
          j = Len(down) /\ down[j].file = mFile

Answers(i) == up[i].kind = "ACCEPT" /\ up[i].ref = mAnnTx

AnsweredIsReceiving ==
    mState = "ANNOUNCING" =>
      \A i \in 1..Len(up) : Answers(i) =>
        /\ R!Active => rxFile = mFile
        /\ \A j \in 1..Len(down) :
             j = 1 /\ down[j].phase = "ANNOUNCE" /\ down[j].file = mFile

\* The BLAST_COMPLETEs of the present round, and what the present increment
\* consists of, as indices of its bitmap.
Hist    == {mHist[i] : i \in 1..Len(mHist)}
Indices == 0 .. (NumInInc(mFile, mInc) - 1)

\* An ack the bridge will take for one of its present round.
Reports(i) == up[i].kind = "GAPS" /\ up[i].ref \in Hist

\* Afterwards: an announce in flight is that repetition, at the head of the
\* queue, and the bridge has not moved yet; ...
AnnounceIsRepeated ==
    Accepted =>
      \A j \in 1..Len(down) : down[j].phase = "ANNOUNCE" =>
        /\ j = 1 /\ down[j].file = mFile
        /\ mInc = 0 /\ mState # "ENDING"
        /\ \A i \in 1..Len(up) : ~Reports(i)

\* ... a BLAST_COMPLETE of the present round names the present increment; ...
RoundsOfIncrement ==
    Accepted =>
      \A j \in 1..Len(down) :
        down[j].phase = "BLAST_COMPLETE" /\ down[j].tx \in Hist => down[j].n = mInc

\* ... and an ack of the present round tells the truth about it.
ReportsTrue ==
    Accepted =>
      \A i \in 1..Len(up) : Reports(i) =>
        /\ up[i].clear /\ R!Active => LeafCommits > mInc
        /\ ~up[i].clear => ~(Indices \subseteq up[i].got)

IInv ==
    /\ LeafOK /\ BridgeOK /\ FramesOK /\ AcksOK
    /\ LatestAnnounceLast /\ AnsweredIsReceiving
    /\ AnnounceIsRepeated /\ RoundsOfIncrement /\ ReportsTrue
    /\ SenderNotAhead /\ EndOnlyWhenWritten

-----------------------------------------------------------------------------
(* Queues.                                                                 *)

\* r is q, or what is left of it when its head is gone, or nothing.
Kept(q, r) ==
    \A j \in 1..Len(r) : \E i \in 1..Len(q) :
      /\ r[j] = q[i] /\ i >= j
      /\ i = Len(q) => j = Len(r)

\* r is q with the messages m behind it.
Grown(q, m, r) ==
    /\ Len(r) <= Len(q) + Len(m)
    /\ \A j \in 1..Len(r) :
         \/ j \in 1..Len(q) /\ r[j] = q[j]
         \/ j - Len(q) \in 1..Len(m) /\ r[j] = m[j - Len(q)]

LEMMA KeptFacts ==
    ASSUME NEW S, NEW q \in Seq(S)
    PROVE  /\ Kept(q, q)
           /\ Kept(q, <<>>) /\ <<>> \in Seq(S)
           /\ q # <<>> => /\ Tail(q) \in Seq(S) /\ Kept(q, Tail(q))
                          /\ Head(q) = q[1] /\ 1 \in 1..Len(q) /\ q[1] \in S
  BY DEF Kept

LEMMA GrownFacts ==
    ASSUME NEW S, NEW q \in Seq(S), NEW m \in Seq(S)
    PROVE  /\ Grown(q, m, q)
           /\ q \o m \in Seq(S) /\ Grown(q, m, q \o m)
           /\ Len(q \o m) = Len(q) + Len(m)
  BY DEF Grown

-----------------------------------------------------------------------------
(* What a step of the bridge does to the transfer, whatever handler it is. *)

SameTransfer == UNCHANGED <<mState, mFile, mInc, mHist, mAnnTx, txCounter>>

\* Nothing but chunks of the present round goes out.
Stays ==
    /\ SameTransfer
    /\ \/ mOut' = <<>>
       \/ mState = "BLASTING" /\ \E seq \in Nat : mOut' = <<Data(mFile, seq)>>

\* reset_(), with or without an ABORT.
Ends ==
    /\ mState' = "IDLE" /\ mInc' = 0 /\ mHist' = <<>> /\ mAnnTx' = 0
    /\ UNCHANGED txCounter
    /\ mOut' = <<>> \/ mOut' = <<Abort>>

\* An announce with a new number, or, after NO_MEM, none yet.
Announces ==
    /\ mState' = "ANNOUNCING" /\ mFile' \in Files /\ mInc' \in Nat
    /\ mHist' = <<>> \/ mHist' = mHist
    /\ \/ /\ mAnnTx' = txCounter /\ txCounter' = txCounter + 1
          /\ mOut' = <<Announce(mFile', txCounter)>>
       \/ mAnnTx' = 0 /\ txCounter' = txCounter /\ mOut' = <<>>

\* The history with n added, its oldest entry dropped if it is full.
Remembered(h, n) ==
    IF Len(Append(h, n)) > HistoryLen THEN Tail(Append(h, n)) ELSE Append(h, n)

\* BLAST_COMPLETE, behind the last chunk of the round or alone.
ClosesRound ==
    /\ mState \in {"BLASTING", "WAITING_GAPS"} /\ mState' = "WAITING_GAPS"
    /\ mHist' = Remembered(mHist, txCounter)
    /\ txCounter' = txCounter + 1
    /\ \E before \in {<<>>} \cup {<<Data(mFile, seq)>> : seq \in Nat} :
          mOut' = before \o <<BlastComplete(mInc, txCounter)>>
    /\ UNCHANGED <<mFile, mInc, mAnnTx>>

\* END; its first is the answer to an all-clear of the last increment.
Finishes(i) ==
    /\ \/ mState = "ENDING"
       \/ /\ mState = "WAITING_GAPS" /\ mInc + 1 >= Incs(mFile)
          /\ i \in 1..Len(up) /\ Reports(i) /\ up[i].clear
    /\ mState' = "ENDING" /\ mOut' = <<End>>
    /\ UNCHANGED <<mFile, mInc, mHist, mAnnTx, txCounter>>

\* An ACCEPT of the latest announce.
FirstRound(i) ==
    /\ mState = "ANNOUNCING" /\ i \in 1..Len(up) /\ Answers(i)
    /\ mState' = "BLASTING" /\ mInc' = 0 /\ mHist' = <<>> /\ mOut' = <<>>
    /\ UNCHANGED <<mFile, mAnnTx, txCounter>>

\* An ack of the present round: the next increment, or what is missing.
NextRound(i) ==
    /\ mState = "WAITING_GAPS" /\ i \in 1..Len(up) /\ Reports(i)
    /\ mState' = "BLASTING" /\ mHist' = <<>> /\ mOut' = <<>>
    /\ mInc' = mInc \/ (mInc' = mInc + 1 /\ up[i].clear)
    /\ UNCHANGED <<mFile, mAnnTx, txCounter>>

BridgeMoves ==
    \/ Stays \/ Ends \/ Announces \/ ClosesRound
    \/ \E i \in Nat : Finishes(i) \/ FirstRound(i) \/ NextRound(i)

-----------------------------------------------------------------------------
(* Every such step preserves the invariant.                                *)

\* Around a step of the bridge: an ack may be taken, frames may be sent.
AroundBridge ==
    /\ UNCHANGED leafVars
    /\ up' \in Seq(Ack) /\ Kept(up, up')
    /\ down' \in Seq(Frame) /\ Grown(down, mOut', down')

LEMMA FramesTyped ==
    ASSUME BridgeOK
    PROVE  /\ Abort \in Frame /\ End \in Frame
           /\ \A f \in Files, tx \in Nat : Announce(f, tx) \in Frame
           /\ \A f \in Files, seq \in Nat : Data(f, seq) \in Frame
           /\ \A tx \in Nat : BlastComplete(mInc, tx) \in Frame
  BY DEF BridgeOK, Frame, Phases, Abort, End, Announce, Data, BlastComplete

\* The history after a BLAST_COMPLETE.
LEMMA HistGrows ==
    ASSUME NEW h \in Seq(Nat), NEW n \in Nat
    PROVE  /\ Remembered(h, n) \in Seq(Nat)
           /\ \A i \in 1..Len(Remembered(h, n)) :
                \/ Remembered(h, n)[i] = n
                \/ \E k \in 1..Len(h) : Remembered(h, n)[i] = h[k]
PROOF
  <1> DEFINE a == Append(h, n)
             r == Remembered(h, n)
  <1>1. /\ a \in Seq(Nat) /\ a # <<>> /\ Len(a) = Len(h) + 1
        /\ \A i \in 1..Len(a) : a[i] = n \/ (i \in 1..Len(h) /\ a[i] = h[i])
    <2>1. /\ Append(h, n) \in Seq(Nat) /\ Append(h, n) # <<>>
          /\ Len(Append(h, n)) = Len(h) + 1 /\ Append(h, n)[Len(h) + 1] = n
          /\ \A i \in 1..Len(h) : Append(h, n)[i] = h[i]
      BY AppendProperties
    <2>2. Len(h) \in Nat
      OBVIOUS
    <2> HIDE DEF a
    <2>3. \A i \in 1..(Len(h) + 1) : i \in 1..Len(h) \/ i = Len(h) + 1
      BY <2>2
    <2> QED BY <2>1, <2>3 DEF a
  <1>2. r = a \/ r = Tail(a)
    BY DEF Remembered
  <1> HIDE DEF a, r
  <1>3. /\ Tail(a) \in Seq(Nat) /\ Len(Tail(a)) = Len(a) - 1
        /\ \A i \in 1..Len(Tail(a)) : Tail(a)[i] = a[i + 1] /\ i + 1 \in 1..Len(a)
    BY <1>1
  <1>4. /\ r \in Seq(Nat)
        /\ \A i \in 1..Len(r) : r[i] = n \/ \E k \in 1..Len(h) : r[i] = h[k]
    BY <1>1, <1>2, <1>3
  <1> QED BY <1>4 DEF r

\* What a step may send: numbers already given out, announces of files.
NewFrames ==
    /\ txCounter' \in Nat /\ txCounter <= txCounter'
    /\ mOut' \in Seq(Frame)
    /\ \A k \in 1..Len(mOut') :
         /\ mOut'[k].tx < txCounter'
         /\ mOut'[k].phase = "ANNOUNCE" => mOut'[k].tx > 0 /\ mOut'[k].file \in Files

LEMMA OneFrame ==
    ASSUME NEW m \in Frame
    PROVE  /\ <<m>> \in Seq(Frame) /\ Len(<<m>>) = 1 /\ <<m>>[1] = m
           /\ \A k \in 1..Len(<<m>>) : <<m>>[k] = m
  OBVIOUS

LEMMA TwoFrames ==
    ASSUME NEW d \in Frame, NEW b \in Frame, NEW m, m = <<d>> \o <<b>>
    PROVE  m \in Seq(Frame) /\ \A k \in 1..Len(m) : m[k] = d \/ m[k] = b
PROOF
  <1>1. <<d>> \in Seq(Frame) /\ <<b>> \in Seq(Frame)
    OBVIOUS
  <1>2. Len(<<d>>) = 1 /\ Len(<<b>>) = 1 /\ <<d>>[1] = d /\ <<b>>[1] = b
    OBVIOUS
  <1> QED BY <1>1, <1>2, ConcatProperties

LEMMA MovesTyped ==
    ASSUME IInv, BridgeMoves
    PROVE  BridgeOK' /\ NewFrames
PROOF
  <1> USE DEF IInv, BridgeOK
  <1>1. <<>> \in Seq(Frame) /\ Len(<<>>) = 0
    OBVIOUS
  <1>2. ASSUME Stays PROVE BridgeOK' /\ NewFrames
    <2>1. BridgeOK' /\ txCounter' = txCounter
      BY <1>2 DEF Stays, SameTransfer
    <2>2. CASE mOut' = <<>>
      BY <1>1, <2>1, <2>2 DEF NewFrames
    <2>3. CASE mState = "BLASTING" /\ \E seq \in Nat : mOut' = <<Data(mFile, seq)>>
      <3>1. PICK seq \in Nat : mOut' = <<Data(mFile, seq)>>
        BY <2>3
      <3>2. /\ Data(mFile, seq) \in Frame /\ Data(mFile, seq).tx = 0
            /\ Data(mFile, seq).phase = "DATA"
        BY <2>3, FramesTyped DEF Data
      <3> QED BY <2>1, <3>1, <3>2, OneFrame DEF NewFrames
    <2> QED BY <1>2, <2>1, <2>2, <2>3 DEF Stays
  <1>3. ASSUME Ends PROVE BridgeOK' /\ NewFrames
    <2>1. BridgeOK' /\ txCounter' = txCounter
      BY <1>3 DEF Ends
    <2>2. Abort \in Frame /\ Abort.tx = 0 /\ Abort.phase = "ABORT"
      BY FramesTyped DEF Abort
    <2>3. CASE mOut' = <<>>
      BY <1>1, <2>1, <2>3 DEF NewFrames
    <2>4. CASE mOut' = <<Abort>>
      BY <2>1, <2>2, <2>4, OneFrame DEF NewFrames
    <2> QED BY <1>3, <2>3, <2>4 DEF Ends
  <1>4. ASSUME Announces PROVE BridgeOK' /\ NewFrames
    <2>1. BridgeOK' /\ mFile' \in Files
      <3>1. CASE mHist' = <<>>
        BY <1>4, <3>1 DEF Announces
      <3>2. CASE mHist' = mHist
        BY <1>4, <3>2 DEF Announces
      <3> QED BY <1>4, <3>1, <3>2 DEF Announces
    <2>2. CASE mOut' = <<>> /\ txCounter' = txCounter
      BY <1>1, <2>1, <2>2 DEF NewFrames
    <2>3. CASE mOut' = <<Announce(mFile', txCounter)>> /\ txCounter' = txCounter + 1
      <3>1. PICK a \in Frame : a = Announce(mFile', txCounter)
        BY <2>1, FramesTyped
      <3>2. a.tx = txCounter /\ a.file = mFile'
        BY <3>1 DEF Announce
      <3> QED BY <2>1, <2>3, <3>1, <3>2, OneFrame DEF NewFrames
    <2> QED BY <1>4, <2>2, <2>3 DEF Announces
  <1>5. ASSUME ClosesRound PROVE BridgeOK' /\ NewFrames
    <2>1. /\ mHist' \in Seq(Nat)
          /\ \A i \in 1..Len(mHist') :
               mHist'[i] = txCounter \/ \E k \in 1..Len(mHist) : mHist'[i] = mHist[k]
      <3>1. mHist' = Remembered(mHist, txCounter)
        BY <1>5 DEF ClosesRound
      <3>2. mHist \in Seq(Nat) /\ txCounter \in Nat
        OBVIOUS
      <3> QED BY <3>1, <3>2, HistGrows
    <2>2. BridgeOK' /\ txCounter' = txCounter + 1 /\ mFile \in Files
      <3>1. txCounter' = txCounter + 1 /\ mState' = "WAITING_GAPS" /\ mState # "IDLE"
            /\ UNCHANGED <<mFile, mInc, mAnnTx>>
        BY <1>5 DEF ClosesRound
      <3>2. \A i \in 1..Len(mHist') : mHist'[i] < txCounter'
        BY <2>1, <3>1, SMTT(30)
      <3> QED BY <2>1, <3>1, <3>2
    <2>3. PICK b \in Frame : b = BlastComplete(mInc, txCounter)
      BY FramesTyped
    <2>4. b.tx = txCounter /\ b.phase = "BLAST_COMPLETE"
      BY <2>3 DEF BlastComplete
    <2>5. PICK before \in {<<>>} \cup {<<Data(mFile, seq)>> : seq \in Nat} :
            mOut' = before \o <<b>>
      BY <1>5, <2>3 DEF ClosesRound
    <2>6. CASE before = <<>>
      <3>1. mOut' = <<b>>
        BY <2>5, <2>6
      <3> QED BY <2>2, <2>4, <3>1, OneFrame DEF NewFrames
    <2>7. CASE before # <<>>
      <3>1. PICK seq \in Nat : before = <<Data(mFile, seq)>>
        BY <2>7
      <3>2. PICK d \in Frame : d = Data(mFile, seq)
        BY <2>2, FramesTyped
      <3>3. d.tx = 0 /\ d.phase = "DATA"
        BY <3>2 DEF Data
      <3>4. mOut' \in Seq(Frame) /\ \A k \in 1..Len(mOut') : mOut'[k] = d \/ mOut'[k] = b
        BY <2>5, <3>1, <3>2, TwoFrames
      <3>5. \A k \in 1..Len(mOut') :
              mOut'[k].tx < txCounter' /\ mOut'[k].phase # "ANNOUNCE"
        <4>1. 0 < txCounter' /\ txCounter < txCounter'
          BY <2>2
        <4> QED BY <2>4, <3>3, <3>4, <4>1
      <3>6. txCounter' \in Nat /\ txCounter <= txCounter'
        BY <2>2
      <3> QED BY <2>2, <3>4, <3>5, <3>6, Zenon DEF NewFrames
    <2> QED BY <2>6, <2>7
  <1>6. ASSUME NEW i \in Nat, Finishes(i) PROVE BridgeOK' /\ NewFrames
    <2>1. BridgeOK' /\ txCounter' = txCounter /\ mOut' = <<End>>
      BY <1>6 DEF Finishes
    <2>2. End \in Frame /\ End.tx = 0 /\ End.phase = "END"
      BY FramesTyped DEF End
    <2> QED BY <2>1, <2>2, OneFrame DEF NewFrames
  <1>7. ASSUME NEW i \in Nat, FirstRound(i) \/ NextRound(i) PROVE BridgeOK' /\ NewFrames
    <2>1. BridgeOK' /\ txCounter' = txCounter /\ mOut' = <<>>
      <3>1. /\ mState' = "BLASTING" /\ mHist' = <<>> /\ mOut' = <<>>
            /\ UNCHANGED <<mFile, mAnnTx, txCounter>>
            /\ mInc' \in {0, mInc, mInc + 1} /\ mState # "IDLE"
        BY <1>7 DEF FirstRound, NextRound
      <3>2. mInc' \in Nat
        BY <3>1
      <3> QED BY <3>1, <3>2
    <2> QED BY <1>1, <2>1 DEF NewFrames
  <1> QED BY <1>2, <1>3, <1>4, <1>5, <1>6, <1>7 DEF BridgeMoves

\* The typing of the queues around a step of the bridge.
LEMMA MovesKeepQueues ==
    ASSUME IInv, BridgeMoves, AroundBridge
    PROVE  LeafOK' /\ FramesOK' /\ AcksOK'
PROOF
  <1> USE DEF IInv, AroundBridge
  <1>1. NewFrames /\ BridgeOK'
    BY MovesTyped
  <1>2. LeafOK'
    <2>1. UNCHANGED <<rxState, rxFile, rxInc, rxBuf, rxWritten, rxAnnTx>>
      BY DEF leafVars
    <2> QED BY <2>1 DEF LeafOK, R!Active
  <1>3. FramesOK'
    <2> SUFFICES ASSUME NEW j \in 1..Len(down')
                 PROVE  /\ down'[j].tx < txCounter'
                        /\ down'[j].phase = "ANNOUNCE" =>
                             down'[j].tx > 0 /\ down'[j].file \in Files
      BY DEF FramesOK
    <2>1. CASE j \in 1..Len(down) /\ down'[j] = down[j]
      <3>1. down[j] \in Frame
        BY <2>1 DEF FramesOK
      <3>2. down[j].tx \in Nat
        BY <3>1 DEF Frame
      <3> QED BY <1>1, <2>1, <3>2, SMTT(30) DEF FramesOK, NewFrames, BridgeOK
    <2>2. CASE j - Len(down) \in 1..Len(mOut') /\ down'[j] = mOut'[j - Len(down)]
      BY <1>1, <2>2 DEF NewFrames
    <2> QED BY <2>1, <2>2 DEF Grown
  <1>4. AcksOK'
    <2> SUFFICES ASSUME NEW j \in 1..Len(up')
                 PROVE  /\ up'[j].kind \in {"ACCEPT", "GAPS"} => up'[j].ref < txCounter'
                        /\ up'[j].kind = "ACCEPT" => up'[j].ref > 0
      BY DEF AcksOK
    <2>1. PICK i \in 1..Len(up) : up'[j] = up[i]
      BY DEF Kept
    <2>2. up[i] \in Ack /\ up[i].ref \in Nat
      <3>1. up[i] \in Ack
        BY DEF AcksOK
      <3> QED BY <3>1 DEF Ack
    <2> QED BY <1>1, <2>1, <2>2, SMTT(30) DEF AcksOK, NewFrames, BridgeOK
  <1> QED BY <1>2, <1>3, <1>4

LEMMA LeafSame ==
    ASSUME UNCHANGED leafVars
    PROVE  /\ LeafCommits' = LeafCommits /\ (R!Active' <=> R!Active)
           /\ rxFile' = rxFile /\ rxState' = rxState
  BY DEF leafVars, LeafCommits, R!Active

\* Only a step that stays or that announces leaves the bridge announcing.
LEMMA MovesKeepAnnouncing ==
    ASSUME IInv, BridgeMoves, AroundBridge
    PROVE  LatestAnnounceLast' /\ AnsweredIsReceiving'
PROOF
  <1> USE DEF AroundBridge
  <1>0. /\ down \in Seq(Frame) /\ up \in Seq(Ack) /\ txCounter \in Nat \ {0}
        /\ LatestAnnounceLast /\ AnsweredIsReceiving /\ FramesOK /\ AcksOK
    BY DEF IInv, FramesOK, AcksOK, BridgeOK
  <1>1. CASE mState' # "ANNOUNCING"
    BY <1>1 DEF LatestAnnounceLast, AnsweredIsReceiving
  <1>2. CASE Stays /\ mState = "ANNOUNCING"
    <2>1. mFile' = mFile /\ mAnnTx' = mAnnTx /\ mOut' = <<>>
      BY <1>2 DEF Stays, SameTransfer
    <2>2. Len(mOut') = 0 /\ Len(down') <= Len(down)
      BY <1>0, <2>1 DEF Grown
    <2>3. \A j \in 1..Len(down') : j \in 1..Len(down) /\ down'[j] = down[j]
      BY <1>0, <2>2 DEF Grown
    <2>4. \A j \in 1..Len(up') : \E i \in 1..Len(up) : up'[j] = up[i]
      BY DEF Kept
    <2>5. LatestAnnounceLast'
      <3> SUFFICES ASSUME NEW j \in 1..Len(down'),
                          down'[j].phase = "ANNOUNCE" /\ down'[j].tx = mAnnTx'
                   PROVE  j = Len(down') /\ down'[j].file = mFile'
        BY DEF LatestAnnounceLast
      <3>1. j \in 1..Len(down) /\ down'[j] = down[j]
        BY <2>3
      <3>2. j = Len(down) /\ down[j].file = mFile
        BY <1>0, <1>2, <2>1, <3>1 DEF LatestAnnounceLast
      <3> QED BY <1>0, <2>1, <2>2, <3>1, <3>2
    <2>6. AnsweredIsReceiving'
      <3> SUFFICES ASSUME NEW j \in 1..Len(up'), Answers(j)'
                   PROVE  /\ R!Active' => rxFile' = mFile'
                          /\ \A k \in 1..Len(down') : k = 1 /\ down'[k].phase = "ANNOUNCE"
                                                    /\ down'[k].file = mFile'
        BY DEF AnsweredIsReceiving
      <3>1. PICK i \in 1..Len(up) : up'[j] = up[i]
        BY <2>4
      <3>2. Answers(i)
        BY <2>1, <3>1 DEF Answers
      <3> QED BY <1>0, <1>2, <2>1, <2>3, <3>2, LeafSame DEF AnsweredIsReceiving
    <2> QED BY <2>5, <2>6
  <1>3. CASE Announces
    <2>1. \/ /\ mAnnTx' = txCounter
             /\ mOut' = <<Announce(mFile', txCounter)>>
          \/ mAnnTx' = 0 /\ mOut' = <<>>
      BY <1>3 DEF Announces
    <2>2. LatestAnnounceLast'
      <3> SUFFICES ASSUME NEW j \in 1..Len(down'),
                          down'[j].phase = "ANNOUNCE" /\ down'[j].tx = mAnnTx'
                   PROVE  j = Len(down') /\ down'[j].file = mFile'
        BY DEF LatestAnnounceLast
      <3>1. CASE j \in 1..Len(down) /\ down'[j] = down[j]
        <4>1. down[j].tx < txCounter /\ down[j].tx > 0 /\ down[j] \in Frame
          BY <1>0, <3>1 DEF FramesOK
        <4>2. down[j].tx \in Nat
          BY <4>1 DEF Frame
        <4> QED BY <1>0, <2>1, <3>1, <4>1, <4>2
      <3>2. CASE j - Len(down) \in 1..Len(mOut') /\ down'[j] = mOut'[j - Len(down)]
        <4>1. CASE mOut' = <<>>
          BY <1>0, <3>2, <4>1
        <4>2. CASE mOut' = <<Announce(mFile', txCounter)>>
          <5>1. Len(mOut') = 1
            BY <4>2
          <5>2. j - Len(down) = 1 /\ Len(down') <= Len(down) + 1
            BY <1>0, <3>2, <5>1 DEF Grown
          <5>3. down'[j] = Announce(mFile', txCounter)
            BY <3>2, <4>2, <5>2
          <5>4. down'[j].file = mFile'
            BY <5>3 DEF Announce
          <5> QED BY <1>0, <5>2, <5>4
        <4> QED BY <2>1, <4>1, <4>2
      <3> QED BY <3>1, <3>2 DEF Grown
    <2>3. AnsweredIsReceiving'
      <3> SUFFICES ASSUME NEW j \in 1..Len(up'), Answers(j)' PROVE FALSE
        BY DEF AnsweredIsReceiving
      <3>1. PICK i \in 1..Len(up) : up'[j] = up[i]
        BY DEF Kept
      <3>2. up[i].kind = "ACCEPT" /\ up[i].ref = mAnnTx'
        BY <3>1 DEF Answers
      <3>3. up[i].ref < txCounter /\ up[i].ref > 0
        BY <1>0, <3>2 DEF AcksOK
      <3> QED BY <1>0, <2>1, <3>2, <3>3
    <2> QED BY <2>2, <2>3
  <1>4. mState' = "ANNOUNCING" => (Stays /\ mState = "ANNOUNCING") \/ Announces
    BY DEF BridgeMoves, Stays, SameTransfer, Ends, ClosesRound, Finishes, FirstRound, NextRound
  <1> QED BY <1>1, <1>2, <1>3, <1>4

AcceptedInv ==
    /\ AnnounceIsRepeated /\ RoundsOfIncrement /\ ReportsTrue
    /\ SenderNotAhead /\ EndOnlyWhenWritten

LEMMA StaysKeepsAccepted ==
    ASSUME IInv, AroundBridge, Stays, Accepted
    PROVE  AcceptedInv'
PROOF
  <1> USE DEF AroundBridge
  <1>1. SameTransfer /\ Hist' = Hist /\ Indices' = Indices
    BY DEF Stays, SameTransfer, Hist, Indices
  <1>2. \A j \in 1..Len(up') : \E i \in 1..Len(up) : up'[j] = up[i]
    BY DEF Kept
  <1>3. \A j \in 1..Len(down') :
          \/ j \in 1..Len(down) /\ down'[j] = down[j]
          \/ down'[j].phase = "DATA"
    <2> SUFFICES ASSUME NEW j \in 1..Len(down'), ~(j \in 1..Len(down) /\ down'[j] = down[j])
                 PROVE  down'[j].phase = "DATA"
      OBVIOUS
    <2>1. j - Len(down) \in 1..Len(mOut') /\ down'[j] = mOut'[j - Len(down)]
      BY DEF Grown
    <2>2. mOut' # <<>>
      BY <2>1
    <2>3. PICK seq \in Nat : mOut' = <<Data(mFile, seq)>>
      BY <2>2 DEF Stays
    <2>4. down'[j] = Data(mFile, seq)
      BY <2>1, <2>3
    <2> QED BY <2>4 DEF Data
  <1>4. AnnounceIsRepeated'
    BY <1>1, <1>2, <1>3 DEF IInv, AnnounceIsRepeated, Reports, SameTransfer, Accepted
  <1>5. RoundsOfIncrement'
    BY <1>1, <1>3 DEF IInv, RoundsOfIncrement, SameTransfer, Accepted
  <1>6. ReportsTrue'
    BY <1>1, <1>2, LeafSame DEF IInv, ReportsTrue, Reports, SameTransfer, Accepted
  <1>7. SenderNotAhead' /\ EndOnlyWhenWritten'
    BY <1>1, LeafSame DEF IInv, SenderNotAhead, EndOnlyWhenWritten, SameTransfer
  <1> QED BY <1>4, <1>5, <1>6, <1>7 DEF AcceptedInv

\* What goes out with a BLAST_COMPLETE.
LEMMA ClosingFrames ==
    ASSUME IInv, ClosesRound, NEW k \in 1..Len(mOut')
    PROVE  \/ mOut'[k].phase = "DATA"
           \/ mOut'[k] = BlastComplete(mInc, txCounter)
PROOF
  <1>1. mFile \in Files /\ txCounter \in Nat
    BY DEF IInv, BridgeOK, ClosesRound
  <1>2. PICK b \in Frame : b = BlastComplete(mInc, txCounter)
    BY <1>1, FramesTyped DEF IInv
  <1>3. PICK before \in {<<>>} \cup {<<Data(mFile, seq)>> : seq \in Nat} :
          mOut' = before \o <<b>>
    BY <1>2 DEF ClosesRound
  <1>4. CASE before = <<>>
    <2>1. mOut' = <<b>>
      BY <1>3, <1>4
    <2> QED BY <1>2, <2>1, OneFrame
  <1>5. CASE before # <<>>
    <2>1. PICK seq \in Nat : before = <<Data(mFile, seq)>>
      BY <1>5
    <2>2. PICK d \in Frame : d = Data(mFile, seq)
      BY <1>1, FramesTyped DEF IInv
    <2>3. mOut'[k] = d \/ mOut'[k] = b
      BY <1>3, <2>1, <2>2, TwoFrames
    <2>4. d.phase = "DATA"
      BY <2>2 DEF Data
    <2> QED BY <1>2, <2>3, <2>4
  <1> QED BY <1>4, <1>5

LEMMA ClosesRoundKeepsAccepted ==
    ASSUME IInv, AroundBridge, ClosesRound
    PROVE  AcceptedInv'
PROOF
  <1> USE DEF AroundBridge
  <1>0. /\ txCounter \in Nat /\ FramesOK /\ AcksOK /\ Accepted
        /\ AnnounceIsRepeated /\ RoundsOfIncrement /\ ReportsTrue
        /\ down \in Seq(Frame)
    BY DEF IInv, BridgeOK, ClosesRound, Accepted, FramesOK
  <1>1. /\ mFile' = mFile /\ mInc' = mInc /\ Indices' = Indices
        /\ mState' = "WAITING_GAPS" /\ mState \in {"BLASTING", "WAITING_GAPS"}
    BY DEF ClosesRound, Indices
  <1>2. \A x \in Hist' : x \in Hist \/ x = txCounter
    <2>1. mHist \in Seq(Nat) /\ mHist' = Remembered(mHist, txCounter)
      BY DEF IInv, BridgeOK, ClosesRound
    <2>2. \A i \in 1..Len(mHist') :
            mHist'[i] = txCounter \/ \E k \in 1..Len(mHist) : mHist'[i] = mHist[k]
      BY <1>0, <2>1, HistGrows
    <2> QED BY <2>2 DEF Hist
  <1>3. \A j \in 1..Len(up') : \E i \in 1..Len(up) : up'[j] = up[i]
    BY DEF Kept
  <1>4. \A j \in 1..Len(down') :
          \/ j \in 1..Len(down) /\ down'[j] = down[j]
          \/ down'[j].phase = "DATA"
          \/ down'[j] = BlastComplete(mInc, txCounter)
    <2> SUFFICES ASSUME NEW j \in 1..Len(down'), ~(j \in 1..Len(down) /\ down'[j] = down[j])
                 PROVE  down'[j].phase = "DATA" \/ down'[j] = BlastComplete(mInc, txCounter)
      OBVIOUS
    <2>1. j - Len(down) \in 1..Len(mOut') /\ down'[j] = mOut'[j - Len(down)]
      BY DEF Grown
    <2> QED BY <2>1, ClosingFrames
  \* A report the bridge takes now is one it took before the step.
  <1>5. \A j \in 1..Len(up') : Reports(j)' =>
          \E i \in 1..Len(up) : up'[j] = up[i] /\ Reports(i)
    <2> SUFFICES ASSUME NEW j \in 1..Len(up'), Reports(j)'
                 PROVE  \E i \in 1..Len(up) : up'[j] = up[i] /\ Reports(i)
      OBVIOUS
    <2>1. PICK i \in 1..Len(up) : up'[j] = up[i]
      BY <1>3
    <2>2. up[i].kind = "GAPS" /\ up[i].ref \in Hist'
      BY <2>1 DEF Reports
    <2>3. up[i].ref < txCounter
      BY <1>0, <2>2 DEF AcksOK
    <2>4. up[i].ref # txCounter
      BY <1>0, <2>3
    <2> QED BY <1>2, <2>1, <2>2, <2>4 DEF Reports
  <1>6. AnnounceIsRepeated'
    <2> SUFFICES ASSUME NEW j \in 1..Len(down'), down'[j].phase = "ANNOUNCE"
                 PROVE  /\ j = 1 /\ down'[j].file = mFile /\ mInc = 0
                        /\ \A i \in 1..Len(up') : ~Reports(i)'
      BY <1>1 DEF AnnounceIsRepeated
    <2>1. j \in 1..Len(down) /\ down'[j] = down[j]
      BY <1>4 DEF BlastComplete
    <2> QED BY <1>0, <1>5, <2>1 DEF AnnounceIsRepeated
  <1>7. RoundsOfIncrement'
    <2> SUFFICES ASSUME NEW j \in 1..Len(down'),
                        down'[j].phase = "BLAST_COMPLETE", down'[j].tx \in Hist'
                 PROVE  down'[j].n = mInc
      BY <1>1 DEF RoundsOfIncrement
    <2>1. CASE j \in 1..Len(down) /\ down'[j] = down[j]
      <3>1. down[j].tx < txCounter
        BY <1>0, <2>1 DEF FramesOK
      <3>2. down[j].tx # txCounter
        BY <1>0, <3>1
      <3> QED BY <1>0, <1>2, <2>1, <3>2 DEF RoundsOfIncrement
    <2>2. CASE down'[j] = BlastComplete(mInc, txCounter)
      BY <2>2 DEF BlastComplete
    <2> QED BY <1>4, <2>1, <2>2
  <1>8. ReportsTrue'
    BY <1>0, <1>1, <1>5, LeafSame DEF ReportsTrue
  <1>9. SenderNotAhead' /\ EndOnlyWhenWritten'
    BY <1>1, LeafSame DEF IInv, SenderNotAhead, EndOnlyWhenWritten
  <1> QED BY <1>6, <1>7, <1>8, <1>9 DEF AcceptedInv

LEMMA FinishesKeepsAccepted ==
    ASSUME IInv, AroundBridge, NEW i \in Nat, Finishes(i)
    PROVE  AcceptedInv'
PROOF
  <1> USE DEF AroundBridge
  <1>1. /\ UNCHANGED <<mFile, mInc, mHist, mAnnTx, txCounter>>
        /\ mState' = "ENDING" /\ mOut' = <<End>> /\ mState \in {"WAITING_GAPS", "ENDING"}
        /\ Hist' = Hist /\ Indices' = Indices
    BY DEF Finishes, Hist, Indices
  <1>2. \A j \in 1..Len(up') : \E k \in 1..Len(up) : up'[j] = up[k]
    BY DEF Kept
  <1>3. \A j \in 1..Len(down') :
          \/ j \in 1..Len(down) /\ down'[j] = down[j]
          \/ down'[j].phase = "END"
    <2> SUFFICES ASSUME NEW j \in 1..Len(down'), ~(j \in 1..Len(down) /\ down'[j] = down[j])
                 PROVE  down'[j].phase = "END"
      OBVIOUS
    <2>1. j - Len(down) \in 1..Len(mOut') /\ down'[j] = mOut'[j - Len(down)]
      BY DEF Grown
    <2> QED BY <1>1, <2>1 DEF End
  \* Nothing is announced any more.
  <1>4. \A j \in 1..Len(down) : down[j].phase # "ANNOUNCE"
    BY DEF IInv, AnnounceIsRepeated, Accepted, Finishes
  <1>5. AnnounceIsRepeated'
    BY <1>3, <1>4 DEF AnnounceIsRepeated
  <1>6. RoundsOfIncrement'
    BY <1>1, <1>3 DEF IInv, RoundsOfIncrement, Accepted
  <1>7. ReportsTrue'
    BY <1>1, <1>2, LeafSame DEF IInv, ReportsTrue, Reports, Accepted
  <1>8. SenderNotAhead'
    BY <1>1, LeafSame DEF IInv, SenderNotAhead
  <1>9. EndOnlyWhenWritten'
    <2>1. CASE mState = "ENDING"
      BY <1>1, <2>1, LeafSame DEF IInv, EndOnlyWhenWritten
    <2>2. CASE mState # "ENDING"
      <3>1. /\ mState = "WAITING_GAPS" /\ mInc + 1 >= Incs(mFile)
            /\ i \in 1..Len(up) /\ Reports(i) /\ up[i].clear
        BY <2>2 DEF Finishes
      <3> SUFFICES ASSUME R!Active PROVE rxState = "WAITING_END"
        BY LeafSame DEF EndOnlyWhenWritten
      <3>2. LeafCommits > mInc /\ rxFile = mFile /\ mInc \in Nat
        BY <3>1 DEF IInv, ReportsTrue, Accepted, SenderNotAhead, BridgeOK
      <3>3. rxState = "RECEIVING" => rxInc \in Nat /\ rxInc < Incs(mFile) /\ LeafCommits = rxInc
        BY <3>2 DEF IInv, LeafOK, LeafCommits
      <3>4. mFile \in Files /\ Incs(mFile) \in Nat
        <4>1. mFile \in Files
          BY <3>1 DEF IInv, BridgeOK
        <4> QED BY <4>1, IncsBounds
      <3>5. rxState # "RECEIVING"
        BY <3>1, <3>2, <3>3, <3>4
      <3> QED BY <3>5 DEF R!Active
    <2> QED BY <2>1, <2>2
  <1> QED BY <1>5, <1>6, <1>7, <1>8, <1>9 DEF AcceptedInv

\* An ack that opens a round leaves the history empty.
LEMMA NewRoundKeepsAccepted ==
    ASSUME IInv, AroundBridge, NEW i \in Nat, FirstRound(i) \/ NextRound(i)
    PROVE  AcceptedInv'
PROOF
  <1> USE DEF AroundBridge
  <1>1. mState' = "BLASTING" /\ mHist' = <<>> /\ mOut' = <<>> /\ mFile' = mFile
    BY DEF FirstRound, NextRound
  <1>2. Hist' = {}
    BY <1>1 DEF Hist
  <1>3. RoundsOfIncrement' /\ ReportsTrue'
    BY <1>2 DEF RoundsOfIncrement, ReportsTrue, Reports
  <1>4. \A j \in 1..Len(down') : j \in 1..Len(down) /\ down'[j] = down[j]
    BY <1>1 DEF Grown, IInv, FramesOK
  <1>5. CASE FirstRound(i)
    <2>1. mState = "ANNOUNCING" /\ i \in 1..Len(up) /\ Answers(i) /\ mInc' = 0
      BY <1>5 DEF FirstRound
    <2>2. /\ R!Active => rxFile = mFile
          /\ \A j \in 1..Len(down) :
               j = 1 /\ down[j].phase = "ANNOUNCE" /\ down[j].file = mFile
      BY <2>1 DEF IInv, AnsweredIsReceiving
    <2>3. AnnounceIsRepeated'
      BY <1>1, <1>2, <1>4, <2>1, <2>2 DEF AnnounceIsRepeated, Reports
    <2>4. R!Active => LeafCommits \in Nat
      BY IncsBounds DEF IInv, LeafOK, LeafCommits
    <2>5. SenderNotAhead' /\ EndOnlyWhenWritten'
      BY <1>1, <2>1, <2>2, <2>4, LeafSame DEF SenderNotAhead, EndOnlyWhenWritten
    <2> QED BY <1>3, <2>3, <2>5 DEF AcceptedInv
  <1>6. CASE NextRound(i)
    <2>1. /\ mState = "WAITING_GAPS" /\ i \in 1..Len(up) /\ Reports(i)
          /\ mInc' = mInc \/ (mInc' = mInc + 1 /\ up[i].clear)
      BY <1>6 DEF NextRound
    <2>2. \A j \in 1..Len(down) : down[j].phase # "ANNOUNCE"
      BY <2>1 DEF IInv, AnnounceIsRepeated, Accepted
    <2>3. AnnounceIsRepeated'
      BY <1>4, <2>2 DEF AnnounceIsRepeated
    <2>4. R!Active => /\ rxFile = mFile /\ mInc <= LeafCommits
                      /\ up[i].clear => LeafCommits > mInc
      BY <2>1 DEF IInv, SenderNotAhead, ReportsTrue, Accepted
    <2>5. mInc \in Nat /\ (R!Active => LeafCommits \in Nat)
      BY IncsBounds DEF IInv, LeafOK, LeafCommits, BridgeOK
    <2>6. R!Active => mInc' <= LeafCommits
      BY <2>1, <2>4, <2>5
    <2>7. SenderNotAhead' /\ EndOnlyWhenWritten'
      BY <1>1, <2>4, <2>6, LeafSame DEF SenderNotAhead, EndOnlyWhenWritten
    <2> QED BY <1>3, <2>3, <2>7 DEF AcceptedInv
  <1> QED BY <1>5, <1>6

LEMMA BridgeKeeps ==
    ASSUME IInv, BridgeMoves, AroundBridge
    PROVE  IInv'
PROOF
  <1>1. LeafOK' /\ BridgeOK' /\ FramesOK' /\ AcksOK'
    BY MovesTyped, MovesKeepQueues
  <1>2. LatestAnnounceLast' /\ AnsweredIsReceiving'
    BY MovesKeepAnnouncing
  <1>3. AcceptedInv'
    <2>1. CASE ~Accepted'
      BY <2>1 DEF AcceptedInv, AnnounceIsRepeated, RoundsOfIncrement, ReportsTrue, Accepted,
                  SenderNotAhead, EndOnlyWhenWritten
    <2>2. CASE Stays /\ Accepted
      BY <2>2, StaysKeepsAccepted
    <2>3. CASE ClosesRound
      BY <2>3, ClosesRoundKeepsAccepted
    <2>4. ASSUME NEW i \in Nat, Finishes(i) PROVE AcceptedInv'
      BY <2>4, FinishesKeepsAccepted
    <2>5. ASSUME NEW i \in Nat, FirstRound(i) \/ NextRound(i) PROVE AcceptedInv'
      BY <2>5, NewRoundKeepsAccepted
    <2>6. (Stays /\ ~Accepted) \/ Ends \/ Announces => ~Accepted'
      BY DEF Stays, SameTransfer, Ends, Announces, Accepted
    <2> QED BY <2>1, <2>2, <2>3, <2>4, <2>5, <2>6 DEF BridgeMoves
  <1> QED BY <1>1, <1>2, <1>3 DEF IInv, AcceptedInv

-----------------------------------------------------------------------------
(* The handlers of the bridge take such steps and no others.               *)

\* Both ends build the frames and acks of OtaFrames, with its geometry.
LEMMA FramesOfBridge ==
    /\ M!Abort = Abort /\ M!End = End
    /\ \A f, tx : M!Announce(f, tx) = Announce(f, tx)
    /\ \A f, seq : M!Data(f, seq) = Data(f, seq)
    /\ \A inc, tx : M!BlastComplete(inc, tx) = BlastComplete(inc, tx)
  BY DEF M!Abort, Abort, M!End, End, M!Announce, Announce, M!Data, Data,
         M!BlastComplete, BlastComplete

LEMMA GeometryOfBridge ==
    /\ \A f : M!Incs(f) = Incs(f)
    /\ \A f, inc : M!NumInInc(f, inc) = NumInInc(f, inc)
  BY DEF M!Incs, Incs, M!NumInInc, NumInInc, M!TotalIncrements, TotalIncrements,
         M!ChunksInIncrement, ChunksInIncrement, M!ChunksInLast, ChunksInLast,
         M!IncrementStart, IncrementStart, M!AtLeastOne, AtLeastOne, M!U16, U16,
         M!CeilDiv, CeilDiv

LEMMA FailTransferEnds ==
    ASSUME NEW notify \in BOOLEAN, M!FailTransfer(notify)
    PROVE  Ends
  BY FramesOfBridge DEF M!FailTransfer, M!Reset, M!ResetTracker, Ends

LEMMA NothingStays ==
    ASSUME M!Nothing
    PROVE  Stays
  BY DEF M!Nothing, M!roundVars, Stays, SameTransfer

LEMMA SendBlastCompleteCloses ==
    ASSUME NEW res, NEW before,
           mState \in {"BLASTING", "WAITING_GAPS"},
           before = <<>> \/ (mState = "BLASTING" /\ \E seq \in Nat : before = <<Data(mFile, seq)>>),
           M!SendBlastComplete(res, before)
    PROVE  Stays \/ ClosesRound
PROOF
  <1>1. CASE res = "OK"
    <2>1. /\ mState' = "WAITING_GAPS" /\ txCounter' = txCounter + 1
          /\ mHist' = Remembered(mHist, txCounter)
          /\ mOut' = before \o <<BlastComplete(mInc, txCounter)>>
          /\ UNCHANGED <<mFile, mInc, mAnnTx>>
      BY <1>1, FramesOfBridge DEF M!SendBlastComplete, Remembered
    <2>2. before \in {<<>>} \cup {<<Data(mFile, seq)>> : seq \in Nat}
      OBVIOUS
    <2> QED BY <2>1, <2>2 DEF ClosesRound
  <1>2. CASE res # "OK"
    BY <1>2 DEF M!SendBlastComplete, Stays, SameTransfer
  <1> QED BY <1>1, <1>2

LEMMA AnnounceSentAnnounces ==
    ASSUME NEW n, M!AnnounceSent(mFile', n), mState' = "ANNOUNCING",
           mFile' \in Files, mInc' \in Nat, mHist' = <<>> \/ mHist' = mHist
    PROVE  Announces
  BY FramesOfBridge DEF M!AnnounceSent, Announces

LEMMA StartMoves ==
    ASSUME NEW f \in Files, NEW res, M!StartTransfer(f, res)
    PROVE  Announces \/ Ends
PROOF
  <1>1. CASE res \in {"NOT_FOUND", "FAIL"}
    BY <1>1, FailTransferEnds DEF M!StartTransfer
  <1>2. CASE res \notin {"NOT_FOUND", "FAIL"}
    <2>1. /\ mState' = "ANNOUNCING" /\ mFile' = f /\ mInc' = 0 /\ mHist' = <<>>
          /\ \/ M!AnnounceSent(f, 0)
             \/ mAnnTx' = 0 /\ mOut' = <<>> /\ UNCHANGED txCounter
      BY <1>2 DEF M!StartTransfer, M!ResetTracker
    <2> QED BY <2>1, AnnounceSentAnnounces DEF Announces, M!AnnounceSent
  <1> QED BY <1>1, <1>2

LEMMA SendAnnounceMoves ==
    ASSUME IInv, NEW res, M!SendAnnounce(res)
    PROVE  Announces \/ Ends \/ Stays
PROOF
  <1>1. mState = "ANNOUNCING" /\ mFile \in Files /\ mInc \in Nat
    BY DEF M!SendAnnounce, IInv, BridgeOK
  <1>2. CASE M!AnnounceSent(mFile, mAttempts) /\ UNCHANGED <<mState, mFile, mInc, mHist>>
    BY <1>1, <1>2, FramesOfBridge DEF M!AnnounceSent, Announces
  <1>3. \/ M!AnnounceSent(mFile, mAttempts) /\ UNCHANGED <<mState, mFile, mInc, mHist>>
        \/ M!FailTransfer(TRUE) \/ M!FailTransfer(FALSE) \/ M!Nothing
    BY DEF M!SendAnnounce
  <1> QED BY <1>2, <1>3, FailTransferEnds, NothingStays

LEMMA PumpChunkMoves ==
    ASSUME IInv, NEW seq \in Nat, NEW res, M!PumpChunk(seq, res)
    PROVE  Stays \/ ClosesRound \/ Ends
PROOF
  <1>1. mState = "BLASTING"
    BY DEF M!PumpChunk
  <1>2. CASE M!SendBlastComplete(res, <<Data(mFile, seq)>>)
    BY <1>1, <1>2, SendBlastCompleteCloses
  <1>3. CASE M!FailTransfer(FALSE)
    BY <1>3, FailTransferEnds
  <1>4. CASE mOut' = <<Data(mFile, seq)>> /\ SameTransfer
    BY <1>1, <1>4 DEF Stays
  <1>5. M!Data(mFile, seq) = Data(mFile, seq)
    BY FramesOfBridge
  <1> QED BY <1>2, <1>3, <1>4, <1>5 DEF M!PumpChunk, SameTransfer

LEMMA PumpBlastCompleteMoves ==
    ASSUME NEW res, M!PumpBlastComplete(res) \/ M!RetryBlastComplete(res)
    PROVE  Stays \/ ClosesRound \/ Ends
PROOF
  <1>1. mState \in {"BLASTING", "WAITING_GAPS"}
    BY DEF M!PumpBlastComplete, M!RetryBlastComplete
  <1>2. \/ M!SendBlastComplete(res, <<>>) \/ M!FailTransfer(FALSE) \/ M!FailTransfer(TRUE)
    BY DEF M!PumpBlastComplete, M!RetryBlastComplete
  <1>3. CASE M!SendBlastComplete(res, <<>>)
    BY <1>1, <1>3, SendBlastCompleteCloses
  <1>4. CASE M!FailTransfer(FALSE) \/ M!FailTransfer(TRUE)
    BY <1>4, FailTransferEnds
  <1> QED BY <1>2, <1>3, <1>4

LEMMA SendEndMoves ==
    ASSUME NEW n, NEW res, M!SendEnd(n, res)
    PROVE  \/ Ends
           \/ /\ mState' = "ENDING" /\ mOut' = <<End>>
              /\ UNCHANGED <<mFile, mInc, mHist, mAnnTx, txCounter>>
  BY FailTransferEnds, FramesOfBridge DEF M!SendEnd

LEMMA RetryEndMoves ==
    ASSUME NEW res, M!RetryEnd(res)
    PROVE  Ends \/ Finishes(0)
  BY SendEndMoves DEF M!RetryEnd, Finishes

LEMMA HandleAcceptMoves ==
    ASSUME up # <<>>, up \in Seq(Ack), M!HandleAccept(Head(up))
    PROVE  Ends \/ FirstRound(1)
PROOF
  <1>1. Head(up) = up[1] /\ 1 \in 1..Len(up)
    BY KeptFacts
  <1>2. CASE M!FailTransfer(TRUE)
    BY <1>2, FailTransferEnds
  <1>3. CASE ~M!FailTransfer(TRUE)
    BY <1>1, <1>3 DEF M!HandleAccept, M!AcceptExpected, FirstRound, Answers
  <1> QED BY <1>2, <1>3

\* handle_gaps_ack_ never takes the branch for a bitmap with every bit set.
LEMMA HandleGapsMoves ==
    ASSUME IInv, up # <<>>, NEW res, M!HandleGaps(Head(up), res)
    PROVE  Ends \/ Finishes(1) \/ NextRound(1)
PROOF
  <1>1. Head(up) = up[1] /\ 1 \in 1..Len(up)
    BY KeptFacts DEF IInv, AcksOK
  <1>2. /\ mState = "WAITING_GAPS" /\ Reports(1)
        /\ \/ M!FailTransfer(TRUE)
           \/ up[1].clear /\ M!GapsClear(res)
           \/ ~up[1].clear /\ M!GapsMissing(up[1].got)
    BY <1>1 DEF M!HandleGaps, M!InHistory, Reports, Hist
  <1>3. CASE M!FailTransfer(TRUE)
    BY <1>3, FailTransferEnds
  <1>4. CASE up[1].clear /\ M!GapsClear(res)
    <2>1. CASE M!IsLastIncrement /\ M!SendEnd(0, res)
      BY <1>1, <1>2, <1>4, <2>1, SendEndMoves, GeometryOfBridge DEF M!IsLastIncrement, Finishes
    <2>2. CASE ~M!IsLastIncrement
      BY <1>1, <1>2, <1>4, <2>2 DEF M!GapsClear, M!BlastRound, NextRound
    <2> QED BY <1>4, <2>1, <2>2 DEF M!GapsClear
  <1>5. CASE ~up[1].clear /\ M!GapsMissing(up[1].got)
    <2>1. ~(Indices \subseteq up[1].got)
      BY <1>1, <1>2, <1>5 DEF IInv, ReportsTrue, Accepted
    <2>2. PICK x \in Indices : x \notin up[1].got
      BY <2>1
    <2>3. M!MissingIn(up[1].got) # {}
      BY <2>2, GeometryOfBridge DEF M!MissingIn, Indices
    <2>4. \/ M!FailTransfer(TRUE)
          \/ M!BlastRound(mInc, mRound + 1, M!MissingIn(up[1].got)) /\ mHist' = <<>>
      BY <1>5, <2>3 DEF M!GapsMissing
    <2> QED BY <1>1, <1>2, <2>4, FailTransferEnds DEF M!BlastRound, NextRound
  <1> QED BY <1>2, <1>3, <1>4, <1>5

LEMMA OnFileAckMoves ==
    ASSUME IInv, up # <<>>, NEW res, M!OnFileAck(Head(up), res)
    PROVE  BridgeMoves
PROOF
  <1>1. CASE M!HandleAccept(Head(up))
    BY <1>1, HandleAcceptMoves DEF BridgeMoves, IInv, AcksOK
  <1>2. CASE M!HandleGaps(Head(up), res)
    BY <1>2, HandleGapsMoves DEF BridgeMoves
  <1>3. CASE M!HandleComplete(Head(up))
    <2>1. CASE M!FailTransfer(FALSE)
      BY <2>1, FailTransferEnds DEF BridgeMoves
    <2>2. CASE ~M!FailTransfer(FALSE)
      BY <1>3, <2>2 DEF M!HandleComplete, M!Reset, M!ResetTracker, Ends, BridgeMoves
    <2> QED BY <2>1, <2>2
  <1>4. CASE M!HandleRejectOrAbort(Head(up))
    BY <1>4, FailTransferEnds DEF M!HandleRejectOrAbort, BridgeMoves
  <1>5. CASE M!AckIgnored(Head(up))
    BY <1>5, NothingStays DEF M!AckIgnored, BridgeMoves
  <1> QED BY <1>1, <1>2, <1>3, <1>4, <1>5 DEF M!OnFileAck

\* The frames of a step of the bridge join the radio queue, or are dropped.
LEMMA SendsAround ==
    ASSUME IInv, BridgeMoves, BridgeSends, UNCHANGED leafVars,
           up' = up \/ (up # <<>> /\ up' = Tail(up))
    PROVE  AroundBridge
PROOF
  <1>1. down \in Seq(Frame) /\ up \in Seq(Ack) /\ mOut' \in Seq(Frame)
    BY MovesTyped DEF IInv, FramesOK, AcksOK, NewFrames
  <1>2. up' \in Seq(Ack) /\ Kept(up, up')
    BY <1>1, KeptFacts
  <1>3. down' = down \/ down' = down \o mOut'
    BY DEF BridgeSends
  <1>4. down' \in Seq(Frame) /\ Grown(down, mOut', down')
    <2>1. /\ Grown(down, mOut', down)
          /\ down \o mOut' \in Seq(Frame) /\ Grown(down, mOut', down \o mOut')
      BY <1>1, GrownFacts
    <2>2. CASE down' = down
      BY <1>1, <2>1, <2>2, Zenon
    <2>3. CASE down' = down \o mOut'
      BY <2>1, <2>3, Zenon
    <2> QED BY <1>3, <2>2, <2>3
  <1> QED BY <1>2, <1>4 DEF AroundBridge

\* A step of the bridge: what it does, and the ack it may take.
BridgeAround ==
    /\ BridgeMoves /\ BridgeSends /\ UNCHANGED leafVars
    /\ up' = up \/ (up # <<>> /\ up' = Tail(up))

LEMMA BridgeStepMoves ==
    ASSUME NEW ACTION A, BridgeStep(A), A => BridgeMoves
    PROVE  BridgeAround
  BY DEF BridgeStep, BridgeAround

LEMMA BridgeActionsMove ==
    ASSUME IInv,
           \/ \E f \in Files : Start(f)
           \/ \E seq \in M!AllSeqs : SourceChunk(seq)
           \/ SourceAbort \/ BridgeLoop \/ GlobalTimer \/ TargetLost \/ AckArrives
    PROVE  BridgeAround
PROOF
  <1>1. \A seq \in M!AllSeqs : seq \in Nat
    <2> SUFFICES ASSUME NEW seq \in M!AllSeqs PROVE seq \in Nat
      OBVIOUS
    <2>1. PICK f \in Files : seq \in 0 .. (NumChunks[f] - 1)
      BY DEF M!AllSeqs
    <2> QED BY <2>1
  <1>2. ASSUME NEW f \in Files, Start(f) PROVE BridgeAround
    <2>1. M!StartTransfer(f, SendResult(1)) => BridgeMoves
      BY StartMoves DEF BridgeMoves
    <2> QED BY <1>2, <2>1, BridgeStepMoves DEF Start
  <1>3. ASSUME NEW seq \in M!AllSeqs, SourceChunk(seq) PROVE BridgeAround
    <2>1. M!OnSourceChunk(seq) => BridgeMoves
      BY DEF M!OnSourceChunk, Stays, SameTransfer, BridgeMoves
    <2> QED BY <1>3, <2>1, BridgeStepMoves DEF SourceChunk
  <1>4. ASSUME SourceAbort \/ GlobalTimer \/ TargetLost \/ SilenceTimer PROVE BridgeAround
    <2>1. /\ M!OnSourceAbort => BridgeMoves
          /\ M!LoopGlobalTimeout => BridgeMoves
          /\ M!LoopUnreachable => BridgeMoves
          /\ M!LoopSilence => BridgeMoves
      BY FailTransferEnds
         DEF M!OnSourceAbort, M!LoopGlobalTimeout, M!LoopUnreachable, M!LoopSilence, BridgeMoves
    <2> QED BY <1>4, <2>1, BridgeStepMoves
            DEF SourceAbort, GlobalTimer, TargetLost, SilenceTimer
  <1>5. ASSUME AnnounceTimer PROVE BridgeAround
    <2>1. M!SendAnnounce(SendResult(1)) => BridgeMoves
      BY SendAnnounceMoves DEF BridgeMoves
    <2> QED BY <1>5, <2>1, BridgeStepMoves DEF AnnounceTimer
  <1>6. ASSUME NEW seq \in M!AllSeqs, SendChunk(seq) PROVE BridgeAround
    <2>1. M!PumpChunk(seq, SendResult(2)) => BridgeMoves
      BY <1>1, PumpChunkMoves DEF BridgeMoves
    <2> QED BY <1>6, <2>1, BridgeStepMoves DEF SendChunk
  <1>7. ASSUME SendRoundEnd \/ BlastTimer PROVE BridgeAround
    <2>1. M!PumpBlastComplete(SendResult(1)) \/ M!RetryBlastComplete(SendResult(1)) => BridgeMoves
      BY PumpBlastCompleteMoves DEF BridgeMoves
    <2> QED BY <1>7, <2>1, BridgeStepMoves DEF SendRoundEnd, BlastTimer
  <1>8. ASSUME EndTimer PROVE BridgeAround
    <2>1. M!RetryEnd(SendResult(1)) => BridgeMoves
      BY RetryEndMoves, 0 \in Nat DEF BridgeMoves
    <2> QED BY <1>8, <2>1, BridgeStepMoves DEF EndTimer
  <1>9. ASSUME AckArrives PROVE BridgeAround
    <2>1. BridgeMoves
      BY <1>9, OnFileAckMoves DEF AckArrives
    <2> QED BY <1>9, <2>1 DEF AckArrives, BridgeAround
  <1> QED BY <1>2, <1>3, <1>4, <1>5, <1>6, <1>7, <1>8, <1>9 DEF BridgeLoop

LEMMA BridgeActionsKeep ==
    ASSUME IInv,
           \/ \E f \in Files : Start(f)
           \/ \E seq \in M!AllSeqs : SourceChunk(seq)
           \/ SourceAbort \/ BridgeLoop \/ GlobalTimer \/ TargetLost \/ AckArrives
    PROVE  IInv'
  BY BridgeActionsMove, SendsAround, BridgeKeeps DEF BridgeAround

-----------------------------------------------------------------------------
(* What a step of the leaf does.                                           *)

\* Nothing that the bridge would take for progress is sent.
NoReport(sent) ==
    \A i \in 1..Len(sent) : sent[i].kind \notin {"ACCEPT", "GAPS"}

\* The transfer is where it was or further, or is over.
Advances ==
    R!Active' =>
      /\ R!Active /\ rxFile' = rxFile /\ LeafCommits' >= LeafCommits
      /\ rxState = "WAITING_END" => rxState' = "WAITING_END"

\* An announce of file f: accepted, if the leaf was idle or has f already.
TakesAnnounce(f, tx, sent) ==
    /\ \/ Advances
       \/ rxState' = "RECEIVING" /\ rxFile' = f /\ rxInc' = 0
    /\ \/ NoReport(sent)
       \/ sent = <<PlainAck("ACCEPT", tx)>> /\ rxFile' = f

\* A BLAST_COMPLETE: written and all clear, or what is missing.
TakesBlastComplete(inc, tx, sent) ==
    /\ Advances
    /\ \/ NoReport(sent)
       \/ sent = <<ClearAck(tx)>> /\ (R!Active' => LeafCommits' > inc)
       \/ /\ rxState = "RECEIVING" /\ inc = rxInc
          /\ sent = <<GapsAck(tx, DOMAIN rxBuf)>>
          /\ DOMAIN rxBuf # 0 .. (NumInInc(rxFile, rxInc) - 1)

\* Any other step.
MovesAlone(sent) == Advances /\ NoReport(sent)

LEMMA AcksOfLeaf ==
    /\ \A kind, ref : R!PlainAck(kind, ref) = PlainAck(kind, ref)
    /\ \A ref : R!ClearAck(ref) = ClearAck(ref)
    /\ \A ref, received : R!GapsAck(ref, received) = GapsAck(ref, received)
    /\ \A ref, success : R!CompleteAck(ref, success) = CompleteAck(ref, success)
  BY DEF R!PlainAck, PlainAck, R!ClearAck, ClearAck, R!GapsAck, GapsAck,
         R!CompleteAck, CompleteAck

LEMMA GeometryOfLeaf ==
    /\ \A f : R!Incs(f) = Incs(f)
    /\ \A f, inc : R!NumInInc(f, inc) = NumInInc(f, inc)
    /\ \A f, inc : R!SeqsOf(f, inc) = SeqsOf(f, inc)
  BY DEF R!Incs, Incs, R!NumInInc, NumInInc, R!TotalIncrements, TotalIncrements,
         R!ChunksInIncrement, ChunksInIncrement, R!ChunksInLast, ChunksInLast,
         R!IncrementStart, IncrementStart, R!AtLeastOne, AtLeastOne, R!U16, U16,
         R!CeilDiv, CeilDiv, R!SeqsOf, SeqsOf, R!IncrementSeqs, IncrementSeqs,
         R!IncrementEnd, IncrementEnd

LEMMA AcksTyped ==
    /\ \A kind \in AckKinds, ref \in Nat :
         /\ PlainAck(kind, ref) \in Ack
         /\ PlainAck(kind, ref).kind = kind /\ PlainAck(kind, ref).ref = ref
    /\ \A ref \in Nat :
         /\ ClearAck(ref) \in Ack /\ ClearAck(ref).kind = "GAPS"
         /\ ClearAck(ref).ref = ref /\ ClearAck(ref).clear
    /\ \A ref \in Nat, received \in SUBSET Nat :
         /\ GapsAck(ref, received) \in Ack /\ GapsAck(ref, received).kind = "GAPS"
         /\ GapsAck(ref, received).ref = ref /\ ~GapsAck(ref, received).clear
         /\ GapsAck(ref, received).got = received
    /\ \A ref \in Nat, success \in BOOLEAN :
         CompleteAck(ref, success) \in Ack /\ CompleteAck(ref, success).kind = "COMPLETE"
  BY DEF Ack, AckKinds, PlainAck, ClearAck, GapsAck, CompleteAck

LEMMA OneAck ==
    ASSUME NEW m \in Ack
    PROVE  /\ <<m>> \in Seq(Ack) /\ Len(<<m>>) = 1 /\ <<m>>[1] = m
           /\ \A k \in 1..Len(<<m>>) : <<m>>[k] = m
  OBVIOUS

LEMMA NoAck ==
    ASSUME rxOut' = <<>>
    PROVE  rxOut' \in Seq(Ack) /\ NoReport(rxOut')
  BY DEF NoReport

LEMMA PlainReply ==
    ASSUME NEW kind \in AckKinds \ {"ACCEPT", "GAPS"}, NEW ref \in Nat,
           rxOut' = <<PlainAck(kind, ref)>>
    PROVE  rxOut' \in Seq(Ack) /\ NoReport(rxOut')
  BY AcksTyped, OneAck DEF NoReport

LEMMA CompleteReply ==
    ASSUME NEW ref \in Nat, NEW success \in BOOLEAN, rxOut' = <<CompleteAck(ref, success)>>
    PROVE  rxOut' \in Seq(Ack) /\ NoReport(rxOut')
PROOF
  <1>1. PICK a \in Ack : a = CompleteAck(ref, success) /\ a.kind = "COMPLETE"
    BY AcksTyped
  <1>2. rxOut' = <<a>>
    BY <1>1
  <1> QED BY <1>1, <1>2, OneAck DEF NoReport

\* LeafOK after reset_() and after a step that leaves the transfer alone.
LEMMA ResetIsOver ==
    ASSUME R!ResetTransfer
    PROVE  LeafOK' /\ Advances
  BY DEF R!ResetTransfer, LeafOK, Advances, R!Active

LEMMA SameAdvances ==
    ASSUME LeafOK, UNCHANGED <<rxState, rxFile, rxInc>>
    PROVE  Advances /\ LeafCommits' = LeafCommits /\ (R!Active' <=> R!Active)
PROOF
  <1>1. LeafCommits' = LeafCommits /\ (R!Active' <=> R!Active)
    BY DEF LeafCommits, R!Active
  <1>2. R!Active => LeafCommits \in Nat
    BY IncsBounds DEF LeafOK, LeafCommits
  <1> QED BY <1>1, <1>2 DEF Advances

LEMMA AbortIsOver ==
    ASSUME LeafOK, NEW notify \in BOOLEAN, R!AbortTransfer(notify)
    PROVE  LeafOK' /\ rxOut' \in Seq(Ack) /\ MovesAlone(rxOut')
PROOF
  <1>1. rxOut' = <<>> \/ rxOut' = <<PlainAck("ABORT", rxAnnTx)>>
    BY AcksOfLeaf DEF R!AbortTransfer, R!Reply, R!NoReply
  <1>2. rxOut' \in Seq(Ack) /\ NoReport(rxOut')
    <2>1. "ABORT" \in AckKinds \ {"ACCEPT", "GAPS"} /\ rxAnnTx \in Nat
      BY DEF AckKinds, LeafOK
    <2> QED BY <1>1, <2>1, NoAck, PlainReply
  <1> QED BY <1>2, ResetIsOver DEF R!AbortTransfer, MovesAlone

LEMMA AnnounceOfLeaf ==
    ASSUME LeafOK, NEW f \in Files, NEW tx \in Nat, LeafHandlesAnnounce(f, tx)
    PROVE  LeafOK' /\ rxOut' \in Seq(Ack) /\ TakesAnnounce(f, tx, rxOut')
PROOF
  <1>0. /\ "REJECT" \in AckKinds \ {"ACCEPT", "GAPS"} /\ "ACCEPT" \in AckKinds
    BY DEF AckKinds
  <1>1. CASE R!AnnounceRefused(f, tx) \/ R!AnnounceRefused8266(f, tx)
    <2>1. /\ UNCHANGED <<rxState, rxFile, rxInc, rxBuf, rxWritten>> /\ rxAnnTx' = tx
          /\ rxOut' = <<PlainAck("REJECT", tx)>>
      BY <1>1, AcksOfLeaf DEF R!AnnounceRefused, R!AnnounceRefused8266, R!Reply
    <2>2. LeafOK'
      BY <2>1 DEF LeafOK, R!Active
    <2> QED BY <1>0, <2>1, <2>2, PlainReply, SameAdvances DEF TakesAnnounce
  <1>2. CASE R!AnnounceWhileActive(f, tx)
    <2>1. /\ UNCHANGED <<rxState, rxFile, rxInc, rxBuf, rxWritten>> /\ rxAnnTx' = tx
          /\ \/ rxOut' = <<PlainAck("REJECT", tx)>>
             \/ rxOut' = <<PlainAck("ACCEPT", tx)>> /\ rxFile' = f
      BY <1>2, AcksOfLeaf DEF R!AnnounceWhileActive, R!Reply
    <2>2. LeafOK' /\ Advances
      BY <2>1, SameAdvances DEF LeafOK, R!Active
    <2>3. CASE rxOut' = <<PlainAck("REJECT", tx)>>
      BY <1>0, <2>2, <2>3, PlainReply DEF TakesAnnounce
    <2>4. CASE rxOut' = <<PlainAck("ACCEPT", tx)>> /\ rxFile' = f
      BY <1>0, <2>2, <2>4, AcksTyped, OneAck DEF TakesAnnounce
    <2> QED BY <2>1, <2>3, <2>4
  <1>3. CASE R!AnnounceAccepted(f, tx) \/ R!AnnounceAccepted8266(f, tx)
    <2>1. /\ rxState' = "RECEIVING" /\ rxFile' = f /\ rxInc' = 0 /\ rxAnnTx' = tx
          /\ DOMAIN rxBuf' = {} /\ rxWritten' = FALSE
          /\ rxOut' = <<PlainAck("ACCEPT", tx)>>
      BY <1>3, AcksOfLeaf
         DEF R!AnnounceAccepted, R!AnnounceAccepted8266, R!Reply, R!EmptyBuf
    <2>2. Incs(f) \in Nat \ {0}
      BY IncsBounds
    <2>3. LeafOK'
      BY <2>1, <2>2 DEF LeafOK, R!Active
    <2> QED BY <1>0, <2>1, <2>3, AcksTyped, OneAck DEF TakesAnnounce
  <1>4. CASE R!AnnounceUnacked(f, tx) \/ R!AnnounceUnacked8266(f, tx)
    <2>1. R!ResetTransfer /\ rxOut' = <<>>
      BY <1>4 DEF R!AnnounceUnacked, R!AnnounceUnacked8266, R!NoReply
    <2> QED BY <2>1, ResetIsOver, NoAck DEF TakesAnnounce
  <1> QED BY <1>1, <1>2, <1>3, <1>4
          DEF LeafHandlesAnnounce, R!HandleAnnounce, R!HandleAnnounce8266

LEMMA DataOfLeaf ==
    ASSUME LeafOK, NEW f, NEW seq, R!HandleFileData(f, seq)
    PROVE  LeafOK' /\ rxOut' \in Seq(Ack) /\ MovesAlone(rxOut')
PROOF
  <1>1. /\ UNCHANGED <<rxState, rxFile, rxInc, rxWritten, rxAnnTx>>
        /\ rxOut' = <<>>
    BY DEF R!HandleFileData, R!DataBuffered, R!DataDropped, R!NoReply, R!sessionVars
  <1>2. LeafOK'
    <2>1. CASE R!DataDropped(f, seq)
      BY <2>1 DEF R!DataDropped, R!sessionVars, LeafOK, R!Active
    <2>2. CASE R!DataBuffered(f, seq)
      <3>1. /\ rxState = "RECEIVING" /\ seq \in SeqsOf(rxFile, rxInc)
            /\ DOMAIN rxBuf' = DOMAIN rxBuf \cup {seq % Cpi}
        BY <2>2, GeometryOfLeaf DEF R!DataBuffered, R!ChunkWanted
      <3>2. rxFile \in Files /\ rxInc \in Nat /\ rxInc < Incs(rxFile)
        BY <3>1 DEF LeafOK, R!Active
      <3>3. seq % Cpi \in 0 .. (NumInInc(rxFile, rxInc) - 1)
        BY <3>1, <3>2, ChunkIndex
      <3> QED BY <1>1, <3>1, <3>3 DEF LeafOK, R!Active
    <2> QED BY <2>1, <2>2 DEF R!HandleFileData
  <1> QED BY <1>1, <1>2, NoAck, SameAdvances DEF MovesAlone

LEMMA BlastCompleteOfLeaf ==
    ASSUME LeafOK, NEW inc \in Nat, NEW tx \in Nat, R!HandleBlastComplete(inc, tx)
    PROVE  LeafOK' /\ rxOut' \in Seq(Ack) /\ TakesBlastComplete(inc, tx, rxOut')
PROOF
  <1>1. CASE R!BlastCompleteIgnored(inc, tx)
    <2>1. UNCHANGED <<rxState, rxFile, rxInc, rxBuf, rxWritten, rxAnnTx>> /\ rxOut' = <<>>
      BY <1>1 DEF R!BlastCompleteIgnored, R!NoReply
    <2>2. LeafOK'
      BY <2>1 DEF LeafOK, R!Active
    <2> QED BY <2>1, <2>2, SameAdvances, NoAck DEF TakesBlastComplete
  <1>2. ASSUME rxState = "RECEIVING" PROVE /\ rxFile \in Files /\ rxInc \in Nat /\ ~rxWritten
                                           /\ rxInc < Incs(rxFile) /\ Incs(rxFile) \in Nat
                                           /\ LeafCommits = rxInc /\ R!Active
                                           /\ DOMAIN rxBuf \in SUBSET Nat
    <2>1. rxFile \in Files
      BY <1>2 DEF LeafOK, R!Active
    <2> QED BY <1>2, <2>1, IncsBounds DEF LeafOK, LeafCommits, R!Active
  <1>3. CASE rxState = "RECEIVING" /\ R!BlastCompleteOld(inc, tx)
    <2>1. UNCHANGED <<rxState, rxFile, rxInc, rxBuf, rxWritten, rxAnnTx>>
          /\ rxOut' = <<ClearAck(tx)>> /\ inc < rxInc
      BY <1>2, <1>3, AcksOfLeaf DEF R!BlastCompleteOld, R!AlreadyCommitted, R!Reply
    <2>2. LeafOK' /\ Advances /\ LeafCommits' = LeafCommits
      BY <2>1, SameAdvances DEF LeafOK, R!Active
    <2> QED BY <1>2, <1>3, <2>1, <2>2, AcksTyped, OneAck DEF TakesBlastComplete
  <1>4. CASE rxState = "RECEIVING" /\ R!IncrementWritten /\ rxBcTx' = tx /\ inc = rxInc
    <2>1. rxOut' = <<ClearAck(tx)>> /\ rxFile' = rxFile /\ rxAnnTx' = rxAnnTx
      BY <1>4, AcksOfLeaf DEF R!IncrementWritten, R!Reply
    <2>2. CASE rxInc + 1 >= Incs(rxFile)
      <3>1. rxState' = "WAITING_END" /\ rxInc' = rxInc
        BY <1>4, <2>2, GeometryOfLeaf DEF R!IncrementWritten
      <3>2. LeafCommits' = Incs(rxFile)
        BY <2>1, <3>1 DEF LeafCommits
      <3>3. LeafOK'
        BY <1>2, <1>4, <2>1, <3>1 DEF LeafOK, R!Active
      <3>4. Advances /\ LeafCommits' > inc
        BY <1>2, <1>4, <2>1, <3>2 DEF Advances
      <3> QED BY <2>1, <3>3, <3>4, AcksTyped, OneAck DEF TakesBlastComplete
    <2>3. CASE ~(rxInc + 1 >= Incs(rxFile))
      <3>1. /\ rxState' = rxState /\ rxInc' = rxInc + 1 /\ rxWritten' = FALSE
            /\ DOMAIN rxBuf' = {}
        BY <1>4, <2>3, GeometryOfLeaf DEF R!IncrementWritten, R!EmptyBuf
      <3>2. LeafCommits' = rxInc + 1
        BY <1>4, <3>1 DEF LeafCommits
      <3>3. LeafOK'
        BY <1>2, <1>4, <2>1, <2>3, <3>1 DEF LeafOK, R!Active
      <3>4. Advances /\ LeafCommits' > inc
        BY <1>2, <1>4, <2>1, <3>2 DEF Advances
      <3> QED BY <2>1, <3>3, <3>4, AcksTyped, OneAck DEF TakesBlastComplete
    <2> QED BY <2>2, <2>3
  <1>5. CASE \E notify \in BOOLEAN : R!AbortTransfer(notify)
    BY <1>5, AbortIsOver DEF TakesBlastComplete, MovesAlone
  <1>6. CASE rxState = "RECEIVING" /\ R!BlastCompleteGaps(inc, tx) /\ ~R!RoundsExhausted
    <2>1. /\ UNCHANGED <<rxState, rxFile, rxInc, rxBuf, rxWritten, rxAnnTx>>
          /\ rxOut' = <<GapsAck(tx, DOMAIN rxBuf)>> /\ inc = rxInc
          /\ DOMAIN rxBuf # 0 .. (NumInInc(rxFile, rxInc) - 1)
      BY <1>6, AcksOfLeaf, GeometryOfLeaf DEF R!BlastCompleteGaps, R!BufferComplete, R!Reply
    <2>2. LeafOK' /\ Advances
      BY <2>1, SameAdvances DEF LeafOK, R!Active
    <2> QED BY <1>2, <1>6, <2>1, <2>2, AcksTyped, OneAck DEF TakesBlastComplete
  <1>7. R!BlastCompleteWrite(inc, tx) =>
          \/ rxBcTx' = tx /\ R!IncrementWritten /\ inc = rxInc
          \/ \E notify \in BOOLEAN : R!AbortTransfer(notify)
    BY DEF R!BlastCompleteWrite, R!IncrementWriteFailed
  <1>8. R!BlastCompleteGaps(inc, tx) =>
          ~R!RoundsExhausted \/ \E notify \in BOOLEAN : R!AbortTransfer(notify)
    BY DEF R!BlastCompleteGaps
  <1> QED BY <1>1, <1>3, <1>4, <1>5, <1>6, <1>7, <1>8 DEF R!HandleBlastComplete

LEMMA EndOfLeaf ==
    ASSUME LeafOK, R!HandleEnd
    PROVE  LeafOK' /\ rxOut' \in Seq(Ack) /\ MovesAlone(rxOut')
PROOF
  <1>1. CASE R!EndVerified
    <2>1. rxState' = "VERIFYING" /\ rxOut' = <<>> /\ UNCHANGED <<rxInc, rxAnnTx>>
      BY <1>1 DEF R!EndVerified, R!NoReply
    <2> QED BY <2>1, NoAck DEF MovesAlone, Advances, LeafOK, R!Active
  <1>2. CASE R!EndRejected
    <2>1. rxOut' = <<CompleteAck(rxAnnTx, FALSE)>> /\ R!ResetTransfer /\ rxAnnTx \in Nat
      BY <1>2, AcksOfLeaf DEF R!EndRejected, R!Reply, LeafOK
    <2>2. rxOut' \in Seq(Ack) /\ NoReport(rxOut')
      BY <2>1, CompleteReply
    <2> QED BY <2>1, <2>2, ResetIsOver DEF MovesAlone
  <1>3. CASE R!EndIgnored
    <2>1. UNCHANGED <<rxState, rxFile, rxInc, rxBuf, rxWritten, rxAnnTx>> /\ rxOut' = <<>>
      BY <1>3 DEF R!EndIgnored, R!NoReply, R!sessionVars
    <2> QED BY <2>1, SameAdvances, NoAck DEF MovesAlone, LeafOK, R!Active
  <1> QED BY <1>1, <1>2, <1>3 DEF R!HandleEnd

LEMMA AbortOfLeaf ==
    ASSUME LeafOK, R!HandleAbort
    PROVE  LeafOK' /\ rxOut' \in Seq(Ack) /\ MovesAlone(rxOut')
PROOF
  <1>1. CASE rxState = "IDLE"
    <2>1. UNCHANGED <<rxState, rxFile, rxInc, rxBuf, rxWritten, rxAnnTx>> /\ rxOut' = <<>>
      BY <1>1 DEF R!HandleAbort, R!NoReply, R!sessionVars
    <2> QED BY <2>1, SameAdvances, NoAck DEF MovesAlone, LeafOK, R!Active
  <1>2. CASE rxState # "IDLE"
    BY <1>2, AbortIsOver DEF R!HandleAbort
  <1> QED BY <1>1, <1>2

\* The leaf starts again, after an update or a power cut.
LeafBoots == R!Reboot \/ \E applied \in BOOLEAN : R!Reboot8266(applied)

LEMMA RestartBoots ==
    ASSUME LeafRestarts \/ LeafLosesPower
    PROVE  LeafBoots
  BY DEF LeafRestarts, LeafLosesPower, LeafBoots, R!Restart, R!PowerLoss, R!Restart8266,
         R!PowerLoss8266

LEMMA LoopOfLeaf ==
    ASSUME LeafOK, R!SendCompleteAck \/ R!SilenceTimeout \/ R!SessionCleared \/ LeafBoots
    PROVE  LeafOK' /\ rxOut' \in Seq(Ack) /\ MovesAlone(rxOut')
PROOF
  <1>1. CASE R!SilenceTimeout \/ R!SessionCleared
    BY <1>1, AbortIsOver DEF R!SilenceTimeout, R!SessionCleared
  <1>2. CASE LeafBoots
    <2>1. R!ResetTransfer /\ rxOut' = <<>>
      BY <1>2 DEF LeafBoots, R!Reboot, R!Reboot8266, R!NoReply
    <2> QED BY <2>1, ResetIsOver, NoAck DEF MovesAlone
  <1>3. CASE R!SendCompleteAck
    <2>1. rxOut' = <<CompleteAck(rxAnnTx, TRUE)>> /\ rxAnnTx \in Nat
      BY <1>3, AcksOfLeaf DEF R!SendCompleteAck, R!Reply, LeafOK
    <2>2. rxOut' \in Seq(Ack) /\ NoReport(rxOut')
      BY <2>1, CompleteReply
    <2>3. CASE R!ResetTransfer
      BY <2>2, <2>3, ResetIsOver DEF MovesAlone
    <2>4. CASE UNCHANGED <<rxState, rxFile, rxInc, rxBuf, rxWritten, rxAnnTx>>
      BY <2>2, <2>4, SameAdvances DEF MovesAlone, LeafOK, R!Active
    <2> QED BY <1>3, <2>3, <2>4 DEF R!SendCompleteAck
  <1> QED BY <1>1, <1>2, <1>3

-----------------------------------------------------------------------------
(* Every such step preserves the invariant.                                *)

\* What the frame at the head of the queue, or none, makes the leaf do.
LeafMoves(sent) ==
    \/ MovesAlone(sent)
    \/ /\ down # <<>> /\ down[1].phase = "ANNOUNCE"
       /\ TakesAnnounce(down[1].file, down[1].tx, sent)
    \/ /\ down # <<>> /\ down[1].phase = "BLAST_COMPLETE"
       /\ TakesBlastComplete(down[1].n, down[1].tx, sent)

\* An ack in flight was there before or has just been sent.
AckFrom(sent, j) ==
    \/ \E i \in 1..Len(up) : up'[j] = up[i]
    \/ \E k \in 1..Len(sent) : up'[j] = sent[k]

AroundLeaf(sent) ==
    /\ UNCHANGED bridgeVars
    /\ LeafOK' /\ sent \in Seq(Ack)
    /\ down' \in Seq(Frame) /\ Kept(down, down')
    /\ up' \in Seq(Ack) /\ \A j \in 1..Len(up') : AckFrom(sent, j)

\* The acks that count, each the answer to the frame at the head.
LEMMA SentAnswersHead ==
    ASSUME IInv, NEW sent \in Seq(Ack), LeafMoves(sent), NEW k \in 1..Len(sent),
           sent[k].kind \in {"ACCEPT", "GAPS"}
    PROVE  \/ /\ down # <<>> /\ down[1].phase = "ANNOUNCE"
              /\ sent[k].kind = "ACCEPT" /\ sent[k].ref = down[1].tx
              /\ rxFile' = down[1].file
           \/ /\ down # <<>> /\ down[1].phase = "BLAST_COMPLETE"
              /\ sent[k].kind = "GAPS" /\ sent[k].ref = down[1].tx
              /\ sent[k].clear /\ R!Active' => LeafCommits' > down[1].n
              /\ ~sent[k].clear =>
                   /\ rxState = "RECEIVING" /\ down[1].n = rxInc
                   /\ sent[k].got = DOMAIN rxBuf
                   /\ DOMAIN rxBuf # 0 .. (NumInInc(rxFile, rxInc) - 1)
PROOF
  <1>1. ~NoReport(sent)
    BY DEF NoReport
  <1>2. down # <<>> => 1 \in 1..Len(down) /\ down[1] \in Frame /\ down[1].tx \in Nat
    <2>1. down \in Seq(Frame)
      BY DEF IInv, FramesOK
    <2>2. down # <<>> => 1 \in 1..Len(down) /\ down[1] \in Frame
      BY <2>1, KeptFacts
    <2> QED BY <2>2 DEF Frame
  <1>3. CASE down # <<>> /\ down[1].phase = "ANNOUNCE" /\ TakesAnnounce(down[1].file, down[1].tx, sent)
    <2>1. sent = <<PlainAck("ACCEPT", down[1].tx)>> /\ rxFile' = down[1].file
      BY <1>1, <1>3 DEF TakesAnnounce
    <2>2. PICK a \in Ack : a = PlainAck("ACCEPT", down[1].tx) /\ a.kind = "ACCEPT"
                           /\ a.ref = down[1].tx
      BY <1>2, <1>3, AcksTyped DEF AckKinds
    <2>3. sent[k] = a
      BY <2>1, <2>2, OneAck
    <2> QED BY <1>3, <2>1, <2>2, <2>3
  <1>4. CASE /\ down # <<>> /\ down[1].phase = "BLAST_COMPLETE"
             /\ TakesBlastComplete(down[1].n, down[1].tx, sent)
    <2>1. CASE sent = <<ClearAck(down[1].tx)>> /\ (R!Active' => LeafCommits' > down[1].n)
      <3>1. PICK a \in Ack : a = ClearAck(down[1].tx) /\ a.kind = "GAPS"
                             /\ a.ref = down[1].tx /\ a.clear
        BY <1>2, <1>4, AcksTyped
      <3>2. sent[k] = a
        BY <2>1, <3>1, OneAck
      <3> QED BY <1>4, <2>1, <3>1, <3>2
    <2>2. CASE /\ rxState = "RECEIVING" /\ down[1].n = rxInc
               /\ sent = <<GapsAck(down[1].tx, DOMAIN rxBuf)>>
               /\ DOMAIN rxBuf # 0 .. (NumInInc(rxFile, rxInc) - 1)
      <3>0. DOMAIN rxBuf \in SUBSET Nat
        <4>1. DOMAIN rxBuf \subseteq 0 .. (NumInInc(rxFile, rxInc) - 1)
          BY <2>2 DEF IInv, LeafOK
        <4> QED BY <4>1
      <3>1. PICK a \in Ack : a = GapsAck(down[1].tx, DOMAIN rxBuf) /\ a.kind = "GAPS"
                             /\ a.ref = down[1].tx /\ ~a.clear /\ a.got = DOMAIN rxBuf
        BY <1>2, <1>4, <3>0, AcksTyped
      <3>2. sent[k] = a
        BY <2>2, <3>1, OneAck
      <3> QED BY <1>4, <2>2, <3>1, <3>2
    <2> QED BY <1>1, <1>4, <2>1, <2>2 DEF TakesBlastComplete
  <1> QED BY <1>1, <1>3, <1>4 DEF LeafMoves, MovesAlone

LEMMA LeafKeepsQueues ==
    ASSUME IInv, NEW sent, LeafMoves(sent), AroundLeaf(sent)
    PROVE  BridgeOK' /\ FramesOK' /\ AcksOK' /\ LatestAnnounceLast'
PROOF
  <1> USE DEF AroundLeaf
  <1>0. /\ FramesOK /\ AcksOK /\ LatestAnnounceLast /\ txCounter \in Nat
        /\ UNCHANGED <<mState, mFile, mInc, mHist, mAnnTx, txCounter>>
    BY DEF IInv, BridgeOK, bridgeVars
  <1>1. BridgeOK'
    BY <1>0 DEF IInv, BridgeOK
  <1>2. \A j \in 1..Len(down') : \E i \in 1..Len(down) :
          down'[j] = down[i] /\ i >= j /\ (i = Len(down) => j = Len(down'))
    BY DEF Kept
  <1>3. FramesOK' /\ LatestAnnounceLast'
    BY <1>0, <1>2 DEF FramesOK, LatestAnnounceLast
  <1>4. AcksOK'
    <2> SUFFICES ASSUME NEW j \in 1..Len(up')
                 PROVE  /\ up'[j].kind \in {"ACCEPT", "GAPS"} => up'[j].ref < txCounter
                        /\ up'[j].kind = "ACCEPT" => up'[j].ref > 0
      BY <1>0 DEF AcksOK
    <2>1. CASE \E i \in 1..Len(up) : up'[j] = up[i]
      BY <1>0, <2>1 DEF AcksOK
    <2>2. CASE \E k \in 1..Len(sent) : up'[j] = sent[k]
      <3>1. PICK k \in 1..Len(sent) : up'[j] = sent[k]
        BY <2>2
      <3>2. down # <<>> => 1 \in 1..Len(down)
        BY <1>0, KeptFacts DEF FramesOK
      <3> QED BY <1>0, <3>1, <3>2, SentAnswersHead DEF FramesOK
    <2> QED BY <2>1, <2>2 DEF AckFrom
  <1> QED BY <1>1, <1>3, <1>4

LEMMA LeafKeepsAnswered ==
    ASSUME IInv, NEW sent, LeafMoves(sent), AroundLeaf(sent)
    PROVE  AnsweredIsReceiving'
PROOF
  <1> USE DEF AroundLeaf
  <1>0. /\ UNCHANGED <<mState, mFile, mAnnTx>> /\ FramesOK
        /\ LatestAnnounceLast /\ AnsweredIsReceiving
    BY DEF IInv, bridgeVars
  <1> SUFFICES ASSUME mState = "ANNOUNCING", NEW j \in 1..Len(up'), Answers(j)'
               PROVE  /\ R!Active' => rxFile' = mFile
                      /\ \A k \in 1..Len(down') :
                           k = 1 /\ down'[k].phase = "ANNOUNCE" /\ down'[k].file = mFile
    BY <1>0 DEF AnsweredIsReceiving
  <1>1. up'[j].kind = "ACCEPT" /\ up'[j].ref = mAnnTx
    BY <1>0 DEF Answers
  <1>2. \A k \in 1..Len(down') : \E i \in 1..Len(down) : down'[k] = down[i] /\ i >= k
    BY DEF Kept
  <1>3. down # <<>> => 1 \in 1..Len(down)
    BY <1>0, KeptFacts DEF FramesOK
  \* Either way only repetitions of the latest announce are in flight.
  <1>4. CASE \E i \in 1..Len(up) : up'[j] = up[i]
    <2>1. PICK i \in 1..Len(up) : up'[j] = up[i]
      BY <1>4
    <2>2. /\ R!Active => rxFile = mFile
          /\ \A k \in 1..Len(down) :
               k = 1 /\ down[k].phase = "ANNOUNCE" /\ down[k].file = mFile
      BY <1>0, <1>1, <2>1 DEF AnsweredIsReceiving, Answers
    <2>3. R!Active' => rxFile' = mFile
      BY <1>3, <2>2 DEF LeafMoves, MovesAlone, TakesAnnounce, TakesBlastComplete, Advances
    <2>4. ASSUME NEW k \in 1..Len(down')
          PROVE  k = 1 /\ down'[k].phase = "ANNOUNCE" /\ down'[k].file = mFile
      <3>1. PICK b \in 1..Len(down) : down'[k] = down[b] /\ b >= k
        BY <1>2
      <3>2. b = 1 /\ down[b].phase = "ANNOUNCE" /\ down[b].file = mFile
        BY <2>2
      <3>3. k \in Int /\ 1 <= k /\ k <= 1
        BY <3>1, <3>2
      <3>4. k = 1
        BY <3>3
      <3> QED BY <3>1, <3>2, <3>4
    <2> QED BY <2>3, <2>4
  <1>5. CASE \E k \in 1..Len(sent) : up'[j] = sent[k]
    <2>1. /\ down # <<>> /\ down[1].phase = "ANNOUNCE" /\ down[1].tx = mAnnTx
          /\ rxFile' = down[1].file
      BY <1>1, <1>5, SentAnswersHead
    <2>2. Len(down) = 1 /\ down[1].file = mFile
      BY <1>0, <1>3, <2>1 DEF LatestAnnounceLast
    <2>3. R!Active' => rxFile' = mFile
      BY <2>1, <2>2
    <2>4. ASSUME NEW k \in 1..Len(down')
          PROVE  k = 1 /\ down'[k].phase = "ANNOUNCE" /\ down'[k].file = mFile
      <3>1. PICK i \in 1..Len(down) : down'[k] = down[i] /\ i >= k
        BY <1>2
      <3>2. i = 1
        BY <2>2
      <3>3. k = 1
        BY <3>1, <3>2
      <3> QED BY <2>1, <2>2, <3>1, <3>2, <3>3
    <2> QED BY <1>0, <2>3, <2>4
  <1> QED BY <1>4, <1>5 DEF AckFrom

LEMMA LeafKeepsAccepted ==
    ASSUME IInv, NEW sent, LeafMoves(sent), AroundLeaf(sent), Accepted
    PROVE  AcceptedInv'
PROOF
  <1> USE DEF AroundLeaf
  <1>0. /\ UNCHANGED <<mState, mFile, mInc, mHist, mAnnTx>>
        /\ Hist' = Hist /\ Indices' = Indices /\ Accepted'
        /\ FramesOK /\ LeafOK /\ mInc \in Nat
        /\ AnnounceIsRepeated /\ RoundsOfIncrement /\ ReportsTrue
        /\ SenderNotAhead /\ EndOnlyWhenWritten
    BY DEF IInv, BridgeOK, bridgeVars, Hist, Indices, Accepted
  <1>1. \A k \in 1..Len(down') : \E i \in 1..Len(down) : down'[k] = down[i] /\ i >= k
    BY DEF Kept
  <1>2. down # <<>> => 1 \in 1..Len(down)
    BY <1>0, KeptFacts DEF FramesOK
  <1>3. /\ R!Active => LeafCommits \in Nat
        /\ R!Active' => LeafCommits' \in Nat
    <2>1. R!Active => LeafCommits \in Nat
      BY <1>0, IncsBounds DEF LeafOK, LeafCommits
    <2>2. R!Active' => rxFile' \in Files /\ rxInc' \in Nat
      BY DEF LeafOK
    <2>3. R!Active' => LeafCommits' \in Nat
      BY <2>2, IncsBounds DEF LeafCommits
    <2> QED BY <2>1, <2>3
  \* The leaf goes on, or takes the repeated announce from the start again.
  <1>4. \/ Advances
        \/ /\ down # <<>> /\ down[1].phase = "ANNOUNCE"
           /\ rxState' = "RECEIVING" /\ rxFile' = mFile /\ rxInc' = 0
           /\ mInc = 0 /\ mState # "ENDING"
    BY <1>0, <1>2 DEF LeafMoves, MovesAlone, TakesAnnounce, TakesBlastComplete, AnnounceIsRepeated
  <1>5. SenderNotAhead'
    <2>1. CASE Advances
      BY <1>0, <1>3, <2>1 DEF SenderNotAhead, Advances
    <2>2. CASE rxState' = "RECEIVING" /\ rxFile' = mFile /\ rxInc' = 0 /\ mInc = 0
      BY <1>0, <2>2 DEF SenderNotAhead, LeafCommits
    <2> QED BY <1>4, <2>1, <2>2
  <1>6. EndOnlyWhenWritten'
    BY <1>0, <1>4 DEF EndOnlyWhenWritten, Advances
  <1>7. RoundsOfIncrement'
    BY <1>0, <1>1 DEF RoundsOfIncrement
  \* A new report answers the BLAST_COMPLETE at the head.
  <1>8. ASSUME NEW j \in 1..Len(up'), Reports(j)', ~ \E i \in 1..Len(up) : up'[j] = up[i]
        PROVE  /\ down # <<>> /\ down[1].phase = "BLAST_COMPLETE" /\ down[1].n = mInc
               /\ up'[j].clear /\ R!Active' => LeafCommits' > mInc
               /\ ~up'[j].clear =>
                    /\ rxState = "RECEIVING" /\ up'[j].got = DOMAIN rxBuf
                    /\ rxInc = mInc
                    /\ DOMAIN rxBuf # 0 .. (NumInInc(rxFile, rxInc) - 1)
    <2>1. PICK k \in 1..Len(sent) : up'[j] = sent[k]
      BY <1>8 DEF AckFrom
    <2>2. sent[k].kind = "GAPS" /\ sent[k].ref \in Hist
      BY <1>0, <1>8, <2>1 DEF Reports
    <2>3. /\ down # <<>> /\ down[1].phase = "BLAST_COMPLETE" /\ sent[k].ref = down[1].tx
          /\ sent[k].clear /\ R!Active' => LeafCommits' > down[1].n
          /\ ~sent[k].clear =>
               /\ rxState = "RECEIVING" /\ down[1].n = rxInc
               /\ sent[k].got = DOMAIN rxBuf
               /\ DOMAIN rxBuf # 0 .. (NumInInc(rxFile, rxInc) - 1)
      BY <2>2, SentAnswersHead
    <2>4. down[1].n = mInc
      BY <1>0, <1>2, <2>2, <2>3 DEF RoundsOfIncrement
    <2> QED BY <2>1, <2>3, <2>4
  <1>9. AnnounceIsRepeated'
    <2> SUFFICES ASSUME NEW k \in 1..Len(down'), down'[k].phase = "ANNOUNCE"
                 PROVE  /\ k = 1 /\ down'[k].file = mFile
                        /\ mInc = 0 /\ mState # "ENDING"
                        /\ \A j \in 1..Len(up') : ~Reports(j)'
      BY <1>0 DEF AnnounceIsRepeated
    <2>1. PICK i \in 1..Len(down) : down'[k] = down[i] /\ i >= k
      BY <1>1
    <2>2. /\ i = 1 /\ down[i].file = mFile /\ mInc = 0 /\ mState # "ENDING"
          /\ \A j \in 1..Len(up) : ~Reports(j)
      BY <1>0, <2>1 DEF AnnounceIsRepeated
    <2>3. \A j \in 1..Len(up') : ~Reports(j)'
      <3> SUFFICES ASSUME NEW j \in 1..Len(up'), Reports(j)' PROVE FALSE
        OBVIOUS
      <3>1. CASE \E q \in 1..Len(up) : up'[j] = up[q]
        BY <1>0, <2>2, <3>1 DEF Reports
      <3>2. CASE ~ \E q \in 1..Len(up) : up'[j] = up[q]
        BY <1>8, <2>1, <2>2, <3>2
      <3> QED BY <3>1, <3>2
    <2>4. k = 1
      BY <2>1, <2>2
    <2> QED BY <2>1, <2>2, <2>3, <2>4
  <1>10. ReportsTrue'
    <2> SUFFICES ASSUME NEW j \in 1..Len(up'), Reports(j)'
                 PROVE  /\ up'[j].clear /\ R!Active' => LeafCommits' > mInc
                        /\ ~up'[j].clear => ~(Indices \subseteq up'[j].got)
      BY <1>0 DEF ReportsTrue
    <2>1. CASE \E q \in 1..Len(up) : up'[j] = up[q]
      <3>1. PICK q \in 1..Len(up) : up'[j] = up[q]
        BY <2>1
      <3>2. Reports(q)
        BY <1>0, <3>1 DEF Reports
      <3>3. /\ up[q].clear /\ R!Active => LeafCommits > mInc
            /\ ~up[q].clear => ~(Indices \subseteq up[q].got)
        BY <1>0, <3>2 DEF ReportsTrue
      <3>4. Advances
        BY <1>0, <1>2, <1>4, <3>2 DEF AnnounceIsRepeated
      <3> QED BY <1>0, <1>3, <3>1, <3>3, <3>4 DEF Advances
    <2>2. CASE ~ \E q \in 1..Len(up) : up'[j] = up[q]
      <3>1. up'[j].clear /\ R!Active' => LeafCommits' > mInc
        BY <1>8, <2>2
      <3>2. ASSUME ~up'[j].clear PROVE ~(Indices \subseteq up'[j].got)
        <4>1. /\ rxState = "RECEIVING" /\ up'[j].got = DOMAIN rxBuf /\ rxInc = mInc
              /\ DOMAIN rxBuf # 0 .. (NumInInc(rxFile, rxInc) - 1)
          BY <1>8, <2>2, <3>2
        <4>2. rxFile = mFile
          BY <1>0, <4>1 DEF SenderNotAhead, Accepted, R!Active
        <4>3. DOMAIN rxBuf # Indices /\ DOMAIN rxBuf \subseteq Indices
          BY <1>0, <4>1, <4>2 DEF Indices, LeafOK
        <4> QED BY <4>1, <4>3
      <3> QED BY <3>1, <3>2
    <2> QED BY <2>1, <2>2
  <1> QED BY <1>5, <1>6, <1>7, <1>9, <1>10 DEF AcceptedInv

LEMMA LeafKeeps ==
    ASSUME IInv, NEW sent, LeafMoves(sent), AroundLeaf(sent)
    PROVE  IInv'
PROOF
  <1>1. LeafOK' /\ BridgeOK' /\ FramesOK' /\ AcksOK' /\ LatestAnnounceLast'
    BY LeafKeepsQueues DEF AroundLeaf
  <1>2. AnsweredIsReceiving'
    BY LeafKeepsAnswered
  <1>3. AcceptedInv'
    <2>1. CASE Accepted
      BY <2>1, LeafKeepsAccepted
    <2>2. CASE ~Accepted
      <3>1. ~Accepted'
        BY <2>2 DEF AroundLeaf, bridgeVars, Accepted
      <3> QED BY <3>1 DEF AcceptedInv, AnnounceIsRepeated, RoundsOfIncrement, ReportsTrue,
                          Accepted, SenderNotAhead, EndOnlyWhenWritten
    <2> QED BY <2>1, <2>2
  <1> QED BY <1>1, <1>2, <1>3 DEF IInv, AcceptedInv

-----------------------------------------------------------------------------
(* The actions of the leaf and of the radio.                               *)

LEMMA HandleFrameMoves ==
    ASSUME IInv, down # <<>>, HandleFrame(Head(down))
    PROVE  LeafOK' /\ rxOut' \in Seq(Ack) /\ LeafMoves(rxOut')
PROOF
  <1>1. /\ LeafOK /\ Head(down) = down[1] /\ 1 \in 1..Len(down) /\ down[1] \in Frame
        /\ down[1].phase = "ANNOUNCE" => down[1].file \in Files
    <2>1. /\ down \in Seq(Frame) /\ LeafOK
          /\ \A j \in 1..Len(down) : down[j].phase = "ANNOUNCE" => down[j].file \in Files
      BY DEF IInv, FramesOK
    <2> QED BY <2>1, KeptFacts
  <1>2. down[1].n \in Nat /\ down[1].tx \in Nat
    BY <1>1 DEF Frame
  <1>3. CASE /\ down[1].phase = "ANNOUNCE"
             /\ LeafHandlesAnnounce(down[1].file, down[1].tx)
    BY <1>1, <1>2, <1>3, AnnounceOfLeaf DEF LeafMoves
  <1>4. CASE R!HandleFileData(down[1].file, down[1].n)
    BY <1>1, <1>4, DataOfLeaf DEF LeafMoves
  <1>5. CASE /\ down[1].phase = "BLAST_COMPLETE"
             /\ R!HandleBlastComplete(down[1].n, down[1].tx)
    BY <1>1, <1>2, <1>5, BlastCompleteOfLeaf DEF LeafMoves
  <1>6. CASE R!HandleEnd
    BY <1>1, <1>6, EndOfLeaf DEF LeafMoves
  <1>7. CASE R!HandleAbort
    BY <1>1, <1>7, AbortOfLeaf DEF LeafMoves
  <1> QED BY <1>1, <1>3, <1>4, <1>5, <1>6, <1>7 DEF HandleFrame

\* The ack of a step joins the acks in flight, or is lost with them.
LEMMA AcksAround ==
    ASSUME IInv, NEW sent \in Seq(Ack), up' \in {up, up \o sent, <<>>}
    PROVE  up' \in Seq(Ack) /\ \A j \in 1..Len(up') : AckFrom(sent, j)
PROOF
  <1>1. up \in Seq(Ack)
    BY DEF IInv, AcksOK
  <1>2. up' \in Seq(Ack) /\ Grown(up, sent, up')
    <2>1. <<>> \in Seq(Ack) /\ Grown(up, sent, <<>>)
      BY <1>1 DEF Grown
    <2>2. /\ Grown(up, sent, up)
          /\ up \o sent \in Seq(Ack) /\ Grown(up, sent, up \o sent)
      BY <1>1, GrownFacts
    <2>3. CASE up' = up
      BY <1>1, <2>2, <2>3, Zenon
    <2>4. CASE up' = up \o sent
      BY <2>2, <2>4, Zenon
    <2>5. CASE up' = <<>>
      BY <2>1, <2>5, Zenon
    <2> QED BY <2>3, <2>4, <2>5
  <1> QED BY <1>2 DEF Grown, AckFrom

LEMMA DownAround ==
    ASSUME IInv, down' = down \/ down' = <<>> \/ (down # <<>> /\ down' = Tail(down))
    PROVE  down' \in Seq(Frame) /\ Kept(down, down')
  BY KeptFacts DEF IInv, FramesOK

LEMMA LeafActionsKeep ==
    ASSUME IInv,
           \/ FrameArrives \/ FrameRepeated
           \/ LeafCompleteAck \/ LeafSilence
           \/ LeafRestart \/ LeafPowerLoss \/ LeafSessionLost
    PROVE  IInv'
PROOF
  <1>0. LeafOK
    BY DEF IInv
  <1>1. CASE FrameArrives \/ FrameRepeated
    <2>1. LeafOK' /\ rxOut' \in Seq(Ack) /\ LeafMoves(rxOut')
      BY <1>1, HandleFrameMoves DEF FrameArrives, FrameRepeated
    <2>2. UNCHANGED bridgeVars /\ up' \in {up, up \o rxOut'}
      BY <1>1 DEF FrameArrives, FrameRepeated, LeafSends
    <2>3. down' = down \/ (down # <<>> /\ down' = Tail(down))
      BY <1>1 DEF FrameArrives, FrameRepeated
    <2> QED BY <2>1, <2>2, <2>3, AcksAround, DownAround, LeafKeeps DEF AroundLeaf
  <1>2. CASE LeafCompleteAck \/ LeafSilence
    <2>1. LeafOK' /\ rxOut' \in Seq(Ack) /\ MovesAlone(rxOut')
      BY <1>0, <1>2, LoopOfLeaf DEF LeafCompleteAck, LeafSilence, LeafStep
    <2>2. UNCHANGED <<bridgeVars, down>> /\ up' \in {up, up \o rxOut'}
      BY <1>2 DEF LeafCompleteAck, LeafSilence, LeafStep, LeafSends
    <2> QED BY <2>1, <2>2, AcksAround, DownAround, LeafKeeps DEF AroundLeaf, LeafMoves
  <1>3. CASE LeafRestart \/ LeafPowerLoss \/ LeafSessionLost
    <2>1. LeafOK' /\ rxOut' \in Seq(Ack) /\ MovesAlone(rxOut')
      BY <1>0, <1>3, LoopOfLeaf, RestartBoots
         DEF LeafRestart, LeafPowerLoss, LeafSessionLost, NewSession
    <2>2. UNCHANGED bridgeVars /\ up' = <<>> /\ down' = <<>>
      BY <1>3 DEF LeafRestart, LeafPowerLoss, LeafSessionLost, NewSession
    <2> QED BY <2>1, <2>2, AcksAround, DownAround, LeafKeeps DEF AroundLeaf, LeafMoves
  <1> QED BY <1>1, <1>2, <1>3

\* A lost frame or ack.
LEMMA LossesKeep ==
    ASSUME IInv, FrameLost \/ AckLost
    PROVE  IInv'
PROOF
  <1>1. UNCHANGED <<leafVars, bridgeVars>>
    BY DEF FrameLost, AckLost
  <1>2. LeafOK' /\ MovesAlone(<<>>) /\ <<>> \in Seq(Ack)
    <2>1. UNCHANGED <<rxState, rxFile, rxInc, rxBuf, rxWritten, rxAnnTx>>
      BY <1>1 DEF leafVars
    <2>2. Advances
      BY <2>1, SameAdvances DEF IInv
    <2> QED BY <2>1, <2>2 DEF IInv, LeafOK, R!Active, MovesAlone, NoReport
  <1>3. up' \in Seq(Ack) /\ \A j \in 1..Len(up') : AckFrom(<<>>, j)
    <2>1. up \in Seq(Ack) /\ (up' = up \/ (up # <<>> /\ up' = Tail(up)))
      BY DEF FrameLost, AckLost, IInv, AcksOK
    <2>2. up' \in Seq(Ack) /\ Kept(up, up')
      BY <2>1, KeptFacts
    <2> QED BY <2>2 DEF Kept, AckFrom
  <1>4. down' \in Seq(Frame) /\ Kept(down, down')
    BY DownAround DEF FrameLost, AckLost
  <1> QED BY <1>1, <1>2, <1>3, <1>4, LeafKeeps DEF AroundLeaf, LeafMoves

-----------------------------------------------------------------------------

LEMMA InitHolds ==
    Init => IInv
PROOF
  <1> SUFFICES ASSUME Init PROVE IInv
    OBVIOUS
  <1>1. /\ rxState = "IDLE" /\ rxInc = 0 /\ rxAnnTx = 0
        /\ mState = "IDLE" /\ mInc = 0 /\ mHist = <<>> /\ mAnnTx = 0 /\ txCounter = 1
        /\ down = <<>> /\ up = <<>>
    BY DEF Init, R!Init, M!Init
  <1>2. down \in Seq(Frame) /\ up \in Seq(Ack) /\ Len(down) = 0 /\ Len(up) = 0
    BY <1>1
  <1>3. LeafOK /\ BridgeOK
    BY <1>1 DEF LeafOK, BridgeOK, R!Active
  <1> QED BY <1>1, <1>2, <1>3
          DEF IInv, FramesOK, AcksOK, LatestAnnounceLast, AnsweredIsReceiving,
              AnnounceIsRepeated, RoundsOfIncrement, ReportsTrue, SenderNotAhead,
              EndOnlyWhenWritten, Accepted

LEMMA NextKeeps ==
    IInv /\ [Next]_vars => IInv'
PROOF
  <1> SUFFICES ASSUME IInv, [Next]_vars PROVE IInv'
    OBVIOUS
  <1>1. CASE UNCHANGED vars
    <2>1. /\ UNCHANGED <<rxState, rxFile, rxInc, rxBuf, rxWritten, rxAnnTx>>
          /\ UNCHANGED <<mState, mFile, mInc, mHist, mAnnTx, txCounter, down, up>>
      BY <1>1 DEF vars, leafVars, bridgeVars
    <2>2. /\ R!Active' = R!Active /\ LeafCommits' = LeafCommits
          /\ Hist' = Hist /\ Indices' = Indices /\ Accepted' = Accepted
      BY <2>1 DEF R!Active, LeafCommits, Hist, Indices, Accepted
    <2>3. \A i : Answers(i)' = Answers(i) /\ Reports(i)' = Reports(i)
      BY <2>1, <2>2 DEF Answers, Reports
    <2>4. LeafOK' /\ BridgeOK'
      BY <2>1, <2>2 DEF IInv, LeafOK, BridgeOK
    <2>5. FramesOK' /\ AcksOK' /\ LatestAnnounceLast'
      BY <2>1 DEF IInv, FramesOK, AcksOK, LatestAnnounceLast
    <2>6. AnsweredIsReceiving' /\ AnnounceIsRepeated'
      BY <2>1, <2>2, <2>3 DEF IInv, AnsweredIsReceiving, AnnounceIsRepeated
    <2>7. RoundsOfIncrement' /\ ReportsTrue'
      BY <2>1, <2>2, <2>3 DEF IInv, RoundsOfIncrement, ReportsTrue
    <2>8. SenderNotAhead' /\ EndOnlyWhenWritten'
      BY <2>1, <2>2 DEF IInv, SenderNotAhead, EndOnlyWhenWritten
    <2> QED BY <2>4, <2>5, <2>6, <2>7, <2>8 DEF IInv
  <1>2. CASE \/ \E f \in Files : Start(f)
             \/ \E seq \in M!AllSeqs : SourceChunk(seq)
             \/ SourceAbort \/ BridgeLoop \/ GlobalTimer \/ TargetLost \/ AckArrives
    BY <1>2, BridgeActionsKeep
  <1>3. CASE \/ FrameArrives \/ FrameRepeated
             \/ LeafCompleteAck \/ LeafSilence
             \/ LeafRestart \/ LeafPowerLoss \/ LeafSessionLost
    BY <1>3, LeafActionsKeep
  <1>4. CASE FrameLost \/ AckLost
    BY <1>4, LossesKeep
  <1> QED BY <1>1, <1>2, <1>3, <1>4 DEF Next

LEMMA Invariance ==
    Spec => []IInv
  BY InitHolds, NextKeeps, PTL DEF Spec

\* The bridge's current_increment never passes what the leaf has written, and
\* the leaf receives the file the bridge sends: nothing lost, repeated, dropped
\* by a full queue or left over from an earlier round or transfer makes
\* handle_gaps_ack_ move on too early.
THEOREM BridgeIsNotAhead ==
    Spec => []SenderNotAhead
PROOF
  <1>1. IInv => SenderNotAhead
    BY DEF IInv
  <1> QED BY <1>1, Invariance, PTL

\* send_end_ runs only when a leaf that still has the transfer has written its
\* last increment, so END is never ignored as premature.
THEOREM EndComesLast ==
    Spec => []EndOnlyWhenWritten
PROOF
  <1>1. IInv => EndOnlyWhenWritten
    BY DEF IInv
  <1> QED BY <1>1, Invariance, PTL

\* The branch of handle_gaps_ack_ for a bitmap with every bit set, which would
\* move on and keep the old history, is never taken with an ack of a leaf.
THEOREM BitmapsHaveGaps ==
    Spec => []NoFullBitmap
PROOF
  <1>1. IInv => NoFullBitmap
    <2> SUFFICES ASSUME IInv, NEW i \in 1..Len(up), up[i].kind = "GAPS", ~up[i].clear,
                        mState = "WAITING_GAPS", M!InHistory(up[i].ref)
                 PROVE  M!MissingIn(up[i].got) # {}
      BY DEF NoFullBitmap
    <2>1. Reports(i) /\ Accepted
      BY DEF Reports, Hist, M!InHistory, Accepted
    <2>2. ~(Indices \subseteq up[i].got)
      BY <2>1 DEF IInv, ReportsTrue
    <2>3. PICK x \in Indices : x \notin up[i].got
      BY <2>2
    <2> QED BY <2>3, GeometryOfBridge DEF M!MissingIn, Indices
  <1> QED BY <1>1, Invariance, PTL

-----------------------------------------------------------------------------
(* From the verification to SUCCESS.                                       *)

\* A COMPLETE that reports success.
Good(ack) == ack.kind = "COMPLETE" /\ ack.ok

\* One of the leaf's slots holds the file the bridge sends.
LeafHasFile == \E s \in {0, 1} : slots[s] = R!Image(mFile)

DeviceOK == running \in {0, 1} /\ boot \in {0, 1}

\* Once the latest announce was answered no COMPLETE can come that an earlier
\* transfer left behind.
AnsweredIsUnverified ==
    mState = "ANNOUNCING" =>
      \A i \in 1..Len(up) : Answers(i) =>
        rxState # "VERIFYING" /\ \A k \in i..Len(up) : ~Good(up[k])

\* From the verification on, until the COMPLETE arrives, the leaf has the file
\* and nothing in flight makes it erase a slot.
Delivered ==
    Accepted /\ (rxState = "VERIFYING" \/ \E i \in 1..Len(up) : Good(up[i])) =>
      /\ rxState \in {"IDLE", "VERIFYING"}
      /\ \A j \in 1..Len(down) : down[j].phase # "ANNOUNCE"
      /\ LeafHasFile

DeliveryInv == DeviceOK /\ AnsweredIsUnverified /\ Delivered

\* A bridge that starts one transfer: until that is accepted nothing but its
\* announces is about.
FirstTransfer ==
    /\ Accepted => txCounter > 1
    /\ mState = "ANNOUNCING" \/ txCounter = 1 =>
         /\ \A j \in 1..Len(down) : down[j].phase \in {"ANNOUNCE", "ABORT"}
         /\ rxState \in {"IDLE", "RECEIVING"}
         /\ \A i \in 1..Len(up) : ~Good(up[i])

\* r is what is left of q when d messages are gone from its head, with the one
\* message of m, or none, behind it.
Follows(q, m, r) ==
    \E d \in 0..Len(q) : \A i \in 1..Len(r) :
      \/ i + d <= Len(q) /\ r[i] = q[i + d]
      \/ i + d = Len(q) + 1 /\ i = Len(r) /\ m # <<>> /\ r[i] = m[1]

LEMMA FollowsFacts ==
    ASSUME NEW S, NEW q \in Seq(S), NEW m \in Seq(S), Len(m) <= 1
    PROVE  /\ Follows(q, m, q) /\ Follows(q, m, <<>>) /\ Follows(q, m, q \o m)
           /\ q # <<>> => Follows(q, m, Tail(q))
PROOF
  <1>1. 0 \in 0..Len(q) /\ Len(q) \in Nat /\ Len(m) \in Nat
    OBVIOUS
  <1>2. Follows(q, m, q)
    BY <1>1 DEF Follows
  <1>3. Follows(q, m, <<>>)
    <2>1. Len(<<>>) = 0
      OBVIOUS
    <2> QED BY <1>1, <2>1 DEF Follows
  <1>4. Follows(q, m, q \o m)
    <2> DEFINE r == q \o m
    <2>1. Len(r) = Len(q) + Len(m) /\ (m # <<>> => Len(m) = 1) /\ (m = <<>> => Len(m) = 0)
      OBVIOUS
    <2>2. \A i \in 1..Len(r) : r[i] = IF i <= Len(q) THEN q[i] ELSE m[i - Len(q)]
      OBVIOUS
    <2> HIDE DEF r
    <2>3. ASSUME NEW i \in 1..Len(r)
          PROVE  \/ i + 0 <= Len(q) /\ r[i] = q[i + 0]
                 \/ i + 0 = Len(q) + 1 /\ i = Len(r) /\ m # <<>> /\ r[i] = m[1]
      <3>1. CASE i <= Len(q)
        BY <2>2, <3>1
      <3>2. CASE ~(i <= Len(q))
        <4>1. Len(m) = 1 /\ m # <<>> /\ i = Len(q) + 1 /\ i = Len(r)
          BY <1>1, <2>1, <3>2
        <4>2. r[i] = m[i - Len(q)] /\ i - Len(q) = 1
          BY <1>1, <2>2, <3>2, <4>1
        <4> QED BY <4>1, <4>2
      <3> QED BY <3>1, <3>2
    <2>4. Follows(q, m, r)
      BY <1>1, <2>3 DEF Follows
    <2> QED BY <2>4 DEF r
  <1>5. ASSUME q # <<>> PROVE Follows(q, m, Tail(q))
    <2>1. 1 \in 0..Len(q) /\ Len(Tail(q)) = Len(q) - 1
      BY <1>5
    <2>2. \A i \in 1..Len(Tail(q)) : i + 1 <= Len(q) /\ Tail(q)[i] = q[i + 1]
      BY <1>5, <2>1
    <2> QED BY <2>1, <2>2 DEF Follows
  <1> QED BY <1>2, <1>3, <1>4, <1>5

-----------------------------------------------------------------------------
(* The steps of the bridge deliver.                                        *)

\* Blasting begins with an ACCEPT at the head of the acks, and a transfer by
\* start_transfer.
LEMMA BridgeEnters ==
    ASSUME IInv,
           \/ \E f \in Files : Start(f)
           \/ \E seq \in M!AllSeqs : SourceChunk(seq)
           \/ SourceAbort \/ BridgeLoop \/ GlobalTimer \/ TargetLost \/ AckArrives
    PROVE  /\ mState = "ANNOUNCING" /\ mState' = "BLASTING" =>
                up # <<>> /\ Answers(1)
           /\ mState' = "ANNOUNCING" /\ mState # "ANNOUNCING" => txCounter <= MaxStartTx
PROOF
  <1>1. ASSUME NEW f \in Files, Start(f)
        PROVE  mState' \in {"ANNOUNCING", "IDLE"} /\ txCounter <= MaxStartTx
    BY <1>1 DEF Start, BridgeStep, M!StartTransfer, M!FailTransfer, M!Reset
  <1>2. ASSUME \/ \E seq \in M!AllSeqs : SourceChunk(seq)
               \/ SourceAbort \/ BridgeLoop \/ GlobalTimer \/ TargetLost
        PROVE  \/ mState' \in {mState, "IDLE"}
               \/ mState # "ANNOUNCING" /\ mState' # "ANNOUNCING"
    <2>1. ASSUME NEW notify, M!FailTransfer(notify) PROVE mState' = "IDLE"
      BY <2>1 DEF M!FailTransfer, M!Reset
    <2>2. ASSUME NEW res, NEW before, M!SendBlastComplete(res, before)
          PROVE  mState' \in {mState, "WAITING_GAPS"}
      BY <2>2 DEF M!SendBlastComplete
    <2>3. ASSUME NEW seq, NEW res, M!PumpChunk(seq, res)
          PROVE  mState = "BLASTING" /\ mState' \in {mState, "WAITING_GAPS", "IDLE"}
      BY <2>1, <2>2, <2>3 DEF M!PumpChunk
    <2>4. ASSUME NEW res, M!PumpBlastComplete(res) \/ M!RetryBlastComplete(res)
          PROVE  mState # "ANNOUNCING" /\ mState' \in {mState, "WAITING_GAPS", "IDLE"}
      BY <2>1, <2>2, <2>4 DEF M!PumpBlastComplete, M!RetryBlastComplete
    <2>5. ASSUME NEW res, M!RetryEnd(res)
          PROVE  mState' \in {mState, "IDLE"}
      BY <2>1, <2>5 DEF M!RetryEnd, M!SendEnd
    <2>6. ASSUME NEW res, M!SendAnnounce(res)
          PROVE  mState' \in {mState, "IDLE"}
      BY <2>1, <2>6 DEF M!SendAnnounce, M!Nothing
    <2>7. \/ \E seq : M!OnSourceChunk(seq)
          \/ M!OnSourceAbort \/ M!LoopGlobalTimeout \/ M!LoopUnreachable \/ M!LoopSilence
          \/ \E seq, res : M!PumpChunk(seq, res)
          \/ \E res : M!PumpBlastComplete(res) \/ M!RetryBlastComplete(res)
                      \/ M!RetryEnd(res) \/ M!SendAnnounce(res)
      BY <1>2 DEF SourceChunk, SourceAbort, BridgeLoop, GlobalTimer, TargetLost, BridgeStep,
                  AnnounceTimer, SendChunk, SendRoundEnd, BlastTimer, EndTimer, SilenceTimer
    <2> QED BY <2>1, <2>3, <2>4, <2>5, <2>6, <2>7
            DEF M!OnSourceChunk, M!OnSourceAbort, M!LoopGlobalTimeout, M!LoopUnreachable,
                M!LoopSilence
  <1>3. ASSUME AckArrives
        PROVE  /\ mState = "ANNOUNCING" /\ mState' = "BLASTING" => up # <<>> /\ Answers(1)
               /\ mState' = "ANNOUNCING" => mState = "ANNOUNCING"
    <2>1. /\ up # <<>> /\ up \in Seq(Ack) /\ M!OnFileAck(Head(up), SendResult(1))
      BY <1>3 DEF AckArrives, IInv, AcksOK
    <2>2. CASE M!HandleAccept(Head(up))
      BY <2>1, <2>2, HandleAcceptMoves DEF FirstRound, Ends, M!HandleAccept
    <2>3. CASE ~M!HandleAccept(Head(up))
      <3>1. ASSUME NEW notify, M!FailTransfer(notify) PROVE mState' = "IDLE"
        BY <3>1 DEF M!FailTransfer, M!Reset
      <3>2. CASE M!HandleGaps(Head(up), SendResult(1))
        <4>1. mState = "WAITING_GAPS" /\ mState' \in {"IDLE", "ENDING", "BLASTING"}
          BY <3>1, <3>2 DEF M!HandleGaps, M!GapsClear, M!GapsMissing, M!SendEnd, M!BlastRound
        <4> QED BY <4>1
      <3>3. CASE M!HandleComplete(Head(up)) \/ M!HandleRejectOrAbort(Head(up))
        <4>1. mState' = "IDLE"
          BY <3>1, <3>3 DEF M!HandleComplete, M!HandleRejectOrAbort, M!Reset
        <4> QED BY <4>1
      <3>4. CASE M!AckIgnored(Head(up))
        <4>1. mState' = mState
          BY <3>4 DEF M!AckIgnored, M!Nothing
        <4> QED BY <4>1
      <3> QED BY <2>1, <2>3, <3>2, <3>3, <3>4 DEF M!OnFileAck
    <2> QED BY <2>2, <2>3
  <1>4. CASE \E f \in Files : Start(f)
    <2>1. PICK f \in Files : Start(f)
      BY <1>4
    <2>2. ~M!Busy
      BY <2>1 DEF Start, BridgeStep, M!StartTransfer
    <2>3. mState # "ANNOUNCING"
      BY <2>2 DEF M!Busy
    <2> QED BY <1>1, <2>1, <2>3
  <1>5. CASE AckArrives
    BY <1>3, <1>5
  <1>6. CASE \/ \E seq \in M!AllSeqs : SourceChunk(seq)
             \/ SourceAbort \/ BridgeLoop \/ GlobalTimer \/ TargetLost
    BY <1>2, <1>6
  <1> QED BY <1>4, <1>5, <1>6

LEMMA BridgeDelivers ==
    ASSUME IInv, DeliveryInv, BridgeAround,
           mState = "ANNOUNCING" /\ mState' = "BLASTING" => up # <<>> /\ Answers(1)
    PROVE  DeliveryInv'
PROOF
  <1>1. UNCHANGED <<rxState, slots, running, boot>>
    BY DEF BridgeAround, leafVars
  <1>2. up \in Seq(Ack) /\ <<>> \in Seq(Ack) /\ Len(<<>>) = 0 /\ Len(up) \in Nat
    BY DEF IInv, AcksOK
  <1>3. Follows(up, <<>>, up')
    <2>1. Follows(up, <<>>, up) /\ (up # <<>> => Follows(up, <<>>, Tail(up)))
      <3>1. Len(<<>>) <= 1
        BY <1>2
      <3> QED BY <1>2, <3>1, FollowsFacts
    <2>2. up' = up \/ (up # <<>> /\ up' = Tail(up))
      BY DEF BridgeAround
    <2>3. CASE up' = up
      BY <2>1, <2>3
    <2>4. CASE up # <<>> /\ up' = Tail(up)
      BY <2>1, <2>4
    <2> QED BY <2>2, <2>3, <2>4
  <1>4. PICK d \in 0..Len(up) : \A i \in 1..Len(up') : i + d <= Len(up) /\ up'[i] = up[i + d]
    BY <1>3 DEF Follows
  <1>5. AroundBridge
    BY SendsAround DEF BridgeAround
  <1>6. Grown(down, mOut', down')
    BY <1>5 DEF AroundBridge
  <1>7. DeviceOK'
    BY <1>1 DEF DeliveryInv, DeviceOK
  <1>8. AnsweredIsUnverified'
    <2> SUFFICES ASSUME mState' = "ANNOUNCING", NEW i \in 1..Len(up'), Answers(i)'
                 PROVE  rxState # "VERIFYING" /\ \A k \in i..Len(up') : ~Good(up'[k])
      BY <1>1 DEF AnsweredIsUnverified, Good
    <2>1. CASE SameTransfer
      <3>1. i + d \in 1..Len(up) /\ Answers(i + d) /\ mState = "ANNOUNCING"
        BY <1>2, <1>4, <2>1 DEF SameTransfer, Answers
      <3>2. rxState # "VERIFYING" /\ \A k \in (i + d)..Len(up) : ~Good(up[k])
        BY <3>1 DEF DeliveryInv, AnsweredIsUnverified
      <3>3. \A k \in i..Len(up') : k \in 1..Len(up') /\ k + d \in (i + d)..Len(up)
        BY <1>4
      <3> QED BY <1>4, <3>2, <3>3
    <2>2. CASE Announces
      <3>1. up'[i].kind = "ACCEPT" /\ up'[i].ref = mAnnTx'
        BY DEF Answers
      <3>2. up[i + d].ref < txCounter /\ up[i + d].ref > 0 /\ up[i + d].ref \in Nat
            /\ up'[i] = up[i + d]
        <4>1. i + d \in 1..Len(up) /\ up'[i] = up[i + d]
          BY <1>2, <1>4
        <4>2. AcksOK
          BY DEF IInv
        <4>3. up[i + d] \in Ack
          BY <1>2, <4>1
        <4>4. up[i + d].ref \in Nat
          BY <4>3 DEF Ack
        <4> QED BY <3>1, <4>1, <4>2, <4>4 DEF AcksOK
      <3>3. mAnnTx' = txCounter \/ mAnnTx' = 0
        BY <2>2 DEF Announces
      <3> QED BY <3>1, <3>2, <3>3 DEF IInv, BridgeOK
    <2>3. CASE ~SameTransfer /\ ~Announces
      BY <2>3 DEF BridgeAround, BridgeMoves, Stays, Ends, ClosesRound, Finishes, FirstRound,
                  NextRound
    <2> QED BY <2>1, <2>2, <2>3
  <1>9. Delivered'
    <2> SUFFICES ASSUME Accepted',
                        rxState = "VERIFYING" \/ \E i \in 1..Len(up') : Good(up'[i])
                 PROVE  /\ rxState \in {"IDLE", "VERIFYING"}
                        /\ \A j \in 1..Len(down') : down'[j].phase # "ANNOUNCE"
                        /\ LeafHasFile'
      BY <1>1 DEF Delivered, Good
    <2>1. rxState = "VERIFYING" \/ \E i \in 1..Len(up) : Good(up[i])
      <3>1. ASSUME NEW i \in 1..Len(up'), Good(up'[i]) PROVE \E k \in 1..Len(up) : Good(up[k])
        <4>1. i + d \in 1..Len(up) /\ Good(up[i + d])
          BY <1>2, <1>4, <3>1
        <4> QED BY <4>1
      <3> QED BY <3>1
    <2>2. Accepted /\ mFile' = mFile
          /\ \A j \in 1..Len(mOut') : mOut'[j].phase # "ANNOUNCE"
      <3>1. ASSUME NEW i, FirstRound(i) PROVE FALSE
        <4>1. up # <<>> /\ Answers(1) /\ mState = "ANNOUNCING" /\ 1 \in 1..Len(up)
          BY <1>2, <3>1 DEF FirstRound
        <4>2. rxState # "VERIFYING" /\ \A k \in 1..Len(up) : ~Good(up[k])
          BY <4>1 DEF DeliveryInv, AnsweredIsUnverified
        <4> QED BY <2>1, <4>2
      <3>2. CASE Stays
        BY <3>2 DEF Stays, SameTransfer, Accepted, Data
      <3>3. CASE ClosesRound
        <4>1. \A k \in 1..Len(mOut') : mOut'[k].phase # "ANNOUNCE"
          BY <3>3, ClosingFrames DEF BlastComplete
        <4> QED BY <3>3, <4>1 DEF ClosesRound, Accepted
      <3>4. ASSUME NEW i, Finishes(i)
            PROVE  /\ Accepted /\ mFile' = mFile
                   /\ \A j \in 1..Len(mOut') : mOut'[j].phase # "ANNOUNCE"
        BY <3>4 DEF Finishes, Accepted, End
      <3>5. ASSUME NEW i, NextRound(i)
            PROVE  /\ Accepted /\ mFile' = mFile
                   /\ \A j \in 1..Len(mOut') : mOut'[j].phase # "ANNOUNCE"
        BY <3>5 DEF NextRound, Accepted
      <3>6. ~Ends /\ ~Announces
        BY DEF Ends, Announces, Accepted
      <3> QED BY <3>1, <3>2, <3>3, <3>4, <3>5, <3>6 DEF BridgeAround, BridgeMoves
    <2>3. /\ rxState \in {"IDLE", "VERIFYING"}
          /\ \A j \in 1..Len(down) : down[j].phase # "ANNOUNCE"
          /\ LeafHasFile
      BY <2>1, <2>2 DEF DeliveryInv, Delivered
    <2>4. \A j \in 1..Len(down') : down'[j].phase # "ANNOUNCE"
      BY <1>6, <2>2, <2>3 DEF Grown
    <2>5. LeafHasFile'
      BY <1>1, <2>2, <2>3 DEF LeafHasFile, R!Image
    <2> QED BY <2>3, <2>4, <2>5
  <1> QED BY <1>7, <1>8, <1>9 DEF DeliveryInv

-----------------------------------------------------------------------------
(* The steps of the leaf deliver.                                          *)

NoGood(sent) == \A i \in 1..Len(sent) : ~Good(sent[i])

\* The flash is left alone; success is reported only after the verification.
Holds(sent) ==
    /\ slots' = slots /\ rxState' \in {rxState, "IDLE"}
    /\ rxState = "VERIFYING" \/ NoGood(sent)

\* A BLAST_COMPLETE while receiving may write.
Writes(sent) ==
    /\ down # <<>> /\ down[1].phase = "BLAST_COMPLETE"
    /\ rxState = "RECEIVING" /\ rxState' \in {"IDLE", "RECEIVING", "WAITING_END"}
    /\ NoGood(sent)

\* An announce to an idle leaf may erase.
Opens(sent) ==
    /\ down # <<>> /\ down[1].phase = "ANNOUNCE"
    /\ rxState = "IDLE" /\ rxState' \in {"IDLE", "RECEIVING"}
    /\ NoGood(sent)

\* END, and the image is there.
Verifies(sent) ==
    /\ down # <<>> /\ down[1].phase = "END"
    /\ rxState = "WAITING_END" /\ rxState' = "VERIFYING" /\ slots' = slots
    /\ \E s \in {0, 1} : slots[s] = R!Image(rxFile)
    /\ NoGood(sent)

LeafDoes(sent) ==
    /\ DeviceOK' /\ Len(sent) <= 1
    /\ \A i \in 1..Len(sent) : sent[i].kind = "ACCEPT" => rxState' = "RECEIVING"
    /\ Holds(sent) \/ Writes(sent) \/ Opens(sent) \/ Verifies(sent)

LEMMA LeafDelivers ==
    ASSUME IInv, DeliveryInv, NEW sent \in Seq(Ack), LeafDoes(sent), UNCHANGED bridgeVars,
           Follows(up, sent, up'), Kept(down, down')
    PROVE  DeliveryInv'
PROOF
  <1>1. /\ UNCHANGED <<mState, mFile, mAnnTx>> /\ Accepted' = Accepted
        /\ up \in Seq(Ack) /\ Len(up) \in Nat /\ Len(sent) \in Nat
        /\ down # <<>> => 1 \in 1..Len(down)
    <2>1. down # <<>> => 1 \in 1..Len(down)
      BY KeptFacts DEF IInv, FramesOK
    <2> QED BY <2>1 DEF bridgeVars, IInv, AcksOK, Accepted
  <1>2. PICK d \in 0..Len(up) : \A i \in 1..Len(up') :
          \/ i + d <= Len(up) /\ up'[i] = up[i + d]
          \/ i + d = Len(up) + 1 /\ i = Len(up') /\ sent # <<>> /\ up'[i] = sent[1]
    BY DEF Follows
  <1>3. sent # <<>> => 1 \in 1..Len(sent)
    OBVIOUS
  <1>4. \A k \in 1..Len(down') : \E i \in 1..Len(down) : down'[k] = down[i]
    BY DEF Kept
  <1>5. AnsweredIsUnverified'
    <2> SUFFICES ASSUME mState = "ANNOUNCING", NEW i \in 1..Len(up'), Answers(i)'
                 PROVE  rxState' # "VERIFYING" /\ \A k \in i..Len(up') : ~Good(up'[k])
      BY <1>1 DEF AnsweredIsUnverified, Good
    <2>0. up'[i].kind = "ACCEPT" /\ up'[i].ref = mAnnTx /\ ~Good(up'[i])
      BY <1>1 DEF Answers, Good
    <2>1. CASE i + d <= Len(up) /\ up'[i] = up[i + d]
      <3>1. i + d \in 1..Len(up) /\ Answers(i + d)
        BY <1>1, <2>0, <2>1 DEF Answers
      <3>2. rxState # "VERIFYING" /\ \A k \in (i + d)..Len(up) : ~Good(up[k])
        BY <3>1 DEF DeliveryInv, AnsweredIsUnverified
      <3>3. \A j \in 1..Len(down) : down[j].phase = "ANNOUNCE"
        BY <3>1 DEF IInv, AnsweredIsReceiving
      <3>4. ~Verifies(sent)
        BY <1>1, <3>3 DEF Verifies
      <3>5. rxState' # "VERIFYING" /\ NoGood(sent)
        BY <3>2, <3>4 DEF LeafDoes, Holds, Writes, Opens
      <3>6. ASSUME NEW k \in i..Len(up') PROVE ~Good(up'[k])
        <4>1. k \in 1..Len(up') /\ (k + d <= Len(up) => k + d \in (i + d)..Len(up))
          BY <1>1
        <4>2. CASE k + d <= Len(up) /\ up'[k] = up[k + d]
          BY <3>2, <4>1, <4>2
        <4>3. CASE sent # <<>> /\ up'[k] = sent[1]
          BY <1>3, <3>5, <4>3 DEF NoGood
        <4> QED BY <1>2, <4>1, <4>2, <4>3
      <3> QED BY <3>5, <3>6
    <2>2. CASE i = Len(up') /\ sent # <<>> /\ up'[i] = sent[1]
      <3>1. rxState' = "RECEIVING"
        BY <1>3, <2>0, <2>2 DEF LeafDoes
      <3>2. \A k \in i..Len(up') : k = i
        BY <2>2
      <3> QED BY <2>0, <3>1, <3>2
    <2> QED BY <1>2, <2>1, <2>2
  <1>6. Delivered'
    <2> SUFFICES ASSUME Accepted, rxState' = "VERIFYING" \/ \E i \in 1..Len(up') : Good(up'[i])
                 PROVE  /\ rxState' \in {"IDLE", "VERIFYING"}
                        /\ \A j \in 1..Len(down') : down'[j].phase # "ANNOUNCE"
                        /\ LeafHasFile'
      BY <1>1 DEF Delivered, Good
    <2>1. CASE rxState = "VERIFYING" \/ \E i \in 1..Len(up) : Good(up[i])
      <3>1. /\ rxState \in {"IDLE", "VERIFYING"}
            /\ \A j \in 1..Len(down) : down[j].phase # "ANNOUNCE"
            /\ LeafHasFile
        BY <2>1 DEF DeliveryInv, Delivered
      <3>2. Holds(sent)
        BY <1>1, <3>1 DEF LeafDoes, Writes, Opens, Verifies
      <3>3. LeafHasFile'
        BY <1>1, <3>1, <3>2 DEF LeafHasFile, Holds, R!Image
      <3> QED BY <1>4, <3>1, <3>2, <3>3 DEF Holds
    <2>2. CASE rxState # "VERIFYING" /\ \A i \in 1..Len(up) : ~Good(up[i])
      <3>1. Verifies(sent)
        <4>1. CASE NoGood(sent)
          <5>1. ASSUME NEW i \in 1..Len(up') PROVE ~Good(up'[i])
            <6>1. i + d <= Len(up) => i + d \in 1..Len(up)
              BY <1>1
            <6> QED BY <1>2, <1>3, <2>2, <4>1, <6>1 DEF NoGood
          <5>2. rxState' = "VERIFYING"
            BY <5>1
          <5> QED BY <2>2, <5>2 DEF LeafDoes, Holds, Writes, Opens
        <4>2. CASE ~NoGood(sent)
          BY <2>2, <4>2 DEF LeafDoes, Holds, Writes, Opens, Verifies
        <4> QED BY <4>1, <4>2
      <3>2. rxFile = mFile
        BY <3>1 DEF IInv, SenderNotAhead, Accepted, R!Active, Verifies
      <3>3. LeafHasFile'
        BY <1>1, <3>1, <3>2 DEF LeafHasFile, Verifies, R!Image
      <3>4. \A j \in 1..Len(down) : down[j].phase # "ANNOUNCE"
        <4>1. \A j \in 1..Len(down) : down[j].phase = "ANNOUNCE" => j = 1
          BY DEF IInv, AnnounceIsRepeated
        <4> QED BY <3>1, <4>1 DEF Verifies
      <3> QED BY <1>4, <3>1, <3>3, <3>4 DEF Verifies
    <2> QED BY <2>1, <2>2
  <1> QED BY <1>5, <1>6 DEF DeliveryInv, LeafDoes

\* What an ack of the leaf says, and where it leaves the leaf.
LEMMA SaysNothing ==
    ASSUME NEW sent, sent = <<>>
    PROVE  Len(sent) <= 1 /\ NoGood(sent) /\ Len(sent) = 0
  BY DEF NoGood

LEMMA SaysOne ==
    ASSUME NEW sent, NEW ack \in Ack, sent = <<ack>>
    PROVE  /\ Len(sent) <= 1 /\ \A i \in 1..Len(sent) : sent[i] = ack
           /\ ~Good(ack) => NoGood(sent)
  BY DEF NoGood

LEMMA NotGood ==
    /\ \A kind \in AckKinds \ {"COMPLETE"}, ref \in Nat :
         /\ PlainAck(kind, ref) \in Ack /\ ~Good(PlainAck(kind, ref))
         /\ PlainAck(kind, ref).kind = kind
    /\ \A ref \in Nat :
         ClearAck(ref) \in Ack /\ ~Good(ClearAck(ref)) /\ ClearAck(ref).kind # "ACCEPT"
    /\ \A ref \in Nat, got \in SUBSET Nat :
         /\ GapsAck(ref, got) \in Ack /\ ~Good(GapsAck(ref, got))
         /\ GapsAck(ref, got).kind # "ACCEPT"
    /\ \A ref \in Nat : CompleteAck(ref, FALSE) \in Ack /\ ~Good(CompleteAck(ref, FALSE))
    /\ \A ref \in Nat, ok \in BOOLEAN :
         CompleteAck(ref, ok) \in Ack /\ CompleteAck(ref, ok).kind # "ACCEPT"
  BY DEF Ack, AckKinds, Good, PlainAck, ClearAck, GapsAck, CompleteAck

\* The acks of a step that does not accept.
Refrains(sent) ==
    Len(sent) <= 1 /\ \A i \in 1..Len(sent) : sent[i].kind # "ACCEPT"

LEMMA AbortDoes ==
    ASSUME LeafOK, NEW notify \in BOOLEAN, R!AbortTransfer(notify)
    PROVE  rxState' = "IDLE" /\ Refrains(rxOut') /\ NoGood(rxOut')
PROOF
  <1>1. rxState' = "IDLE"
    BY DEF R!AbortTransfer, R!ResetTransfer
  <1>2. rxOut' = <<>> \/ rxOut' = <<PlainAck("ABORT", rxAnnTx)>>
    BY AcksOfLeaf DEF R!AbortTransfer, R!Reply, R!NoReply
  <1>3. PICK a \in Ack : a = PlainAck("ABORT", rxAnnTx) /\ ~Good(a) /\ a.kind = "ABORT"
    BY NotGood DEF AckKinds, LeafOK
  <1>4. CASE rxOut' = <<>>
    BY <1>1, <1>4, SaysNothing DEF Refrains
  <1>5. CASE rxOut' = <<a>>
    BY <1>1, <1>3, <1>5, SaysOne DEF Refrains
  <1> QED BY <1>2, <1>3, <1>4, <1>5

LEMMA LoopDoes ==
    ASSUME LeafOK, DeviceOK, R!SendCompleteAck \/ R!SilenceTimeout
    PROVE  LeafDoes(rxOut')
PROOF
  <1>1. CASE R!SilenceTimeout
    <2>1. UNCHANGED <<slots, running, boot>> /\ R!AbortTransfer(TRUE)
      BY <1>1 DEF R!SilenceTimeout, R!flashVars
    <2>2. DeviceOK'
      BY <2>1 DEF DeviceOK
    <2> QED BY <2>1, <2>2, AbortDoes DEF LeafDoes, Holds, Refrains
  <1>2. CASE R!SendCompleteAck
    <2>1. /\ UNCHANGED <<slots, running, boot>> /\ rxState = "VERIFYING"
          /\ rxState' \in {rxState, "IDLE"} /\ rxOut' = <<CompleteAck(rxAnnTx, TRUE)>>
      BY <1>2, AcksOfLeaf DEF R!SendCompleteAck, R!ResetTransfer, R!Reply, R!flashVars
    <2>2. PICK a \in Ack : a = CompleteAck(rxAnnTx, TRUE) /\ a.kind # "ACCEPT"
      BY NotGood DEF LeafOK
    <2>3. Len(rxOut') <= 1 /\ \A i \in 1..Len(rxOut') : rxOut'[i] = a
      BY <2>1, <2>2, SaysOne
    <2>4. DeviceOK'
      BY <2>1 DEF DeviceOK
    <2> QED BY <2>1, <2>2, <2>3, <2>4 DEF LeafDoes, Holds
  <1> QED BY <1>1, <1>2

\* A session ends with all that was in flight, whatever becomes of the flash:
\* the boot loader of the ESP8266 copies it.
LEMMA SessionEnds ==
    ASSUME DeviceOK, LeafRestart \/ LeafPowerLoss \/ LeafSessionLost
    PROVE  /\ DeviceOK' /\ rxState' = "IDLE"
           /\ down' = <<>> /\ up' = <<>>
           /\ UNCHANGED <<mState, txCounter>>
PROOF
  <1>1. /\ down' = <<>> /\ up' = <<>> /\ UNCHANGED <<mState, txCounter>>
        /\ LeafBoots \/ R!SessionCleared
    BY RestartBoots
       DEF LeafRestart, LeafPowerLoss, LeafSessionLost, NewSession, bridgeVars
  <1>2. CASE R!SessionCleared
    <2>1. UNCHANGED <<running, boot>> /\ rxState' = "IDLE"
      BY <1>2 DEF R!SessionCleared, R!AbortTransfer, R!ResetTransfer, R!flashVars
    <2> QED BY <1>1, <2>1 DEF DeviceOK
  <1>3. CASE R!Reboot
    <2>1. running' = boot' /\ boot' \in {boot, 1 - boot} /\ rxState' = "IDLE"
      BY <1>3 DEF R!Reboot, R!ResetTransfer, R!Bootable
    <2> QED BY <1>1, <2>1 DEF DeviceOK
  <1>4. CASE \E applied \in BOOLEAN : R!Reboot8266(applied)
    <2>1. running' = running /\ boot' = 0 /\ rxState' = "IDLE"
      BY <1>4 DEF R!Reboot8266, R!ResetTransfer
    <2> QED BY <1>1, <2>1 DEF DeviceOK
  <1> QED BY <1>1, <1>2, <1>3, <1>4 DEF LeafBoots

LEMMA AnnounceDoes ==
    ASSUME LeafOK, DeviceOK, down # <<>>, down[1].phase = "ANNOUNCE",
           NEW f, NEW tx \in Nat, LeafHandlesAnnounce(f, tx)
    PROVE  LeafDoes(rxOut')
PROOF
  <1>0. \/ R!AnnounceRefused(f, tx) \/ R!AnnounceRefused8266(f, tx)
        \/ R!AnnounceWhileActive(f, tx)
        \/ R!AnnounceAccepted(f, tx) \/ R!AnnounceAccepted8266(f, tx)
        \/ R!AnnounceUnacked(f, tx) \/ R!AnnounceUnacked8266(f, tx)
    BY DEF LeafHandlesAnnounce, R!HandleAnnounce, R!HandleAnnounce8266
  <1>1. running' = running /\ boot' \in {0, boot}
    BY <1>0 DEF R!AnnounceRefused, R!AnnounceWhileActive, R!AnnounceAccepted,
                R!AnnounceUnacked, R!AnnounceRefused8266, R!AnnounceAccepted8266,
                R!AnnounceUnacked8266, R!Unstaged, R!flashVars
  <1>2. DeviceOK'
    BY <1>1 DEF DeviceOK
  <1>3. PICK r \in Ack : r = PlainAck("REJECT", tx) /\ ~Good(r) /\ r.kind = "REJECT"
    BY NotGood DEF AckKinds
  <1>4. PICK a \in Ack : a = PlainAck("ACCEPT", tx) /\ ~Good(a)
    BY NotGood DEF AckKinds
  <1>5. CASE R!AnnounceRefused(f, tx) \/ R!AnnounceRefused8266(f, tx)
    <2>1. rxState = "IDLE" /\ rxState' = "IDLE" /\ rxOut' = <<r>>
      BY <1>3, <1>5, AcksOfLeaf DEF R!AnnounceRefused, R!AnnounceRefused8266, R!Reply
    <2>2. Len(rxOut') <= 1 /\ NoGood(rxOut') /\ \A i \in 1..Len(rxOut') : rxOut'[i] = r
      BY <1>3, <2>1, SaysOne
    <2> QED BY <1>2, <1>3, <2>1, <2>2 DEF LeafDoes, Opens
  <1>6. CASE R!AnnounceWhileActive(f, tx)
    <2>1. /\ slots' = slots /\ rxState' = rxState
          /\ rxOut' = <<r>> \/ (rxOut' = <<a>> /\ rxState' = "RECEIVING")
      BY <1>3, <1>4, <1>6, AcksOfLeaf DEF R!AnnounceWhileActive, R!Reply, R!flashVars
    <2>2. /\ Len(rxOut') <= 1 /\ NoGood(rxOut')
          /\ \/ \A i \in 1..Len(rxOut') : rxOut'[i] = r
             \/ rxState' = "RECEIVING"
      BY <1>3, <1>4, <2>1, SaysOne
    <2> QED BY <1>2, <1>3, <2>1, <2>2 DEF LeafDoes, Holds
  <1>7. CASE R!AnnounceAccepted(f, tx) \/ R!AnnounceAccepted8266(f, tx)
    <2>1. rxState = "IDLE" /\ rxState' = "RECEIVING" /\ rxOut' = <<a>>
      BY <1>4, <1>7, AcksOfLeaf DEF R!AnnounceAccepted, R!AnnounceAccepted8266, R!Reply
    <2>2. Len(rxOut') <= 1 /\ NoGood(rxOut')
      BY <1>4, <2>1, SaysOne
    <2> QED BY <1>2, <2>1, <2>2 DEF LeafDoes, Opens
  <1>8. CASE R!AnnounceUnacked(f, tx) \/ R!AnnounceUnacked8266(f, tx)
    <2>1. rxState = "IDLE" /\ rxState' = "IDLE" /\ rxOut' = <<>>
      BY <1>8 DEF R!AnnounceUnacked, R!AnnounceUnacked8266, R!ResetTransfer, R!NoReply
    <2> QED BY <1>2, <2>1, SaysNothing DEF LeafDoes, Opens
  <1> QED BY <1>0, <1>5, <1>6, <1>7, <1>8

LEMMA BlastCompleteDoes ==
    ASSUME LeafOK, DeviceOK, down # <<>>, down[1].phase = "BLAST_COMPLETE",
           NEW inc, NEW tx \in Nat, R!HandleBlastComplete(inc, tx)
    PROVE  LeafDoes(rxOut')
PROOF
  <1>1. UNCHANGED <<running, boot>>
    BY DEF R!HandleBlastComplete, R!BlastCompleteOld, R!BlastCompleteWrite, R!BlastCompleteGaps,
           R!BlastCompleteIgnored, R!IncrementWritten, R!IncrementWriteFailed, R!flashVars
  <1>2. DeviceOK'
    BY <1>1 DEF DeviceOK
  <1>3. CASE R!BlastCompleteIgnored(inc, tx)
    <2>1. slots' = slots /\ rxState' = rxState /\ rxOut' = <<>>
      BY <1>3 DEF R!BlastCompleteIgnored, R!NoReply, R!flashVars
    <2> QED BY <1>2, <2>1, SaysNothing DEF LeafDoes, Holds
  <1>4. ASSUME rxState = "RECEIVING", rxState' \in {"IDLE", "RECEIVING", "WAITING_END"},
               Refrains(rxOut'), NoGood(rxOut')
        PROVE  LeafDoes(rxOut')
    BY <1>2, <1>4 DEF LeafDoes, Writes, Refrains
  <1>5. CASE \E notify \in BOOLEAN : R!AbortTransfer(notify) /\ rxState = "RECEIVING"
    BY <1>4, <1>5, AbortDoes
  <1>6. PICK c \in Ack : c = ClearAck(tx) /\ ~Good(c) /\ c.kind # "ACCEPT"
    BY NotGood
  <1>7. CASE rxState = "RECEIVING" /\ R!BlastCompleteOld(inc, tx)
    <2>1. rxState' = rxState /\ rxOut' = <<c>>
      BY <1>6, <1>7, AcksOfLeaf DEF R!BlastCompleteOld, R!Reply
    <2>2. Refrains(rxOut') /\ NoGood(rxOut')
      BY <1>6, <2>1, SaysOne DEF Refrains
    <2> QED BY <1>4, <1>7, <2>1, <2>2
  <1>8. CASE rxState = "RECEIVING" /\ R!IncrementWritten /\ rxBcTx' = tx
    <2>1. rxState' \in {rxState, "WAITING_END"} /\ rxOut' = <<c>>
      BY <1>6, <1>8, AcksOfLeaf DEF R!IncrementWritten, R!Reply
    <2>2. Refrains(rxOut') /\ NoGood(rxOut')
      BY <1>6, <2>1, SaysOne DEF Refrains
    <2> QED BY <1>4, <1>8, <2>1, <2>2
  <1>9. CASE rxState = "RECEIVING" /\ R!BlastCompleteGaps(inc, tx) /\ ~R!RoundsExhausted
    <2>1. rxState' = rxState /\ rxOut' = <<GapsAck(tx, DOMAIN rxBuf)>>
      BY <1>9, AcksOfLeaf DEF R!BlastCompleteGaps, R!Reply
    <2>2. DOMAIN rxBuf \in SUBSET Nat
      <3>1. DOMAIN rxBuf \subseteq 0 .. (NumInInc(rxFile, rxInc) - 1)
        BY <1>9 DEF LeafOK
      <3> QED BY <3>1
    <2>3. PICK g \in Ack : g = GapsAck(tx, DOMAIN rxBuf) /\ ~Good(g) /\ g.kind # "ACCEPT"
      BY <2>2, NotGood
    <2>4. Refrains(rxOut') /\ NoGood(rxOut')
      BY <2>1, <2>3, SaysOne DEF Refrains
    <2> QED BY <1>4, <1>9, <2>1, <2>4
  <1>10. R!BlastCompleteWrite(inc, tx) =>
          \/ rxBcTx' = tx /\ R!IncrementWritten
          \/ \E notify \in BOOLEAN : R!AbortTransfer(notify)
    BY DEF R!BlastCompleteWrite, R!IncrementWriteFailed
  <1>11. R!BlastCompleteGaps(inc, tx) =>
          ~R!RoundsExhausted \/ \E notify \in BOOLEAN : R!AbortTransfer(notify)
    BY DEF R!BlastCompleteGaps
  <1> QED BY <1>3, <1>5, <1>7, <1>8, <1>9, <1>10, <1>11 DEF R!HandleBlastComplete

LEMMA EndDoes ==
    ASSUME LeafOK, DeviceOK, down # <<>>, down[1].phase = "END", R!HandleEnd
    PROVE  LeafDoes(rxOut')
PROOF
  <1>1. CASE R!EndVerified
    <2>1. /\ rxState = "WAITING_END" /\ rxState' = "VERIFYING" /\ slots' = slots
          /\ running' = running /\ boot' = 1 - running /\ rxOut' = <<>>
          /\ slots[1 - running] = R!Image(rxFile)
      BY <1>1 DEF R!EndVerified, R!ImageVerified, R!Flash, R!UpdateSlot, R!NoReply
    <2>2. DeviceOK' /\ 1 - running \in {0, 1}
      BY <2>1 DEF DeviceOK
    <2> QED BY <2>1, <2>2, SaysNothing DEF LeafDoes, Verifies
  <1>2. CASE R!EndRejected
    <2>1. /\ UNCHANGED <<slots, running, boot>> /\ rxState' = "IDLE"
          /\ rxOut' = <<CompleteAck(rxAnnTx, FALSE)>>
      BY <1>2, AcksOfLeaf DEF R!EndRejected, R!ResetTransfer, R!Reply, R!flashVars
    <2>2. PICK a \in Ack : a = CompleteAck(rxAnnTx, FALSE) /\ ~Good(a) /\ a.kind # "ACCEPT"
      BY NotGood DEF LeafOK
    <2>3. /\ Len(rxOut') <= 1 /\ NoGood(rxOut')
          /\ \A i \in 1..Len(rxOut') : rxOut'[i] = a
      BY <2>1, <2>2, SaysOne
    <2>4. DeviceOK'
      BY <2>1 DEF DeviceOK
    <2> QED BY <2>1, <2>2, <2>3, <2>4 DEF LeafDoes, Holds
  <1>3. CASE R!EndIgnored
    <2>1. UNCHANGED <<slots, running, boot, rxState>> /\ rxOut' = <<>>
      BY <1>3 DEF R!EndIgnored, R!NoReply, R!flashVars, R!sessionVars
    <2>2. DeviceOK'
      BY <2>1 DEF DeviceOK
    <2> QED BY <2>1, <2>2, SaysNothing DEF LeafDoes, Holds
  <1> QED BY <1>1, <1>2, <1>3 DEF R!HandleEnd

LEMMA OtherDoes ==
    ASSUME LeafOK, DeviceOK, NEW f, NEW n, R!HandleFileData(f, n) \/ R!HandleAbort
    PROVE  LeafDoes(rxOut')
PROOF
  <1>1. UNCHANGED <<slots, running, boot>>
    BY DEF R!HandleFileData, R!DataBuffered, R!DataDropped, R!HandleAbort, R!flashVars
  <1>2. DeviceOK'
    BY <1>1 DEF DeviceOK
  <1>3. CASE R!HandleFileData(f, n) \/ (R!HandleAbort /\ rxState = "IDLE")
    <2>1. rxState' = rxState /\ rxOut' = <<>>
      BY <1>3 DEF R!HandleFileData, R!DataBuffered, R!DataDropped, R!HandleAbort, R!NoReply,
                  R!sessionVars
    <2> QED BY <1>1, <1>2, <2>1, SaysNothing DEF LeafDoes, Holds
  <1>4. CASE R!HandleAbort /\ rxState # "IDLE"
    <2>1. R!AbortTransfer(FALSE)
      BY <1>4 DEF R!HandleAbort
    <2> QED BY <1>1, <1>2, <2>1, AbortDoes DEF LeafDoes, Holds, Refrains
  <1> QED BY <1>3, <1>4

LEMMA FrameDoes ==
    ASSUME IInv, DeviceOK, down # <<>>, HandleFrame(Head(down))
    PROVE  LeafDoes(rxOut')
PROOF
  <1>1. LeafOK /\ Head(down) = down[1] /\ down[1] \in Frame
    <2>1. down \in Seq(Frame) /\ LeafOK
      BY DEF IInv, FramesOK
    <2> QED BY <2>1, KeptFacts
  <1>2. down[1].tx \in Nat
    BY <1>1 DEF Frame
  <1>3. CASE /\ down[1].phase = "ANNOUNCE"
             /\ LeafHandlesAnnounce(down[1].file, down[1].tx)
    BY <1>1, <1>2, <1>3, AnnounceDoes
  <1>4. CASE /\ down[1].phase = "BLAST_COMPLETE"
             /\ R!HandleBlastComplete(down[1].n, down[1].tx)
    BY <1>1, <1>2, <1>4, BlastCompleteDoes
  <1>5. CASE down[1].phase = "END" /\ R!HandleEnd
    BY <1>1, <1>5, EndDoes
  <1>6. CASE R!HandleFileData(down[1].file, down[1].n) \/ R!HandleAbort
    BY <1>1, <1>6, OtherDoes
  <1> QED BY <1>1, <1>3, <1>4, <1>5, <1>6 DEF HandleFrame

-----------------------------------------------------------------------------
(* The one step that reports success.                                      *)

LEMMA OnlyCompleteSucceeds ==
    ASSUME Next, mPublic' = "SUCCESS", mPublic # "SUCCESS"
    PROVE  AckArrives /\ Good(Head(up))
PROOF
  <1>1. ASSUME NEW notify, M!FailTransfer(notify) PROVE FALSE
    BY <1>1 DEF M!FailTransfer
  <1>2. ASSUME NEW res, NEW before, M!SendBlastComplete(res, before) PROVE FALSE
    BY <1>2 DEF M!SendBlastComplete
  <1>3. ASSUME NEW n, NEW res, M!SendEnd(n, res) PROVE FALSE
    BY <1>1, <1>3 DEF M!SendEnd
  <1>4. ASSUME NEW inc, NEW round, NEW gaps, M!BlastRound(inc, round, gaps) PROVE FALSE
    BY <1>4 DEF M!BlastRound
  <1>5. ~M!Nothing
    BY DEF M!Nothing
  <1>6. ~BridgeLoop
    <2>1. ASSUME NEW res, M!SendAnnounce(res) PROVE FALSE
      BY <1>1, <1>5, <2>1 DEF M!SendAnnounce
    <2>2. ASSUME NEW seq, NEW res, M!PumpChunk(seq, res) PROVE FALSE
      BY <1>1, <1>2, <2>2 DEF M!PumpChunk
    <2>3. ASSUME NEW res, M!PumpBlastComplete(res) \/ M!RetryBlastComplete(res) PROVE FALSE
      BY <1>1, <1>2, <2>3 DEF M!PumpBlastComplete, M!RetryBlastComplete
    <2>4. ASSUME NEW res, M!RetryEnd(res) PROVE FALSE
      BY <1>1, <1>3, <2>4 DEF M!RetryEnd
    <2> QED BY <1>1, <2>1, <2>2, <2>3, <2>4
            DEF BridgeLoop, BridgeStep, AnnounceTimer, SendChunk, SendRoundEnd, BlastTimer,
                EndTimer, SilenceTimer, M!LoopSilence
  <1>7. ASSUME \/ \E f \in Files : Start(f)
               \/ \E seq \in M!AllSeqs : SourceChunk(seq)
               \/ SourceAbort \/ GlobalTimer \/ TargetLost
        PROVE  FALSE
    <2>1. ASSUME NEW f, NEW res, M!StartTransfer(f, res) PROVE FALSE
      BY <1>1, <2>1 DEF M!StartTransfer
    <2>2. ASSUME NEW seq, M!OnSourceChunk(seq) PROVE FALSE
      BY <2>2 DEF M!OnSourceChunk
    <2> QED BY <1>1, <1>7, <2>1, <2>2
            DEF Start, SourceChunk, SourceAbort, GlobalTimer, TargetLost, BridgeStep,
                M!OnSourceAbort, M!LoopGlobalTimeout, M!LoopUnreachable
  <1>8. ASSUME AckArrives PROVE Good(Head(up))
    <2>1. M!OnFileAck(Head(up), SendResult(1))
      BY <1>8 DEF AckArrives
    <2>2. ~M!HandleAccept(Head(up))
      BY <1>1, <1>4 DEF M!HandleAccept
    <2>3. ~M!HandleGaps(Head(up), SendResult(1))
      BY <1>1, <1>3, <1>4 DEF M!HandleGaps, M!GapsClear, M!GapsMissing
    <2>4. ~M!HandleRejectOrAbort(Head(up)) /\ ~M!AckIgnored(Head(up))
      BY <1>1, <1>5 DEF M!HandleRejectOrAbort, M!AckIgnored
    <2>5. M!HandleComplete(Head(up))
      BY <2>1, <2>2, <2>3, <2>4 DEF M!OnFileAck
    <2> QED BY <1>1, <2>5 DEF M!HandleComplete, Good
  <1>9. ASSUME UNCHANGED bridgeVars PROVE FALSE
    BY <1>9 DEF bridgeVars
  <1> QED BY <1>6, <1>7, <1>8, <1>9
          DEF Next, FrameArrives, LeafCompleteAck, LeafSilence, LeafStep, LeafRestart,
              LeafSessionLost, NewSession, LeafPowerLoss, FrameLost, AckLost, FrameRepeated

-----------------------------------------------------------------------------

LEMMA BridgeActionsDeliver ==
    ASSUME IInv, DeliveryInv,
           \/ \E f \in Files : Start(f)
           \/ \E seq \in M!AllSeqs : SourceChunk(seq)
           \/ SourceAbort \/ BridgeLoop \/ GlobalTimer \/ TargetLost \/ AckArrives
    PROVE  DeliveryInv'
  BY BridgeActionsMove, BridgeEnters, BridgeDelivers

\* What the leaf and the radio do within a session, as LeafDoes.
LEMMA LeafActionsDo ==
    ASSUME IInv, DeviceOK,
           \/ FrameArrives \/ FrameRepeated
           \/ LeafCompleteAck \/ LeafSilence
           \/ FrameLost \/ AckLost
    PROVE  /\ UNCHANGED bridgeVars /\ Kept(down, down')
           /\ \E sent \in Seq(Ack) : LeafDoes(sent) /\ Follows(up, sent, up')
PROOF
  <1>0. LeafOK /\ up \in Seq(Ack) /\ <<>> \in Seq(Ack) /\ Len(<<>>) <= 1
    BY DEF IInv, AcksOK
  <1>1. ASSUME NEW sent \in Seq(Ack), LeafDoes(sent), up' \in {up, up \o sent}
        PROVE  \E m \in Seq(Ack) : LeafDoes(m) /\ Follows(up, m, up')
    <2>1. Follows(up, sent, up) /\ Follows(up, sent, up \o sent)
      BY <1>0, <1>1, FollowsFacts DEF LeafDoes
    <2> QED BY <1>1, <2>1
  <1>2. CASE FrameArrives \/ FrameRepeated
    <2>1. rxOut' \in Seq(Ack) /\ LeafDoes(rxOut')
      BY <1>2, HandleFrameMoves, FrameDoes DEF FrameArrives, FrameRepeated
    <2>2. UNCHANGED bridgeVars /\ up' \in {up, up \o rxOut'}
      BY <1>2 DEF FrameArrives, FrameRepeated, LeafSends
    <2>3. down' = down \/ (down # <<>> /\ down' = Tail(down))
      BY <1>2 DEF FrameArrives, FrameRepeated
    <2> QED BY <1>1, <2>1, <2>2, <2>3, DownAround
  <1>3. CASE LeafCompleteAck \/ LeafSilence
    <2>1. rxOut' \in Seq(Ack) /\ LeafDoes(rxOut')
      BY <1>0, <1>3, LoopOfLeaf, LoopDoes DEF LeafCompleteAck, LeafSilence, LeafStep
    <2>2. UNCHANGED <<bridgeVars, down>> /\ up' \in {up, up \o rxOut'}
      BY <1>3 DEF LeafCompleteAck, LeafSilence, LeafStep, LeafSends
    <2> QED BY <1>1, <2>1, <2>2, DownAround
  <1>4. CASE FrameLost \/ AckLost
    <2>1. UNCHANGED <<bridgeVars, rxState, slots, running, boot>>
      BY <1>4 DEF FrameLost, AckLost, leafVars
    <2>2. DeviceOK'
      BY <2>1 DEF DeviceOK
    <2>3. LeafDoes(<<>>)
      BY <2>1, <2>2, SaysNothing DEF LeafDoes, Holds
    <2>4. up' = up \/ (up # <<>> /\ up' = Tail(up))
      BY <1>4 DEF FrameLost, AckLost
    <2>5. Follows(up, <<>>, up) /\ (up # <<>> => Follows(up, <<>>, Tail(up)))
      BY <1>0, FollowsFacts
    <2>6. Follows(up, <<>>, up')
      <3>1. CASE up' = up
        BY <2>5, <3>1
      <3>2. CASE up # <<>> /\ up' = Tail(up)
        BY <2>5, <3>2
      <3> QED BY <2>4, <3>1, <3>2
    <2>7. Kept(down, down')
      BY <1>4, DownAround DEF FrameLost, AckLost
    <2> QED BY <1>0, <2>1, <2>3, <2>6, <2>7
  <1> QED BY <1>2, <1>3, <1>4

LEMMA InitDelivers ==
    Init => DeliveryInv
PROOF
  <1> SUFFICES ASSUME Init PROVE DeliveryInv
    OBVIOUS
  <1>1. /\ rxState = "IDLE" /\ running = 0 /\ boot = 0 /\ mState = "IDLE"
        /\ up = <<>>
    BY DEF Init, R!Init, M!Init
  <1> QED BY <1>1 DEF DeliveryInv, DeviceOK, AnsweredIsUnverified, Delivered, Accepted

LEMMA NextDelivers ==
    IInv /\ DeliveryInv /\ [Next]_vars => DeliveryInv'
PROOF
  <1> SUFFICES ASSUME IInv, DeliveryInv, [Next]_vars PROVE DeliveryInv'
    OBVIOUS
  <1>1. CASE UNCHANGED vars
    <2>1. UNCHANGED <<mState, mFile, mAnnTx, up, down, rxState, slots, running, boot>>
      BY <1>1 DEF vars, leafVars, bridgeVars
    <2> QED BY <2>1 DEF DeliveryInv, DeviceOK, AnsweredIsUnverified, Delivered, Accepted,
                        Answers, Good, LeafHasFile, R!Image
  <1>2. CASE \/ \E f \in Files : Start(f)
             \/ \E seq \in M!AllSeqs : SourceChunk(seq)
             \/ SourceAbort \/ BridgeLoop \/ GlobalTimer \/ TargetLost \/ AckArrives
    BY <1>2, BridgeActionsDeliver
  <1>3. CASE \/ FrameArrives \/ FrameRepeated
             \/ LeafCompleteAck \/ LeafSilence
             \/ FrameLost \/ AckLost
    BY <1>3, LeafActionsDo, LeafDelivers DEF DeliveryInv
  <1>4. CASE LeafRestart \/ LeafPowerLoss \/ LeafSessionLost
    <2>1. DeviceOK' /\ rxState' = "IDLE" /\ up' = <<>>
      BY <1>4, SessionEnds DEF DeliveryInv
    <2>2. Len(up') = 0
      BY <2>1
    <2> QED BY <2>1, <2>2 DEF DeliveryInv, AnsweredIsUnverified, Delivered
  <1> QED BY <1>1, <1>2, <1>3, <1>4 DEF Next

LEMMA AcceptedSucceeds ==
    ASSUME IInv, DeliveryInv, Next, Accepted, mPublic' = "SUCCESS", mPublic # "SUCCESS"
    PROVE  LeafHasFile
PROOF
  <1>1. up # <<>> /\ up \in Seq(Ack) /\ Good(Head(up))
    BY OnlyCompleteSucceeds DEF AckArrives, IInv, AcksOK
  <1>2. 1 \in 1..Len(up) /\ Good(up[1])
    BY <1>1, KeptFacts
  <1> QED BY <1>2 DEF DeliveryInv, Delivered

-----------------------------------------------------------------------------
(* The first transfer of a bridge.                                         *)

LEMMA BridgeFirst ==
    ASSUME MaxStartTx = 1, IInv, FirstTransfer, BridgeAround,
           mState' = "ANNOUNCING" /\ mState # "ANNOUNCING" => txCounter <= MaxStartTx
    PROVE  FirstTransfer'
PROOF
  <1>1. rxState' = rxState /\ up \in Seq(Ack) /\ txCounter \in Nat \ {0}
    BY DEF BridgeAround, leafVars, IInv, AcksOK, BridgeOK
  <1>2. \A k \in 1..Len(up') : \E i \in 1..Len(up) : up'[k] = up[i]
    BY SendsAround DEF BridgeAround, AroundBridge, Kept
  <1>3. Grown(down, mOut', down')
    BY SendsAround DEF BridgeAround, AroundBridge
  <1>4. ASSUME mState = "ANNOUNCING" \/ txCounter = 1,
               \A k \in 1..Len(mOut') : mOut'[k].phase \in {"ANNOUNCE", "ABORT"}
        PROVE  /\ \A j \in 1..Len(down') : down'[j].phase \in {"ANNOUNCE", "ABORT"}
               /\ rxState' \in {"IDLE", "RECEIVING"}
               /\ \A i \in 1..Len(up') : ~Good(up'[i])
    <2>1. /\ \A j \in 1..Len(down) : down[j].phase \in {"ANNOUNCE", "ABORT"}
          /\ rxState \in {"IDLE", "RECEIVING"}
          /\ \A i \in 1..Len(up) : ~Good(up[i])
      BY <1>4 DEF FirstTransfer
    <2>2. \A j \in 1..Len(down') : down'[j].phase \in {"ANNOUNCE", "ABORT"}
      BY <1>3, <1>4, <2>1 DEF Grown
    <2>3. \A i \in 1..Len(up') : ~Good(up'[i])
      BY <1>2, <2>1
    <2> QED BY <1>1, <2>1, <2>2, <2>3
  <1>5. Accepted => txCounter > 1 /\ mState # "ANNOUNCING"
    BY DEF FirstTransfer, Accepted
  <1>6. CASE Stays
    <2>1. CASE mOut' = <<>>
      BY <1>4, <1>6, <2>1 DEF Stays, SameTransfer, FirstTransfer, Accepted, Good
    <2>2. CASE mState = "BLASTING"
      <3>1. Accepted /\ mState' = mState /\ txCounter' = txCounter
        BY <1>6, <2>2 DEF Stays, SameTransfer, Accepted
      <3> QED BY <1>5, <2>2, <3>1 DEF FirstTransfer
    <2> QED BY <1>6, <2>1, <2>2 DEF Stays
  <1>7. CASE Ends
    <2>1. mState' = "IDLE" /\ txCounter' = txCounter
      BY <1>7 DEF Ends
    <2>2. \A k \in 1..Len(mOut') : mOut'[k].phase \in {"ANNOUNCE", "ABORT"}
      BY <1>7 DEF Ends, Abort
    <2> QED BY <1>4, <2>1, <2>2 DEF FirstTransfer, Accepted, Good
  <1>8. CASE Announces
    <2>1. mState' = "ANNOUNCING" /\ (mState = "ANNOUNCING" \/ txCounter = 1)
      BY <1>1, <1>8 DEF Announces
    <2>2. \A k \in 1..Len(mOut') : mOut'[k].phase \in {"ANNOUNCE", "ABORT"}
      <3>1. Announce(mFile', txCounter).phase = "ANNOUNCE"
        BY DEF Announce
      <3>2. PICK a : a = Announce(mFile', txCounter)
        OBVIOUS
      <3>3. mOut' = <<a>> \/ mOut' = <<>>
        BY <1>8, <3>2 DEF Announces
      <3> QED BY <3>1, <3>2, <3>3
    <2> QED BY <1>4, <2>1, <2>2 DEF FirstTransfer, Accepted, Good
  <1>9. ASSUME Accepted', txCounter' > 1 PROVE FirstTransfer'
    BY <1>9 DEF FirstTransfer, Accepted
  <1>10. CASE ClosesRound
    <2>1. Accepted' /\ txCounter' > 1
      BY <1>1, <1>5, <1>10 DEF ClosesRound, Accepted
    <2> QED BY <1>9, <2>1
  <1>11. ASSUME NEW i, Finishes(i) \/ NextRound(i) PROVE FirstTransfer'
    <2>1. Accepted' /\ txCounter' > 1
      BY <1>5, <1>11 DEF Finishes, NextRound, Accepted
    <2> QED BY <1>9, <2>1
  <1>12. ASSUME NEW i, FirstRound(i) PROVE FirstTransfer'
    <2>1. i \in 1..Len(up) /\ up[i].kind = "ACCEPT" /\ txCounter' = txCounter /\ Accepted'
      BY <1>12 DEF FirstRound, Answers, Accepted
    <2>2. up[i] \in Ack /\ up[i].ref \in Nat
      <3>1. up[i] \in Ack
        BY <1>1, <2>1
      <3> QED BY <3>1 DEF Ack
    <2>3. 0 < up[i].ref /\ up[i].ref < txCounter
      BY <2>1 DEF IInv, AcksOK
    <2>4. txCounter' > 1
      BY <1>1, <2>1, <2>2, <2>3
    <2> QED BY <1>9, <2>1, <2>4
  <1> QED BY <1>6, <1>7, <1>8, <1>10, <1>11, <1>12 DEF BridgeAround, BridgeMoves

LEMMA LeafFirst ==
    ASSUME IInv, FirstTransfer, UNCHANGED bridgeVars, Kept(down, down'),
           NEW sent \in Seq(Ack), LeafDoes(sent), Follows(up, sent, up')
    PROVE  FirstTransfer'
PROOF
  <1>1. UNCHANGED <<mState, txCounter>> /\ Accepted' = Accepted
    BY DEF bridgeVars, Accepted
  <1>2. up \in Seq(Ack) /\ Len(up) \in Nat
    BY DEF IInv, AcksOK
  <1> SUFFICES ASSUME mState = "ANNOUNCING" \/ txCounter = 1
               PROVE  /\ \A j \in 1..Len(down') : down'[j].phase \in {"ANNOUNCE", "ABORT"}
                      /\ rxState' \in {"IDLE", "RECEIVING"}
                      /\ \A i \in 1..Len(up') : ~Good(up'[i])
    BY <1>1 DEF FirstTransfer, Good
  <1>3. /\ \A j \in 1..Len(down) : down[j].phase \in {"ANNOUNCE", "ABORT"}
        /\ rxState \in {"IDLE", "RECEIVING"}
        /\ \A i \in 1..Len(up) : ~Good(up[i])
    BY DEF FirstTransfer
  <1>4. \A j \in 1..Len(down') : down'[j].phase \in {"ANNOUNCE", "ABORT"}
    BY <1>3 DEF Kept
  <1>5. down # <<>> => down[1].phase \in {"ANNOUNCE", "ABORT"}
    <2>1. down # <<>> => 1 \in 1..Len(down)
      BY KeptFacts DEF IInv, FramesOK
    <2> QED BY <1>3, <2>1
  <1>6. rxState' \in {"IDLE", "RECEIVING"} /\ NoGood(sent)
    BY <1>3, <1>5 DEF LeafDoes, Holds, Writes, Opens, Verifies
  <1>7. ASSUME NEW i \in 1..Len(up') PROVE ~Good(up'[i])
    <2>1. PICK d \in 0..Len(up) :
             \/ i + d <= Len(up) /\ up'[i] = up[i + d]
             \/ sent # <<>> /\ up'[i] = sent[1]
      BY DEF Follows
    <2>2. i + d <= Len(up) => i + d \in 1..Len(up)
      BY <1>2
    <2>3. sent # <<>> => 1 \in 1..Len(sent)
      OBVIOUS
    <2> QED BY <1>3, <1>6, <2>1, <2>2, <2>3 DEF NoGood
  <1> QED BY <1>4, <1>6, <1>7

LEMMA NextFirst ==
    ASSUME MaxStartTx = 1
    PROVE  IInv /\ DeliveryInv /\ FirstTransfer /\ [Next]_vars => FirstTransfer'
PROOF
  <1> SUFFICES ASSUME IInv, DeliveryInv, FirstTransfer, [Next]_vars PROVE FirstTransfer'
    OBVIOUS
  <1>1. CASE UNCHANGED vars
    <2>1. UNCHANGED <<mState, txCounter, up, down, rxState>>
      BY <1>1 DEF vars, leafVars, bridgeVars
    <2> QED BY <2>1 DEF FirstTransfer, Accepted, Good
  <1>2. CASE \/ \E f \in Files : Start(f)
             \/ \E seq \in M!AllSeqs : SourceChunk(seq)
             \/ SourceAbort \/ BridgeLoop \/ GlobalTimer \/ TargetLost \/ AckArrives
    BY <1>2, BridgeActionsMove, BridgeEnters, BridgeFirst
  <1>3. CASE \/ FrameArrives \/ FrameRepeated
             \/ LeafCompleteAck \/ LeafSilence
             \/ FrameLost \/ AckLost
    BY <1>3, LeafActionsDo, LeafFirst DEF DeliveryInv
  <1>4. CASE LeafRestart \/ LeafPowerLoss \/ LeafSessionLost
    <2>1. /\ rxState' = "IDLE" /\ down' = <<>> /\ up' = <<>>
          /\ mState' = mState /\ txCounter' = txCounter
      BY <1>4, SessionEnds DEF DeliveryInv
    <2>2. Len(up') = 0 /\ Len(down') = 0
      BY <2>1
    <2> QED BY <2>1, <2>2 DEF FirstTransfer, Accepted
  <1> QED BY <1>1, <1>2, <1>3, <1>4 DEF Next

LEMMA InitFirst ==
    Init => FirstTransfer
PROOF
  <1> SUFFICES ASSUME Init PROVE FirstTransfer
    OBVIOUS
  <1>1. rxState = "IDLE" /\ mState = "IDLE" /\ down = <<>> /\ up = <<>>
    BY DEF Init, R!Init, M!Init
  <1> QED BY <1>1 DEF FirstTransfer, Accepted

\* SUCCESS of a transfer the leaf has accepted is the truth: whatever frames
\* and acks are lost, repeated or left over, of this transfer and of earlier
\* ones, the leaf holds the file, whole, when handle_complete_ reports it.
SuccessOnceAccepted ==
    [][Accepted /\ mPublic' = "SUCCESS" /\ mPublic # "SUCCESS" => LeafHasFile]_vars

\* From the leaf's verification to the arrival of its COMPLETE nothing is in
\* flight that could make the leaf erase a slot, and no COMPLETE of an
\* earlier transfer outlives the ACCEPT of this one.
THEOREM AcceptedSuccessIsTrue ==
    Spec => SuccessOnceAccepted
PROOF
  <1>1. IInv /\ DeliveryInv /\ [Next]_vars =>
          [Accepted /\ mPublic' = "SUCCESS" /\ mPublic # "SUCCESS" => LeafHasFile]_vars
    BY AcceptedSucceeds
  <1> QED BY <1>1, Invariance, InitDelivers, NextDelivers, PTL DEF Spec, SuccessOnceAccepted

\* SUCCESS of a bridge that starts one transfer is the truth at any time: no
\* COMPLETE can be about before its announce is accepted.
THEOREM FirstSuccessIsTrue ==
    ASSUME MaxStartTx = 1
    PROVE  Spec => SuccessMeansFlashed
PROOF
  <1>1. ASSUME IInv, DeliveryInv, FirstTransfer, Next,
               mPublic' = "SUCCESS", mPublic # "SUCCESS"
        PROVE  LeafHasFile
    <2>1. /\ up # <<>> /\ up \in Seq(Ack) /\ Good(Head(up))
          /\ M!OnFileAck(Head(up), SendResult(1))
      BY <1>1, OnlyCompleteSucceeds DEF AckArrives, IInv, AcksOK
    <2>2. 1 \in 1..Len(up) /\ Good(up[1])
      BY <2>1, KeptFacts
    <2>3. mState # "ANNOUNCING"
      BY <1>1, <2>2 DEF FirstTransfer
    <2>4. mState # "IDLE"
      BY <1>1, <2>1 DEF M!OnFileAck, M!HandleAccept, M!HandleGaps, M!HandleComplete,
                        M!HandleRejectOrAbort, M!AckIgnored, M!Busy, M!Nothing, Good
    <2>5. Accepted
      BY <1>1, <2>3, <2>4 DEF IInv, BridgeOK, Accepted
    <2> QED BY <1>1, <2>5, AcceptedSucceeds
  <1>2. IInv /\ DeliveryInv /\ FirstTransfer /\ [Next]_vars =>
          [mPublic' = "SUCCESS" /\ mPublic # "SUCCESS" =>
             \E s \in {0, 1} : slots[s] = R!Image(mFile)]_vars
    BY <1>1 DEF LeafHasFile
  <1>3. Init => FirstTransfer
    BY InitFirst
  <1>4. IInv /\ DeliveryInv /\ FirstTransfer /\ [Next]_vars => FirstTransfer'
    BY NextFirst
  <1> QED BY <1>2, <1>3, <1>4, Invariance, InitDelivers, NextDelivers, PTL
          DEF Spec, SuccessMeansFlashed

-----------------------------------------------------------------------------
(* The frames of the bridge are frames FileReceiver expects: chunks of a   *)
(* file, increments of a file.                                             *)

SeqsIn(f) == 0 .. (NumChunks[f] - 1)

\* What the bridge asks for and has queued belongs to the file it sends.
SourceOK ==
    /\ mState \in {"BLASTING", "WAITING_GAPS"} => mInc < Incs(mFile)
    /\ mState # "IDLE" => mRequested \subseteq SeqsIn(mFile) /\ mPending \subseteq SeqsIn(mFile)

Fits(m) ==
    /\ m.phase = "DATA" => m.file \in Files /\ m.n \in SeqsIn(m.file)
    /\ m.phase = "BLAST_COMPLETE" => m.n \in R!AllIncs /\ m.tx > 0

FitInv == SourceOK /\ \A j \in 1..Len(down) : Fits(down[j])

\* What a step of the bridge leaves and sends.
KeepsFit == SourceOK' /\ \A k \in 1..Len(mOut') : Fits(mOut'[k])

LEMMA SeqsFit ==
    ASSUME NEW f \in Files, NEW inc \in Nat, inc < Incs(f)
    PROVE  /\ SeqsOf(f, inc) \subseteq SeqsIn(f)
           /\ \A i \in 0 .. (NumInInc(f, inc) - 1) : IncrementStart(Cpi, inc) + i \in SeqsIn(f)
PROOF
  <1> DEFINE s == IncrementStart(Cpi, inc)
             e == IncrementEnd(NumChunks[f], Cpi, inc)
  <1>1. NumChunks[f] \in Nat \ {0} /\ Cpi \in Nat \ {0} /\ Incs(f) \in Nat
    BY IncsBounds, FilesAssumption
  <1>2. s \in Nat
    BY <1>1, StartFacts
  <1>3. NumInInc(f, inc) \in Nat \ {0} /\ e = s + NumInInc(f, inc)
    BY IncrementShape
  <1>4. e <= NumChunks[f]
    <2>1. inc + 1 >= Incs(f) => s + NumInInc(f, inc) = NumChunks[f]
      BY IncrementShape
    <2>2. inc + 1 < Incs(f) => s + Cpi < NumChunks[f] /\ NumInInc(f, inc) = Cpi
      <3>1. IncrementStart(Cpi, inc + 1) = s + Cpi
        BY <1>1, StartFacts
      <3>2. inc + 1 < Incs(f) =>
              NumInInc(f, inc) = Cpi /\ IncrementStart(Cpi, inc + 1) < NumChunks[f]
        BY IncrementShape
      <3> HIDE DEF s
      <3> QED BY <3>1, <3>2
    <2> HIDE DEF s, e
    <2> QED BY <1>1, <1>2, <1>3, <2>1, <2>2
  <1>5. SeqsOf(f, inc) = s .. (e - 1)
    BY Zenon DEF SeqsOf, IncrementSeqs
  <1> HIDE DEF s, e
  <1>6. /\ SeqsOf(f, inc) \subseteq SeqsIn(f)
        /\ \A i \in 0 .. (NumInInc(f, inc) - 1) : s + i \in SeqsIn(f)
    BY <1>1, <1>2, <1>3, <1>4, <1>5, SMTT(30) DEF SeqsIn
  <1> QED BY <1>6 DEF s

LEMMA SeqsOfBridge ==
    /\ \A f, inc : M!SeqsOf(f, inc) = SeqsOf(f, inc)
    /\ \A inc : M!IncrementStart(Cpi, inc) = IncrementStart(Cpi, inc)
  BY DEF M!SeqsOf, SeqsOf, M!IncrementSeqs, IncrementSeqs, M!IncrementEnd, IncrementEnd,
         M!ChunksInIncrement, ChunksInIncrement, M!ChunksInLast, ChunksInLast,
         M!TotalIncrements, TotalIncrements, M!IncrementStart, IncrementStart,
         M!AtLeastOne, AtLeastOne, M!U16, U16, M!CeilDiv, CeilDiv

LEMMA IncsInUse ==
    ASSUME NEW f \in Files, NEW inc \in Nat, inc < Incs(f)
    PROVE  inc \in R!AllIncs
PROOF
  <1>1. R!Incs(f) = Incs(f)
    BY GeometryOfLeaf
  <1>2. Incs(f) \in Nat
    BY IncsBounds
  <1>3. inc \in 0 .. (R!Incs(f) - 1)
    BY <1>1, <1>2
  <1> QED BY <1>3 DEF R!AllIncs

LEMMA FramesFit ==
    /\ Fits(Abort) /\ Fits(End)
    /\ \A f, tx : Fits(Announce(f, tx))
    /\ \A f \in Files : \A seq \in SeqsIn(f) : Fits(Data(f, seq))
    /\ \A inc \in R!AllIncs, tx \in Nat \ {0} : Fits(BlastComplete(inc, tx))
  BY DEF Fits, Abort, End, Announce, Data, BlastComplete

\* Sending nothing, a frame, a chunk and a BLAST_COMPLETE.
LEMMA SendsFit ==
    /\ mOut' = <<>> => \A k \in 1..Len(mOut') : Fits(mOut'[k])
    /\ \A m : mOut' = <<m>> /\ Fits(m) => \A k \in 1..Len(mOut') : Fits(mOut'[k])
  OBVIOUS

LEMMA EndsFit ==
    ASSUME NEW notify \in BOOLEAN, M!FailTransfer(notify)
    PROVE  KeepsFit
PROOF
  <1>1. mState' = "IDLE" /\ mOut' \in {<<>>, <<Abort>>}
    BY FramesOfBridge DEF M!FailTransfer, M!Reset
  <1>2. SourceOK'
    BY <1>1 DEF SourceOK
  <1>3. CASE mOut' = <<>>
    BY <1>2, <1>3, SendsFit DEF KeepsFit
  <1>4. CASE mOut' = <<Abort>>
    BY <1>2, <1>4, SendsFit, FramesFit DEF KeepsFit
  <1> QED BY <1>1, <1>3, <1>4

\* The sets of the source shrink, or stay, and nothing is sent.
LEMMA QuietFits ==
    ASSUME SourceOK, mOut' = <<>>, UNCHANGED <<mFile, mInc>>,
           mState # "IDLE", mState' = mState \/ mState' = "ENDING",
           mRequested' \subseteq mRequested, mPending' \subseteq mPending \cup mRequested
    PROVE  KeepsFit
  BY SendsFit DEF KeepsFit, SourceOK

LEMMA NothingFits ==
    ASSUME SourceOK, M!Nothing
    PROVE  KeepsFit
PROOF
  <1>1. mOut' = <<>> /\ UNCHANGED <<mState, mFile, mInc, mRequested, mPending>>
    BY DEF M!Nothing, M!roundVars
  <1> QED BY <1>1, SendsFit DEF KeepsFit, SourceOK

LEMMA StartFits ==
    ASSUME NEW f \in Files, NEW res, M!StartTransfer(f, res)
    PROVE  KeepsFit
PROOF
  <1>1. CASE M!FailTransfer(FALSE)
    BY <1>1, EndsFit
  <1>2. CASE ~M!FailTransfer(FALSE)
    <2>1. /\ mState' = "ANNOUNCING" /\ mRequested' = {} /\ mPending' = {}
          /\ mOut' = <<>> \/ mOut' = <<Announce(f, txCounter)>>
      BY <1>2, FramesOfBridge DEF M!StartTransfer, M!ResetTracker, M!AnnounceSent
    <2>2. SourceOK'
      BY <2>1 DEF SourceOK
    <2>3. Fits(Announce(f, txCounter))
      BY FramesFit
    <2> QED BY <2>1, <2>2, <2>3, SendsFit DEF KeepsFit
  <1> QED BY <1>1, <1>2

LEMMA SendAnnounceFits ==
    ASSUME SourceOK, NEW res, M!SendAnnounce(res)
    PROVE  KeepsFit
PROOF
  <1>1. CASE M!AnnounceSent(mFile, mAttempts) /\ UNCHANGED <<mState, mFile, mInc, M!roundVars>>
    <2>1. /\ mOut' = <<Announce(mFile, txCounter)>>
          /\ UNCHANGED <<mState, mFile, mInc, mRequested, mPending>>
      BY <1>1, FramesOfBridge DEF M!AnnounceSent, M!roundVars
    <2>2. Fits(Announce(mFile, txCounter))
      BY FramesFit
    <2> QED BY <2>1, <2>2, SendsFit DEF KeepsFit, SourceOK
  <1>2. \/ M!AnnounceSent(mFile, mAttempts) /\ UNCHANGED <<mState, mFile, mInc, M!roundVars>>
        \/ M!FailTransfer(TRUE) \/ M!FailTransfer(FALSE) \/ M!Nothing
    BY DEF M!SendAnnounce
  <1> QED BY <1>1, <1>2, EndsFit, NothingFits

LEMMA SourceChunkFits ==
    ASSUME SourceOK, NEW seq, M!OnSourceChunk(seq)
    PROVE  KeepsFit
PROOF
  <1>1. /\ seq \in mRequested /\ mState = "BLASTING" /\ mOut' = <<>>
        /\ mPending' = mPending \cup {seq} /\ mRequested' = mRequested \ {seq}
        /\ UNCHANGED <<mState, mFile, mInc>>
    BY DEF M!OnSourceChunk, M!ChunkExpected
  <1> QED BY <1>1, QuietFits

\* The end of a round, behind its last chunk or alone.
LEMMA RoundEndFits ==
    ASSUME IInv, SourceOK, NEW res, NEW before, M!SendBlastComplete(res, before),
           mState \in {"BLASTING", "WAITING_GAPS"},
           mRequested' \subseteq mRequested, mPending' \subseteq mPending,
           before = <<>> \/ \E seq \in SeqsIn(mFile) : before = <<Data(mFile, seq)>>
    PROVE  KeepsFit
PROOF
  <1>1. /\ mFile \in Files /\ mInc \in Nat /\ mInc < Incs(mFile) /\ txCounter \in Nat \ {0}
        /\ NumChunks[mFile] \in Nat
    BY IncsBounds DEF IInv, BridgeOK, SourceOK
  <1>2. /\ mState' \in {mState, "WAITING_GAPS"} /\ UNCHANGED <<mFile, mInc>>
        /\ mOut' = before \/ mOut' = before \o <<BlastComplete(mInc, txCounter)>>
    BY FramesOfBridge DEF M!SendBlastComplete
  <1>3. SourceOK'
    BY <1>2 DEF SourceOK
  <1>4. PICK b \in Frame : b = BlastComplete(mInc, txCounter) /\ Fits(b)
    <2>1. BlastComplete(mInc, txCounter) \in Frame
      BY <1>1, FramesTyped DEF IInv
    <2>2. Fits(BlastComplete(mInc, txCounter))
      BY <1>1, IncsInUse, FramesFit
    <2> QED BY <2>1, <2>2
  <1>5. CASE before = <<>>
    <2>1. mOut' = <<>> \/ mOut' = <<b>>
      BY <1>2, <1>4, <1>5
    <2> QED BY <1>3, <1>4, <2>1, SendsFit DEF KeepsFit
  <1>6. CASE \E seq \in SeqsIn(mFile) : before = <<Data(mFile, seq)>>
    <2>1. PICK seq \in SeqsIn(mFile) : before = <<Data(mFile, seq)>>
      BY <1>6
    <2>2. PICK d \in Frame : d = Data(mFile, seq) /\ Fits(d)
      <3>1. seq \in Nat
        BY <1>1 DEF SeqsIn
      <3>2. Data(mFile, seq) \in Frame
        BY <1>1, <3>1, FramesTyped DEF IInv
      <3>3. Fits(Data(mFile, seq))
        BY <1>1, FramesFit
      <3> QED BY <3>2, <3>3
    <2>3. mOut' = <<d>> \/ mOut' = <<d>> \o <<b>>
      BY <1>2, <1>4, <2>1, <2>2
    <2>4. \A k \in 1..Len(mOut') : Fits(mOut'[k])
      <3>1. CASE mOut' = <<d>>
        BY <2>2, <3>1, SendsFit
      <3>2. CASE mOut' = <<d>> \o <<b>>
        <4>1. \A k \in 1..Len(mOut') : mOut'[k] = d \/ mOut'[k] = b
          BY <3>2, TwoFrames
        <4> QED BY <1>4, <2>2, <4>1
      <3> QED BY <2>3, <3>1, <3>2
    <2> QED BY <1>3, <2>4 DEF KeepsFit
  <1> QED BY <1>5, <1>6

LEMMA PumpChunkFits ==
    ASSUME IInv, SourceOK, NEW seq, NEW res, M!PumpChunk(seq, res)
    PROVE  KeepsFit
PROOF
  <1>1. mState = "BLASTING" /\ mFile \in Files /\ seq \in mPending /\ seq \in SeqsIn(mFile)
    BY DEF M!PumpChunk, SourceOK, IInv, BridgeOK
  <1>2. M!Data(mFile, seq) = Data(mFile, seq)
    BY FramesOfBridge
  <1>3. CASE M!FailTransfer(FALSE)
    BY <1>3, EndsFit
  <1>4. CASE /\ M!SendBlastComplete(res, <<Data(mFile, seq)>>)
             /\ mRequested' = mRequested /\ mPending' = {}
    BY <1>1, <1>4, RoundEndFits
  <1>5. CASE /\ mOut' = <<Data(mFile, seq)>> /\ mPending' \subseteq mPending
             /\ UNCHANGED <<mState, mFile, mInc, mRequested>>
    <2>1. Fits(Data(mFile, seq))
      BY <1>1, FramesFit
    <2>2. SourceOK'
      BY <1>5 DEF SourceOK
    <2> QED BY <1>5, <2>1, <2>2, SendsFit DEF KeepsFit
  <1> QED BY <1>2, <1>3, <1>4, <1>5 DEF M!PumpChunk

LEMMA RoundEndsFit ==
    ASSUME IInv, SourceOK, NEW res, M!PumpBlastComplete(res) \/ M!RetryBlastComplete(res)
    PROVE  KeepsFit
PROOF
  <1>1. mState \in {"BLASTING", "WAITING_GAPS"}
    BY DEF M!PumpBlastComplete, M!RetryBlastComplete
  <1>2. \/ M!SendBlastComplete(res, <<>>) /\ UNCHANGED <<mRequested, mPending>>
        \/ M!FailTransfer(TRUE) \/ M!FailTransfer(FALSE)
    BY DEF M!PumpBlastComplete, M!RetryBlastComplete, M!roundVars
  <1>3. CASE M!SendBlastComplete(res, <<>>) /\ UNCHANGED <<mRequested, mPending>>
    BY <1>1, <1>3, RoundEndFits
  <1> QED BY <1>2, <1>3, EndsFit

LEMMA SendEndFits ==
    ASSUME SourceOK, mState # "IDLE", NEW n, NEW res, M!SendEnd(n, res)
    PROVE  KeepsFit
PROOF
  <1>1. \/ M!FailTransfer(TRUE) \/ M!FailTransfer(FALSE)
        \/ /\ mState' = "ENDING" /\ mOut' = <<End>>
           /\ UNCHANGED <<mFile, mRequested, mPending>>
    BY FramesOfBridge DEF M!SendEnd, M!roundVars
  <1>2. CASE /\ mState' = "ENDING" /\ mOut' = <<End>>
             /\ UNCHANGED <<mFile, mRequested, mPending>>
    <2>1. SourceOK'
      BY <1>2 DEF SourceOK
    <2>2. Fits(End)
      BY FramesFit
    <2> QED BY <1>2, <2>1, <2>2, SendsFit DEF KeepsFit
  <1> QED BY <1>1, <1>2, EndsFit

LEMMA NewRoundFits ==
    ASSUME mFile \in Files, NEW inc \in Nat, inc < Incs(mFile), mState # "IDLE", SourceOK,
           NEW wanted, wanted \subseteq SeqsIn(mFile),
           mState' = "BLASTING", mInc' = inc, mRequested' = wanted, mOut' = <<>>,
           UNCHANGED <<mFile, mPending>>
    PROVE  KeepsFit
  BY SendsFit DEF KeepsFit, SourceOK

LEMMA AcceptFits ==
    ASSUME IInv, SourceOK, NEW ack, M!HandleAccept(ack)
    PROVE  KeepsFit
PROOF
  <1>1. CASE M!FailTransfer(TRUE)
    BY <1>1, EndsFit
  <1>2. CASE ~M!FailTransfer(TRUE)
    <2>1. /\ mState = "ANNOUNCING" /\ mState' = "BLASTING" /\ mInc' = 0
          /\ mRequested' = SeqsOf(mFile, 0) /\ mOut' = <<>> /\ UNCHANGED <<mFile, mPending>>
      BY <1>2, SeqsOfBridge DEF M!HandleAccept
    <2>2. mFile \in Files /\ 0 < Incs(mFile) /\ 0 \in Nat
      BY <2>1, IncsBounds DEF IInv, BridgeOK
    <2>3. SeqsOf(mFile, 0) \subseteq SeqsIn(mFile)
      BY <2>2, SeqsFit
    <2> QED BY <2>1, <2>2, <2>3, NewRoundFits
  <1> QED BY <1>1, <1>2

LEMMA GapsFits ==
    ASSUME IInv, SourceOK, up # <<>>, NEW res, M!HandleGaps(Head(up), res)
    PROVE  KeepsFit
PROOF
  <1>1. Head(up) = up[1] /\ 1 \in 1..Len(up)
    BY KeptFacts DEF IInv, AcksOK
  <1>2. /\ mState = "WAITING_GAPS" /\ Reports(1)
        /\ \/ M!FailTransfer(TRUE)
           \/ up[1].clear /\ M!GapsClear(res)
           \/ ~up[1].clear /\ M!GapsMissing(up[1].got)
    BY <1>1 DEF M!HandleGaps, M!InHistory, Reports, Hist
  <1>3. /\ mFile \in Files /\ mInc \in Nat /\ mInc < Incs(mFile) /\ Incs(mFile) \in Nat
        /\ mState # "IDLE"
    BY <1>2, IncsBounds DEF IInv, BridgeOK, SourceOK
  <1>4. CASE M!GapsClear(res)
    <2>1. CASE M!SendEnd(0, res)
      BY <1>3, <2>1, SendEndFits
    <2>2. CASE ~M!SendEnd(0, res)
      <3>1. /\ mInc + 1 < Incs(mFile) /\ mInc + 1 \in Nat
            /\ mState' = "BLASTING" /\ mInc' = mInc + 1 /\ mOut' = <<>>
            /\ mRequested' = SeqsOf(mFile, mInc + 1) /\ UNCHANGED <<mFile, mPending>>
        BY <1>3, <1>4, <2>2, SeqsOfBridge, GeometryOfBridge
           DEF M!GapsClear, M!IsLastIncrement, M!BlastRound
      <3>2. SeqsOf(mFile, mInc + 1) \subseteq SeqsIn(mFile)
        BY <1>3, <3>1, SeqsFit
      <3> QED BY <1>3, <3>1, <3>2, NewRoundFits
    <2> QED BY <2>1, <2>2
  <1>5. CASE ~up[1].clear /\ M!GapsMissing(up[1].got)
    <2>1. ~(Indices \subseteq up[1].got)
      BY <1>1, <1>2, <1>5 DEF IInv, ReportsTrue, Accepted
    <2>2. PICK wanted :
            wanted = {IncrementStart(Cpi, mInc) + i : i \in Indices \ up[1].got}
      OBVIOUS
    <2>3. M!MissingIn(up[1].got) = wanted /\ wanted # {}
      BY <2>1, <2>2, GeometryOfBridge, SeqsOfBridge DEF M!MissingIn, Indices
    <2>4. wanted \subseteq SeqsIn(mFile)
      <3>1. \A i \in Indices : IncrementStart(Cpi, mInc) + i \in SeqsIn(mFile)
        BY <1>3, SeqsFit DEF Indices
      <3> QED BY <2>2, <3>1
    <2>5. \/ M!FailTransfer(TRUE)
          \/ /\ mState' = "BLASTING" /\ mInc' = mInc /\ mOut' = <<>>
             /\ mRequested' = wanted /\ UNCHANGED <<mFile, mPending>>
      BY <1>5, <2>3 DEF M!GapsMissing, M!BlastRound
    <2> QED BY <1>3, <2>4, <2>5, EndsFit, NewRoundFits
  <1> QED BY <1>2, <1>4, <1>5, EndsFit

LEMMA OnFileAckFits ==
    ASSUME IInv, SourceOK, up # <<>>, NEW res, M!OnFileAck(Head(up), res)
    PROVE  KeepsFit
PROOF
  <1>1. CASE M!HandleComplete(Head(up))
    <2>1. CASE M!FailTransfer(FALSE)
      BY <2>1, EndsFit
    <2>2. CASE ~M!FailTransfer(FALSE)
      <3>1. mState' = "IDLE" /\ mOut' = <<>>
        BY <1>1, <2>2 DEF M!HandleComplete, M!Reset
      <3> QED BY <3>1, SendsFit DEF KeepsFit, SourceOK
    <2> QED BY <2>1, <2>2
  <1>2. M!HandleRejectOrAbort(Head(up)) => M!FailTransfer(FALSE)
    BY DEF M!HandleRejectOrAbort
  <1>3. M!AckIgnored(Head(up)) => M!Nothing
    BY DEF M!AckIgnored
  <1> QED BY <1>1, <1>2, <1>3, AcceptFits, GapsFits, EndsFit, NothingFits DEF M!OnFileAck

LEMMA BridgeActionsFit ==
    ASSUME IInv, SourceOK,
           \/ \E f \in Files : Start(f)
           \/ \E seq \in M!AllSeqs : SourceChunk(seq)
           \/ SourceAbort \/ BridgeLoop \/ GlobalTimer \/ TargetLost \/ AckArrives
    PROVE  KeepsFit
PROOF
  <1>1. ASSUME NEW f \in Files, Start(f) PROVE KeepsFit
    BY <1>1, StartFits DEF Start, BridgeStep
  <1>2. ASSUME NEW seq, SourceChunk(seq) PROVE KeepsFit
    BY <1>2, SourceChunkFits DEF SourceChunk, BridgeStep
  <1>3. ASSUME SourceAbort \/ GlobalTimer \/ TargetLost \/ SilenceTimer PROVE KeepsFit
    BY <1>3, EndsFit
       DEF SourceAbort, GlobalTimer, TargetLost, SilenceTimer, BridgeStep,
           M!OnSourceAbort, M!LoopGlobalTimeout, M!LoopUnreachable, M!LoopSilence
  <1>4. ASSUME AnnounceTimer PROVE KeepsFit
    BY <1>4, SendAnnounceFits DEF AnnounceTimer, BridgeStep
  <1>5. ASSUME NEW seq, SendChunk(seq) PROVE KeepsFit
    BY <1>5, PumpChunkFits DEF SendChunk, BridgeStep
  <1>6. ASSUME SendRoundEnd \/ BlastTimer PROVE KeepsFit
    BY <1>6, RoundEndsFit DEF SendRoundEnd, BlastTimer, BridgeStep
  <1>7. ASSUME EndTimer PROVE KeepsFit
    BY <1>7, SendEndFits DEF EndTimer, BridgeStep, M!RetryEnd
  <1>8. ASSUME AckArrives PROVE KeepsFit
    BY <1>8, OnFileAckFits DEF AckArrives
  <1> QED BY <1>1, <1>2, <1>3, <1>4, <1>5, <1>6, <1>7, <1>8 DEF BridgeLoop

LEMMA NextFits ==
    IInv /\ FitInv /\ [Next]_vars => FitInv'
PROOF
  <1> SUFFICES ASSUME IInv, FitInv, [Next]_vars PROVE FitInv'
    OBVIOUS
  <1>1. down \in Seq(Frame)
    BY DEF IInv, FramesOK
  <1>2. ASSUME UNCHANGED <<bridgeVars>>, Kept(down, down') PROVE FitInv'
    <2>1. UNCHANGED <<mState, mFile, mInc, mRequested, mPending>>
      BY <1>2 DEF bridgeVars
    <2> QED BY <1>2, <2>1 DEF FitInv, SourceOK, Kept
  <1>3. CASE UNCHANGED vars
    <2>1. UNCHANGED <<bridgeVars, down>>
      BY <1>3 DEF vars
    <2> QED BY <1>1, <1>2, <2>1, KeptFacts
  <1>4. CASE \/ \E f \in Files : Start(f)
             \/ \E seq \in M!AllSeqs : SourceChunk(seq)
             \/ SourceAbort \/ BridgeLoop \/ GlobalTimer \/ TargetLost \/ AckArrives
    <2>1. KeepsFit
      BY <1>4, BridgeActionsFit DEF FitInv
    <2>2. Grown(down, mOut', down')
      BY <1>4, BridgeActionsMove, SendsAround DEF BridgeAround, AroundBridge
    <2> QED BY <2>1, <2>2 DEF FitInv, KeepsFit, Grown
  <1>5. CASE \/ FrameArrives \/ FrameRepeated
             \/ LeafCompleteAck \/ LeafSilence
             \/ LeafRestart \/ LeafPowerLoss \/ LeafSessionLost
             \/ FrameLost \/ AckLost
    <2>1. UNCHANGED bridgeVars
      BY <1>5 DEF FrameArrives, FrameRepeated, LeafCompleteAck, LeafSilence, LeafStep,
                  LeafRestart, LeafPowerLoss, LeafSessionLost, NewSession, FrameLost, AckLost
    <2>2. down' = down \/ down' = <<>> \/ (down # <<>> /\ down' = Tail(down))
      BY <1>5 DEF FrameArrives, FrameRepeated, LeafCompleteAck, LeafSilence, LeafStep,
                  LeafRestart, LeafPowerLoss, LeafSessionLost, NewSession, FrameLost, AckLost
    <2> QED BY <1>2, <2>1, <2>2, DownAround
  <1> QED BY <1>3, <1>4, <1>5 DEF Next

LEMMA InitFits ==
    Init => FitInv
PROOF
  <1> SUFFICES ASSUME Init PROVE FitInv
    OBVIOUS
  <1>1. mState = "IDLE" /\ down = <<>>
    BY DEF Init, M!Init
  <1> QED BY <1>1 DEF FitInv, SourceOK

-----------------------------------------------------------------------------
(* The leaf of a transfer is the FileReceiver, whose theorems therefore    *)
(* hold of it.                                                             *)

\* Any number the bridge gives out is a counter.
CountersAssumed == Nat \ {0} \subseteq TxCounters

LEMMA FrameIsExpected ==
    ASSUME CountersAssumed, IInv, FitInv, down # <<>>, HandleFrame(Head(down))
    PROVE  /\ ~Esp8266 => R!FrameArrives
           /\ Esp8266 => R!FrameArrives8266
PROOF
  <1>1. /\ Head(down) = down[1] /\ 1 \in 1..Len(down)
        /\ down[1] \in Frame /\ Fits(down[1])
        /\ down[1].phase = "ANNOUNCE" => down[1].tx > 0 /\ down[1].file \in Files
    <2>1. /\ down \in Seq(Frame) /\ \A j \in 1..Len(down) : Fits(down[j])
          /\ \A j \in 1..Len(down) :
               down[j].phase = "ANNOUNCE" => down[j].tx > 0 /\ down[j].file \in Files
      BY DEF IInv, FramesOK, FitInv
    <2> QED BY <2>1, KeptFacts
  <1>2. down[1].tx \in Nat /\ (down[1].tx > 0 => down[1].tx \in TxCounters)
    <2>1. down[1].tx \in Nat
      BY <1>1 DEF Frame
    <2> QED BY <2>1 DEF CountersAssumed
  <1>3. CASE /\ down[1].phase = "ANNOUNCE"
             /\ LeafHandlesAnnounce(down[1].file, down[1].tx)
    BY <1>1, <1>2, <1>3 DEF LeafHandlesAnnounce, R!FrameArrives, R!FrameArrives8266
  <1>4. CASE /\ down[1].phase = "DATA"
             /\ R!HandleFileData(down[1].file, down[1].n)
    <2>1. down[1].file \in Files /\ down[1].n \in 0 .. (NumChunks[down[1].file] - 1)
      BY <1>1, <1>4 DEF Fits, SeqsIn
    <2> QED BY <1>4, <2>1 DEF R!FrameArrives, R!FrameArrives8266, R!HandleFileData8266
  <1>5. CASE /\ down[1].phase = "BLAST_COMPLETE"
             /\ R!HandleBlastComplete(down[1].n, down[1].tx)
    <2>1. down[1].n \in R!AllIncs /\ down[1].tx \in TxCounters
      BY <1>1, <1>2, <1>5 DEF Fits
    <2> QED BY <1>5, <2>1
            DEF R!FrameArrives, R!FrameArrives8266, R!HandleBlastComplete8266
  <1>6. CASE R!HandleEnd \/ R!HandleAbort
    BY <1>6
       DEF R!FrameArrives, R!FrameArrives8266, R!HandleEnd, R!HandleEnd8266,
           R!EndVerified8266, R!EndRejected8266, R!HandleAbort8266
  <1> QED BY <1>1, <1>3, <1>4, <1>5, <1>6 DEF HandleFrame

LEMMA LeafSteps ==
    ASSUME CountersAssumed, IInv, FitInv, [Next]_vars
    PROVE  /\ ~Esp8266 => [R!Next]_(R!rxVars)
           /\ Esp8266 => [R!Next8266]_(R!rxVars)
PROOF
  <1>1. ASSUME UNCHANGED leafVars PROVE UNCHANGED R!rxVars
    BY <1>1 DEF leafVars, R!rxVars, R!sessionVars, R!flashVars
  <1>2. CASE UNCHANGED vars
    BY <1>1, <1>2 DEF vars
  <1>3. CASE \/ \E f \in Files : Start(f)
             \/ \E seq \in M!AllSeqs : SourceChunk(seq)
             \/ SourceAbort \/ BridgeLoop \/ GlobalTimer \/ TargetLost \/ AckArrives
    BY <1>1, <1>3, BridgeActionsMove DEF BridgeAround
  <1>4. CASE FrameArrives \/ FrameRepeated
    BY <1>4, FrameIsExpected DEF FrameArrives, FrameRepeated, R!Next, R!Next8266
  <1>5. CASE LeafCompleteAck \/ LeafSilence \/ LeafSessionLost
    BY <1>5
       DEF LeafCompleteAck, LeafSilence, LeafSessionLost, LeafStep, NewSession,
           R!Next, R!Next8266, R!Loop, R!SendCompleteAck8266, R!SilenceTimeout8266,
           R!SessionCleared8266
  <1>6. CASE LeafRestart \/ LeafPowerLoss
    BY <1>6
       DEF LeafRestart, LeafPowerLoss, NewSession, LeafRestarts, LeafLosesPower,
           R!Next, R!Next8266, R!Loop
  <1>7. CASE FrameLost \/ AckLost
    BY <1>1, <1>7 DEF FrameLost, AckLost
  <1> QED BY <1>2, <1>3, <1>4, <1>5, <1>6, <1>7 DEF Next

\* The transfer implements the open module FileReceiver: the real bridge sends
\* the leaf nothing but what Next there lets arrive, chunks of a file and
\* increments of one, however frames and acks are lost, repeated or left over.
THEOREM LeafIsReceiver ==
    ASSUME CountersAssumed
    PROVE  /\ ~Esp8266 => (Spec => R!Spec)
           /\ Esp8266 => (Spec => R!Spec8266)
PROOF
  <1>1. Init => R!Init
    BY DEF Init
  <1>2. CASE ~Esp8266
    <2>1. IInv /\ FitInv /\ [Next]_vars => [R!Next]_(R!rxVars)
      BY <1>2, LeafSteps
    <2>2. Spec => R!Spec
      BY <1>1, <2>1, Invariance, InitFits, NextFits, PTL DEF Spec, R!Spec
    <2> QED BY <1>2, <2>2
  <1>3. CASE Esp8266
    <2>1. IInv /\ FitInv /\ [Next]_vars => [R!Next8266]_(R!rxVars)
      BY <1>3, LeafSteps
    <2>2. Spec => R!Spec8266
      BY <1>1, <2>1, Invariance, InitFits, NextFits, PTL DEF Spec, R!Spec8266
    <2> QED BY <1>3, <2>2
  <1> QED BY <1>2, <1>3

\* The theorems of the receiver are about the same operators.
P == INSTANCE FileReceiverProofs

LEMMA SameAnnounce ==
    \A f, tx : /\ R!HandleAnnounce(f, tx) <=> P!HandleAnnounce(f, tx)
               /\ R!HandleAnnounce8266(f, tx) <=> P!HandleAnnounce8266(f, tx)
PROOF
  <1>1. ASSUME NEW f, NEW tx PROVE R!HandleAnnounce(f, tx) <=> P!HandleAnnounce(f, tx)
    BY DEF R!HandleAnnounce, P!HandleAnnounce, R!AnnounceRefused, P!AnnounceRefused,
           R!AnnounceWhileActive, P!AnnounceWhileActive, R!AnnounceAccepted,
           P!AnnounceAccepted, R!AnnounceUnacked, P!AnnounceUnacked, R!Reply, P!Reply,
           R!NoReply, P!NoReply, R!EmptyBuf, P!EmptyBuf, R!Erased, P!Erased,
           R!UpdateSlot, P!UpdateSlot, R!ResetTransfer, P!ResetTransfer,
           R!PlainAck, P!PlainAck, R!flashVars, P!flashVars
  <1>2. ASSUME NEW f, NEW tx
        PROVE  R!HandleAnnounce8266(f, tx) <=> P!HandleAnnounce8266(f, tx)
    BY DEF R!HandleAnnounce8266, P!HandleAnnounce8266, R!AnnounceRefused8266,
           P!AnnounceRefused8266, R!AnnounceWhileActive, P!AnnounceWhileActive,
           R!AnnounceAccepted8266, P!AnnounceAccepted8266, R!AnnounceUnacked8266,
           P!AnnounceUnacked8266, R!Unstaged, P!Unstaged, R!Reply, P!Reply,
           R!NoReply, P!NoReply, R!EmptyBuf, P!EmptyBuf, R!Erased, P!Erased,
           R!UpdateSlot, P!UpdateSlot, R!ResetTransfer, P!ResetTransfer,
           R!PlainAck, P!PlainAck, R!flashVars, P!flashVars
  <1> QED BY <1>1, <1>2

LEMMA SameData ==
    \A f, seq : R!HandleFileData(f, seq) <=> P!HandleFileData(f, seq)
  BY DEF R!HandleFileData, P!HandleFileData, R!DataBuffered, P!DataBuffered,
         R!DataDropped, P!DataDropped, R!ChunkWanted, P!ChunkWanted, R!SeqsOf, P!SeqsOf,
         R!IncrementSeqs, P!IncrementSeqs, R!IncrementEnd, P!IncrementEnd,
         R!ChunksInIncrement, P!ChunksInIncrement, R!ChunksInLast, P!ChunksInLast,
         R!TotalIncrements, P!TotalIncrements, R!IncrementStart, P!IncrementStart,
         R!AtLeastOne, P!AtLeastOne, R!U16, P!U16, R!CeilDiv, P!CeilDiv,
         R!NoReply, P!NoReply, R!sessionVars, P!sessionVars, R!flashVars, P!flashVars

LEMMA SameBlastComplete ==
    \A inc, tx : R!HandleBlastComplete(inc, tx) <=> P!HandleBlastComplete(inc, tx)
  BY DEF R!HandleBlastComplete, P!HandleBlastComplete, R!BlastCompleteOld,
         P!BlastCompleteOld, R!AlreadyCommitted, P!AlreadyCommitted, R!ClearAck, P!ClearAck,
         R!BlastCompleteWrite, P!BlastCompleteWrite, R!BufferComplete, P!BufferComplete,
         R!NumInInc, P!NumInInc, R!ChunksInIncrement, P!ChunksInIncrement,
         R!ChunksInLast, P!ChunksInLast, R!TotalIncrements, P!TotalIncrements,
         R!IncrementStart, P!IncrementStart, R!AtLeastOne, P!AtLeastOne, R!U16, P!U16,
         R!CeilDiv, P!CeilDiv, R!IncrementWritten, P!IncrementWritten, R!MagicOk, P!MagicOk,
         R!Flash, P!Flash, R!WriteOutcomes, P!WriteOutcomes, R!Buffered, P!Buffered,
         R!Incs, P!Incs, R!IncrementWriteFailed, P!IncrementWriteFailed,
         R!AbortTransfer, P!AbortTransfer, R!BlastCompleteGaps, P!BlastCompleteGaps,
         R!RoundsExhausted, P!RoundsExhausted, R!GapsAck, P!GapsAck,
         R!BlastCompleteIgnored, P!BlastCompleteIgnored, R!Reply, P!Reply,
         R!NoReply, P!NoReply, R!EmptyBuf, P!EmptyBuf, R!UpdateSlot, P!UpdateSlot,
         R!ResetTransfer, P!ResetTransfer, R!PlainAck, P!PlainAck, R!flashVars, P!flashVars

LEMMA SameEnds ==
    /\ R!HandleEnd <=> P!HandleEnd
    /\ R!HandleAbort <=> P!HandleAbort
    /\ R!SendCompleteAck <=> P!SendCompleteAck
    /\ R!SilenceTimeout <=> P!SilenceTimeout
    /\ R!SessionCleared <=> P!SessionCleared
PROOF
  <1>1. R!HandleEnd <=> P!HandleEnd
    BY DEF R!HandleEnd, P!HandleEnd, R!EndVerified, P!EndVerified, R!ImageVerified,
           P!ImageVerified, R!RightLength, P!RightLength, R!Image, P!Image, R!Flash, P!Flash,
           R!UpdateSlot, P!UpdateSlot, R!EndRejected, P!EndRejected, R!EndIgnored,
           P!EndIgnored, R!CompleteAck, P!CompleteAck, R!PlainAck, P!PlainAck,
           R!Reply, P!Reply, R!NoReply, P!NoReply, R!EmptyBuf, P!EmptyBuf,
           R!ResetTransfer, P!ResetTransfer, R!sessionVars, P!sessionVars,
           R!flashVars, P!flashVars
  <1>2. /\ R!HandleAbort <=> P!HandleAbort
        /\ R!SilenceTimeout <=> P!SilenceTimeout
        /\ R!SessionCleared <=> P!SessionCleared
    BY DEF R!HandleAbort, P!HandleAbort, R!SilenceTimeout, P!SilenceTimeout,
           R!SessionCleared, P!SessionCleared, R!AbortTransfer, P!AbortTransfer,
           R!PlainAck, P!PlainAck, R!Reply, P!Reply, R!NoReply, P!NoReply,
           R!EmptyBuf, P!EmptyBuf, R!ResetTransfer, P!ResetTransfer,
           R!sessionVars, P!sessionVars, R!flashVars, P!flashVars
  <1>3. R!SendCompleteAck <=> P!SendCompleteAck
    BY DEF R!SendCompleteAck, P!SendCompleteAck, R!CompleteAck, P!CompleteAck,
           R!PlainAck, P!PlainAck, R!Reply, P!Reply, R!EmptyBuf, P!EmptyBuf,
           R!ResetTransfer, P!ResetTransfer, R!flashVars, P!flashVars
  <1> QED BY <1>1, <1>2, <1>3

LEMMA SameBoot ==
    /\ R!Restart <=> P!Restart
    /\ R!PowerLoss <=> P!PowerLoss
    /\ R!Restart8266 <=> P!Restart8266
    /\ R!PowerLoss8266 <=> P!PowerLoss8266
PROOF
  <1>1. R!Reboot <=> P!Reboot
    BY DEF R!Reboot, P!Reboot, R!Bootable, P!Bootable, R!IsImage, P!IsImage,
           R!Image, P!Image, R!NoReply, P!NoReply, R!EmptyBuf, P!EmptyBuf,
           R!ResetTransfer, P!ResetTransfer
  <1>2. \A applied : R!Reboot8266(applied) <=> P!Reboot8266(applied)
    BY DEF R!Reboot8266, P!Reboot8266, R!CopiedAtBoot, P!CopiedAtBoot,
           R!NoReply, P!NoReply, R!EmptyBuf, P!EmptyBuf, R!ResetTransfer, P!ResetTransfer
  <1> QED BY <1>1, <1>2
          DEF R!Restart, P!Restart, R!PowerLoss, P!PowerLoss, R!Restart8266, P!Restart8266,
              R!PowerLoss8266, P!PowerLoss8266

LEMMA SameReceiver ==
    /\ R!rxVars = P!rxVars
    /\ R!Init <=> P!Init
    /\ R!Next <=> P!Next
    /\ R!Next8266 <=> P!Next8266
PROOF
  <1>1. R!rxVars = P!rxVars
    BY DEF R!rxVars, P!rxVars, R!sessionVars, P!sessionVars, R!flashVars, P!flashVars
  <1>2. R!Init <=> P!Init
    BY DEF R!Init, P!Init, R!EmptyBuf, P!EmptyBuf, R!Image, P!Image
  <1>3. R!AllIncs = P!AllIncs
    BY DEF R!AllIncs, P!AllIncs, R!Incs, P!Incs, R!TotalIncrements, P!TotalIncrements,
           R!AtLeastOne, P!AtLeastOne, R!U16, P!U16, R!CeilDiv, P!CeilDiv
  <1>4. R!FrameArrives <=> P!FrameArrives
    BY <1>3, SameAnnounce, SameData, SameBlastComplete, SameEnds
       DEF R!FrameArrives, P!FrameArrives
  <1>5. R!FrameArrives8266 <=> P!FrameArrives8266
    <2>1. /\ \A f, seq : R!HandleFileData8266(f, seq) <=> P!HandleFileData8266(f, seq)
          /\ \A inc, tx :
               R!HandleBlastComplete8266(inc, tx) <=> P!HandleBlastComplete8266(inc, tx)
          /\ R!HandleAbort8266 <=> P!HandleAbort8266
      BY SameData, SameBlastComplete, SameEnds
         DEF R!HandleFileData8266, P!HandleFileData8266, R!HandleBlastComplete8266,
             P!HandleBlastComplete8266, R!HandleAbort8266, P!HandleAbort8266
    <2>2. R!HandleEnd8266 <=> P!HandleEnd8266
      <3>1. R!HandleEnd8266 <=> R!HandleEnd
        BY DEF R!HandleEnd8266, R!HandleEnd, R!EndVerified8266, R!EndRejected8266
      <3>2. P!HandleEnd8266 <=> P!HandleEnd
        BY DEF P!HandleEnd8266, P!HandleEnd, P!EndVerified8266, P!EndRejected8266
      <3> QED BY <3>1, <3>2, SameEnds
    <2> QED BY <1>3, <2>1, <2>2, SameAnnounce DEF R!FrameArrives8266, P!FrameArrives8266
  <1>6. R!Next <=> P!Next
    BY <1>4, SameEnds, SameBoot DEF R!Next, P!Next, R!Loop, P!Loop
  <1>7. R!Next8266 <=> P!Next8266
    BY <1>5, SameEnds, SameBoot
       DEF R!Next8266, P!Next8266, R!SendCompleteAck8266, P!SendCompleteAck8266,
           R!SilenceTimeout8266, P!SilenceTimeout8266, R!SessionCleared8266,
           P!SessionCleared8266
  <1> QED BY <1>1, <1>2, <1>6, <1>7

LEMMA SameProperties ==
    /\ R!HandlerFollowsReceiver <=> P!HandlerFollowsReceiver
    /\ R!FlashFollowsCommits <=> P!FlashFollowsCommits
    /\ R!CompleteOnlyVerified <=> P!CompleteOnlyVerified
    /\ R!NeverBricked <=> P!NeverBricked
  BY DEF R!HandlerFollowsReceiver, P!HandlerFollowsReceiver, R!Active, P!Active,
         R!FlashFollowsCommits, P!FlashFollowsCommits, R!Flash, P!Flash,
         R!UpdateSlot, P!UpdateSlot, R!Committed, P!Committed,
         R!IncrementStart, P!IncrementStart, R!CompleteOnlyVerified, P!CompleteOnlyVerified,
         R!NeverBricked, P!NeverBricked, R!IsImage, P!IsImage, R!Image, P!Image

LEMMA SameSpec ==
    /\ R!Spec => P!Spec
    /\ R!Spec8266 => P!Spec8266
PROOF
  <1>1. R!Init => P!Init
    BY SameReceiver
  <1>2. [R!Next]_(R!rxVars) => [P!Next]_(P!rxVars)
    BY SameReceiver
       DEF R!rxVars, P!rxVars, R!sessionVars, P!sessionVars, R!flashVars, P!flashVars
  <1>3. [R!Next8266]_(R!rxVars) => [P!Next8266]_(P!rxVars)
    BY SameReceiver
       DEF R!rxVars, P!rxVars, R!sessionVars, P!sessionVars, R!flashVars, P!flashVars
  <1>4. R!Spec => P!Spec
    BY <1>1, <1>2, PTL DEF R!Spec, P!Spec
  <1>5. R!Spec8266 => P!Spec8266
    BY <1>1, <1>3, PTL DEF R!Spec8266, P!Spec8266
  <1> QED BY <1>4, <1>5

\* In a transfer by the real bridge, to either kind of leaf: the flash handler
\* is released with the transfer, what is in flash is what was committed, in
\* order, and COMPLETE is sent only for a whole verified image.
THEOREM TransferIsSafe ==
    ASSUME CountersAssumed
    PROVE  Spec => [](/\ R!HandlerFollowsReceiver
                      /\ R!FlashFollowsCommits
                      /\ R!CompleteOnlyVerified)
PROOF
  <1>1. Spec => P!Spec \/ P!Spec8266
    BY LeafIsReceiver, SameSpec, LeafAssumption
  <1>2. /\ P!HandlerFollowsReceiver => R!HandlerFollowsReceiver
        /\ P!FlashFollowsCommits => R!FlashFollowsCommits
        /\ P!CompleteOnlyVerified => R!CompleteOnlyVerified
    BY SameProperties
  <1>3. P!Spec \/ P!Spec8266 => []P!HandlerFollowsReceiver
    BY P!HandlerIsReleased, FilesAssumption, PartitionAssumption, LeafAssumption
  <1>4. P!Spec \/ P!Spec8266 => []P!FlashFollowsCommits
    BY P!FlashIsInOrder, FilesAssumption, PartitionAssumption, LeafAssumption
  <1>5. P!Spec \/ P!Spec8266 => []P!CompleteOnlyVerified
    BY P!SuccessIsVerified, FilesAssumption, PartitionAssumption, LeafAssumption
  <1> QED BY <1>1, <1>2, <1>3, <1>4, <1>5, PTL

\* And wherever the power fails on the way, the leaf comes up again.
THEOREM TransferNeverBricks ==
    ASSUME CountersAssumed, Esp8266 => BeginUnstages
    PROVE  Spec => []R!NeverBricked
PROOF
  <1>1. P!NeverBricked => R!NeverBricked
    BY SameProperties
  <1>2. CASE ~Esp8266
    <2>1. Spec => P!Spec
      BY <1>2, LeafIsReceiver, SameSpec
    <2>2. P!Spec => []P!NeverBricked
      BY P!AlwaysBootable, FilesAssumption, PartitionAssumption, LeafAssumption
    <2> QED BY <1>1, <2>1, <2>2, PTL
  <1>3. CASE Esp8266
    <2>1. Spec => P!Spec8266
      BY <1>3, LeafIsReceiver, SameSpec
    <2>2. BeginUnstages
      BY <1>3
    <2>3. P!Spec8266 => []P!NeverBricked
      BY <2>2, P!AlwaysBootable8266, FilesAssumption, PartitionAssumption, LeafAssumption
    <2> QED BY <1>1, <2>1, <2>3, PTL
  <1> QED BY <1>2, <1>3

=============================================================================
