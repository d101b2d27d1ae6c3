--------------------------- MODULE SessionProofs ---------------------------
(***************************************************************************)
(* A leaf and its bridge, whatever the radio, the timers and the restarts  *)
(* of both do to them: the schema the bridge uses is that of the leaf's    *)
(* firmware, a command is carried out once, and, as long as nobody defers  *)
(* the acks, state traffic implements Mirror.                              *)
(***************************************************************************)
EXTENDS Session, WellFoundedInduction, TLAPS

-----------------------------------------------------------------------------
(* Numbers and queues.                                                     *)

LEMMA LeastNat ==
    ASSUME NEW T \in SUBSET Nat, T # {}
    PROVE  \E x \in T : \A y \in T : x <= y
PROOF
  <1> DEFINE Lower == {p \in Nat \X Nat : p[1] < p[2]}
  <1>1. Lower = OpToRel(<, Nat)
    BY Zenon DEF OpToRel
  <1>2. IsWellFoundedOn(Lower, Nat)
    BY <1>1, NatLessThanWellFounded
  <1> HIDE DEF Lower
  <1>3. PICK x \in T : \A y \in T : <<y, x>> \notin Lower
    BY <1>2, WFMin
  <1>4. ASSUME NEW y \in T PROVE x <= y
    <2>1. x \in Nat /\ y \in Nat /\ <<y, x>> \notin Lower
      BY <1>3
    <2>2. ~(y < x)
      BY <2>1 DEF Lower
    <2> QED BY <2>1, <2>2
  <1> QED BY <1>3, <1>4

LEMMA MinOfSome ==
    ASSUME NEW T \in SUBSET Nat, T # {}
    PROVE  Min(T) \in T
PROOF
  <1>1. PICK x \in T : \A y \in T : x =< y
    BY LeastNat
  <1> QED BY <1>1 DEF Min

LEMMA MinOfTwo ==
    ASSUME NEW a \in Nat, NEW b \in Nat
    PROVE  Min({a, b}) = IF a <= b THEN a ELSE b
PROOF
  <1> DEFINE m == IF a <= b THEN a ELSE b
  <1>1. m \in {a, b} /\ \A y \in {a, b} : m =< y
    OBVIOUS
  <1>2. \A x \in {a, b} : (\A y \in {a, b} : x =< y) => x = m
    OBVIOUS
  <1> HIDE DEF m
  <1>3. Min({a, b}) = m
    BY <1>1, <1>2 DEF Min
  <1> QED BY <1>3 DEF m

LEMMA MaxOfTwo ==
    ASSUME NEW a \in Nat, NEW b \in Nat
    PROVE  Max({a, b}) = IF a >= b THEN a ELSE b
PROOF
  <1> DEFINE m == IF a >= b THEN a ELSE b
  <1>1. m \in {a, b} /\ \A y \in {a, b} : m >= y
    OBVIOUS
  <1>2. \A x \in {a, b} : (\A y \in {a, b} : x >= y) => x = m
    OBVIOUS
  <1> HIDE DEF m
  <1>3. Max({a, b}) = m
    BY <1>1, <1>2 DEF Max
  <1> QED BY <1>3 DEF m

\* What is in a queue.
Frames(q) == {q[i] : i \in 1 .. Len(q)}
IsQueue(q) == q \in Seq(Frames(q))

LEMMA QueueOf ==
    ASSUME NEW S, NEW q \in Seq(S)
    PROVE  IsQueue(q) /\ Frames(q) \subseteq S
PROOF
  <1>1. q \in Seq(Frames(q))
    BY DEF Frames
  <1>2. \A i \in 1 .. Len(q) : q[i] \in S
    OBVIOUS
  <1> QED BY <1>1, <1>2 DEF IsQueue, Frames

LEMMA EmptyQueue == IsQueue(<<>>) /\ Frames(<<>>) = {} /\ Len(<<>>) = 0
  BY DEF IsQueue, Frames

LEMMA AppendToQueue ==
    ASSUME NEW q, IsQueue(q), NEW f
    PROVE  /\ IsQueue(Append(q, f)) /\ Frames(Append(q, f)) = Frames(q) \cup {f}
           /\ Len(Append(q, f)) = Len(q) + 1 /\ Len(q) \in Nat
PROOF
  <1> DEFINE S == Frames(q) \cup {f}
  <1>1. q \in Seq(S) /\ f \in S
    BY DEF IsQueue
  <1>2. \A i \in 1 .. Len(q) : q[i] \in Frames(q)
    BY DEF Frames
  <1> HIDE DEF S
  <1>3. /\ Append(q, f) \in Seq(S) /\ Len(Append(q, f)) = Len(q) + 1 /\ Len(q) \in Nat
        /\ \A i \in 1 .. Len(q) : Append(q, f)[i] = q[i]
        /\ Append(q, f)[Len(q) + 1] = f
    BY <1>1
  <1>4. Frames(Append(q, f)) = S
    <2>1. \A i \in 1 .. Len(Append(q, f)) : Append(q, f)[i] \in S
      BY <1>3
    <2>2. \A x \in Frames(q) : \E i \in 1 .. Len(Append(q, f)) : Append(q, f)[i] = x
      BY <1>3 DEF Frames
    <2>3. \E i \in 1 .. Len(Append(q, f)) : Append(q, f)[i] = f
      BY <1>3
    <2> QED BY <2>1, <2>2, <2>3 DEF S, Frames
  <1> QED BY <1>3, <1>4 DEF S, IsQueue

LEMMA PartOfQueue ==
    ASSUME NEW q, IsQueue(q), NEW m \in Nat, NEW n \in Nat, m > 0, n <= Len(q)
    PROVE  /\ IsQueue(SubSeq(q, m, n)) /\ Frames(SubSeq(q, m, n)) \subseteq Frames(q)
           /\ Len(SubSeq(q, m, n)) = IF m <= n THEN n - m + 1 ELSE 0
PROOF
  <1>1. q \in Seq(Frames(q))
    BY DEF IsQueue
  <1>2. \A i \in 1 .. Len(q) : q[i] \in Frames(q)
    BY DEF Frames
  <1>3. /\ SubSeq(q, m, n) \in Seq(Frames(q))
        /\ Len(SubSeq(q, m, n)) = IF m <= n THEN n - m + 1 ELSE 0
        /\ \A i \in 1 .. Len(SubSeq(q, m, n)) : SubSeq(q, m, n)[i] = q[m + i - 1]
    BY <1>1, SMTT(30)
  <1> QED BY <1>3, QueueOf

LEMMA JoinQueues ==
    ASSUME NEW q, NEW r, IsQueue(q), IsQueue(r)
    PROVE  /\ IsQueue(q \o r) /\ Frames(q \o r) \subseteq Frames(q) \cup Frames(r)
           /\ Len(q \o r) = Len(q) + Len(r)
PROOF
  <1> DEFINE S == Frames(q) \cup Frames(r)
             t == q \o r
  <1>1. q \in Seq(S) /\ r \in Seq(S)
    BY DEF IsQueue
  <1> HIDE DEF S
  <1>2. t \in Seq(S) /\ Len(t) = Len(q) + Len(r)
    BY <1>1
  <1> HIDE DEF t
  <1>3. IsQueue(t) /\ Frames(t) \subseteq S
    BY <1>2, QueueOf
  <1> QED BY <1>2, <1>3 DEF S, t

LEMMA TailOfQueue ==
    ASSUME NEW q, IsQueue(q), q # <<>>
    PROVE  /\ IsQueue(Tail(q)) /\ Frames(Tail(q)) \subseteq Frames(q)
           /\ Head(q) \in Frames(q) /\ Len(q) \in Nat /\ Len(Tail(q)) <= Len(q)
PROOF
  <1>1. q \in Seq(Frames(q))
    BY DEF IsQueue
  <1> DEFINE r == Tail(q)
  <1>2. r \in Seq(Frames(q)) /\ Len(r) <= Len(q) /\ Head(q) \in Frames(q) /\ Len(q) \in Nat
    BY <1>1
  <1> HIDE DEF r
  <1>3. IsQueue(r) /\ Frames(r) \subseteq Frames(q)
    BY <1>2, QueueOf
  <1> QED BY <1>2, <1>3 DEF r

\* A queue without one of its members, and one with a member replaced.
LEMMA QueueWithout ==
    ASSUME NEW q, IsQueue(q), NEW i \in DOMAIN q
    PROVE  IsQueue(Without(q, i)) /\ Frames(Without(q, i)) \subseteq Frames(q)
PROOF
  <1>1. DOMAIN q = 1 .. Len(q) /\ Len(q) \in Nat
    BY DEF IsQueue
  <1>2. i \in Nat /\ i > 0 /\ i <= Len(q)
    BY <1>1
  <1>3. /\ IsQueue(SubSeq(q, i + 1, Len(q)))
        /\ Frames(SubSeq(q, i + 1, Len(q))) \subseteq Frames(q)
    BY <1>1, <1>2, PartOfQueue
  <1>4. /\ IsQueue(SubSeq(q, 1, i - 1)) /\ Frames(SubSeq(q, 1, i - 1)) \subseteq Frames(q)
    BY <1>1, <1>2, PartOfQueue
  <1> QED BY <1>3, <1>4, JoinQueues DEF Without

LEMMA QueueWith ==
    ASSUME NEW q, IsQueue(q), NEW i \in DOMAIN q, NEW f
    PROVE  /\ IsQueue([q EXCEPT ![i] = f]) /\ Frames([q EXCEPT ![i] = f]) \subseteq Frames(q) \cup {f}
           /\ q[i] \in Frames(q)
PROOF
  <1> DEFINE S == Frames(q) \cup {f}
             r == [q EXCEPT ![i] = f]
  <1>1. q \in Seq(S) /\ f \in S /\ DOMAIN q = 1 .. Len(q)
    BY DEF IsQueue
  <1> HIDE DEF S
  <1>2. r \in Seq(S) /\ Len(r) = Len(q)
    BY <1>1
  <1> HIDE DEF r
  <1>3. IsQueue(r) /\ Frames(r) \subseteq S
    BY <1>2, QueueOf
  <1>4. q[i] \in Frames(q)
    BY <1>1 DEF Frames
  <1> QED BY <1>3, <1>4 DEF S, r

\* The receive queues keep their limit.
Fits(q) == IsQueue(q) /\ Len(q) <= QueueLimit

LEMMA EnqueueFits ==
    ASSUME NEW q, Fits(q), NEW f
    PROVE  Fits(Enqueue(q, f)) /\ Frames(Enqueue(q, f)) \subseteq Frames(q) \cup {f}
PROOF
  <1>1. QueueLimit \in Nat
    BY RadioAssumption
  <1> QED BY <1>1, AppendToQueue DEF Fits, Enqueue

LEMMA TailFits ==
    ASSUME NEW q, Fits(q), q # <<>>
    PROVE  Fits(Tail(q)) /\ Frames(Tail(q)) \subseteq Frames(q) /\ Head(q) \in Frames(q)
PROOF
  <1>1. QueueLimit \in Nat
    BY RadioAssumption
  <1>2. /\ IsQueue(Tail(q)) /\ Len(Tail(q)) <= Len(q) /\ Len(q) \in Nat /\ Len(Tail(q)) \in Nat
        /\ Frames(Tail(q)) \subseteq Frames(q) /\ Head(q) \in Frames(q)
    BY TailOfQueue DEF Fits, IsQueue
  <1> QED BY <1>1, <1>2 DEF Fits

LEMMA SwapFits ==
    ASSUME NEW q, Fits(q), Len(q) > 1
    PROVE  Fits(Swap(q)) /\ Frames(Swap(q)) \subseteq Frames(q)
PROOF
  <1>1. Len(q) \in Nat /\ q[1] \in Frames(q) /\ q[2] \in Frames(q)
    BY DEF Fits, IsQueue, Frames
  <1>2. /\ IsQueue(SubSeq(q, 3, Len(q))) /\ Frames(SubSeq(q, 3, Len(q))) \subseteq Frames(q)
        /\ Len(SubSeq(q, 3, Len(q))) = Len(q) - 2
    <2>1. 3 \in Nat /\ 3 > 0 /\ IsQueue(q) /\ Len(q) <= Len(q)
      BY <1>1 DEF Fits
    <2>2. PICK k \in Nat : k = Len(q) /\ k > 1
      BY <1>1
    <2>3. (IF 3 <= k THEN k - 3 + 1 ELSE 0) = k - 2
      BY <2>2
    <2> QED BY <1>1, <2>1, <2>2, <2>3, PartOfQueue
  <1>3. /\ IsQueue(<<q[2], q[1]>>) /\ Frames(<<q[2], q[1]>>) \subseteq Frames(q)
        /\ Len(<<q[2], q[1]>>) = 2
    BY <1>1 DEF IsQueue, Frames
  <1> QED BY <1>1, <1>2, <1>3, JoinQueues DEF Swap, Fits

-----------------------------------------------------------------------------
(* The leaf's record.                                                      *)

Positive == Nat \ {0}
Key == Nat \X Nat

LeafFields ==
    {"joined", "normal", "discovering", "sweep", "resume", "fast", "again", "tries", "chIdx",
     "lastChan", "parent", "best", "inFlight", "joinRetry", "delayed", "waitRejects", "nonce",
     "key", "keyValid", "lastSeen", "tx", "push", "waiting", "base", "field", "pval", "retry",
     "syncTimer", "stateOk", "out", "fails", "val", "dirty", "cmd", "cfg", "hash"}

Numbered(l) ==
    /\ l.nonce \in Positive /\ l.tx \in Positive /\ l.key \in Key
    /\ l.lastSeen \in Nat /\ l.hash \in Hashes
Routed(l) ==
    /\ l.parent \in {"none", "bridge", "zero"}
    /\ l.best \in 0 .. NumChannels /\ l.lastChan \in 1 .. NumChannels
    /\ l.chIdx \in 0 .. NumChannels
Counting(l) ==
    /\ l.joinRetry \in 0 .. MaxRetries /\ l.waitRejects \in 0 .. MaxRetries - 1
    /\ l.retry \in 0 .. MaxRetries /\ l.fails \in 0 .. MaxRetries
Pending(l) == l.base \in Nat /\ l.field \in Entities /\ l.pval \in Nat
Holding(l) ==
    /\ l.val \in [Entities -> Positive] /\ l.dirty \in [Entities -> BOOLEAN]
    /\ l.cmd \in [Entities -> Nat]

Shaped(l) ==
    /\ DOMAIN l = LeafFields
    /\ Numbered(l) /\ Routed(l) /\ Pending(l) /\ Holding(l)
LeafT(l) == Shaped(l) /\ Counting(l)

\* m is l as far as its session and its entities go.
SameTraffic(l, m) ==
    /\ m.waiting = l.waiting /\ m.base = l.base /\ m.field = l.field /\ m.pval = l.pval
SameSession(l, m) ==
    /\ m.nonce = l.nonce /\ m.key = l.key /\ m.hash = l.hash
    /\ m.val = l.val /\ m.cmd = l.cmd
SameRoute(l, m) ==
    /\ m.joined = l.joined /\ m.normal = l.normal /\ m.fast = l.fast /\ m.resume = l.resume

\* Steps of a handler that each keep these fields keep them together.
LEMMA SameChain ==
    ASSUME NEW a, NEW b, NEW c
    PROVE  /\ SameTraffic(a, b) /\ SameTraffic(b, c) => SameTraffic(a, c)
           /\ SameSession(a, b) /\ SameSession(b, c) => SameSession(a, c)
           /\ SameRoute(a, b) /\ SameRoute(b, c) => SameRoute(a, c)
PROOF
  <1>1. SameTraffic(a, b) /\ SameTraffic(b, c) => SameTraffic(a, c)
    BY DEF SameTraffic
  <1>2. SameSession(a, b) /\ SameSession(b, c) => SameSession(a, c)
    BY DEF SameSession
  <1>3. SameRoute(a, b) /\ SameRoute(b, c) => SameRoute(a, c)
    BY DEF SameRoute
  <1> QED BY <1>1, <1>2, <1>3

LEMMA Bounds ==
    /\ MaxRetries \in Nat /\ MaxRetries > 0 /\ NumChannels \in Nat /\ NumChannels > 0
    /\ NumEntities \in Nat /\ NumEntities > 0 /\ 1 \in Entities
    /\ 0 \in 0 .. MaxRetries /\ 0 \in 0 .. MaxRetries - 1 /\ 0 \in 0 .. NumChannels
    /\ 1 \in 1 .. NumChannels /\ BridgeChannel \in 1 .. NumChannels
    /\ \A e \in Entities : e \in Nat
  BY RadioAssumption, LeafAssumption DEF Entities

LEMMA NextTxFacts ==
    ASSUME NEW l, LeafT(l)
    PROVE  /\ LeafT(NextTx(l)) /\ NextTx(l).tx = l.tx + 1
           /\ SameTraffic(l, NextTx(l)) /\ SameSession(l, NextTx(l)) /\ SameRoute(l, NextTx(l))
PROOF
  <1> USE DEF NextTx, LeafT, Shaped, LeafFields
  <1>1. DOMAIN NextTx(l) = LeafFields /\ Numbered(NextTx(l)) /\ NextTx(l).tx = l.tx + 1
    BY DEF Numbered, Positive
  <1>2. Routed(NextTx(l)) /\ Counting(NextTx(l))
    BY DEF Routed, Counting
  <1>3. Pending(NextTx(l)) /\ Holding(NextTx(l))
    BY DEF Pending, Holding
  <1>4. SameTraffic(l, NextTx(l)) /\ SameSession(l, NextTx(l)) /\ SameRoute(l, NextTx(l))
    BY DEF SameTraffic, SameSession, SameRoute
  <1> QED BY <1>1, <1>2, <1>3, <1>4

LEMMA CountedFacts ==
    ASSUME NEW l, LeafT(l), NEW ok
    PROVE  /\ LeafT(Counted(l, ok)) /\ Counted(l, ok).tx = l.tx
           /\ SameTraffic(l, Counted(l, ok)) /\ SameSession(l, Counted(l, ok))
           /\ SameRoute(l, Counted(l, ok))
PROOF
  <1> DEFINE m == Counted(l, ok)
  <1> USE DEF Counted, LeafT, Shaped, LeafFields
  <1>1. DOMAIN m = LeafFields /\ Numbered(m) /\ m.tx = l.tx
    BY DEF Numbered
  <1>2. m.fails \in 0 .. MaxRetries
    <2>1. l.fails \in Nat /\ MaxRetries \in Nat /\ l.fails <= MaxRetries
      BY Bounds DEF Counting
    <2>2. Min({MaxRetries, l.fails + 1}) \in 0 .. MaxRetries
      BY <2>1, MinOfTwo
    <2>3. m.fails = IF ok THEN 0 ELSE Min({MaxRetries, l.fails + 1})
      OBVIOUS
    <2> QED BY <2>2, <2>3, Bounds
  <1>3. Routed(m) /\ Counting(m)
    BY <1>2 DEF Routed, Counting
  <1>4. Pending(m) /\ Holding(m)
    BY DEF Pending, Holding
  <1>5. SameTraffic(l, m) /\ SameSession(l, m) /\ SameRoute(l, m)
    BY DEF SameTraffic, SameSession, SameRoute
  <1> QED BY <1>1, <1>3, <1>4, <1>5

LEMMA JoiningFacts ==
    ASSUME NEW l, LeafT(l), NEW ok, JoinRetriesLeft(l.joinRetry)
    PROVE  /\ LeafT(Joining(l, ok)) /\ Joining(l, ok).tx = l.tx
           /\ SameTraffic(l, Joining(l, ok)) /\ SameSession(l, Joining(l, ok))
           /\ SameRoute(l, Joining(l, ok))
PROOF
  <1> DEFINE m == Joining(l, ok)
  <1> USE DEF Joining, LeafT, Shaped, LeafFields
  <1>1. DOMAIN m = LeafFields /\ Numbered(m) /\ m.tx = l.tx
    BY DEF Numbered
  <1>2. Routed(m) /\ Counting(m)
    BY Bounds DEF Routed, Counting, JoinRetriesLeft
  <1>3. Pending(m) /\ Holding(m)
    BY DEF Pending, Holding
  <1>4. SameTraffic(l, m) /\ SameSession(l, m) /\ SameRoute(l, m)
    BY DEF SameTraffic, SameSession, SameRoute
  <1> QED BY <1>1, <1>2, <1>3, <1>4

LEMMA ClearFacts ==
    ASSUME NEW l, Shaped(l), NEW preserve \in BOOLEAN
    PROVE  LET m == ClearSession(l, preserve)
           IN  /\ LeafT(m) /\ m.tx = l.tx /\ SameSession(l, m) /\ m.joinRetry = 0
               /\ ~m.joined /\ ~m.normal /\ ~m.waiting
               /\ ~preserve => ~m.fast /\ ~m.resume
PROOF
  <1> DEFINE m == ClearSession(l, preserve)
  <1> USE DEF ClearSession, LeafT, Shaped, LeafFields
  <1>1. DOMAIN m = LeafFields
    OBVIOUS
  <1>2. Numbered(m) /\ m.tx = l.tx
    BY DEF Numbered
  <1>3. Routed(m)
    BY Bounds DEF Routed
  <1>4. Counting(m) /\ m.joinRetry = 0
    BY Bounds DEF Counting
  <1>5. Pending(m)
    BY Bounds DEF Pending
  <1>6. Holding(m)
    BY DEF Holding
  <1>7. SameSession(l, m)
    BY DEF SameSession
  <1>8. ~m.joined /\ ~m.normal /\ ~m.waiting
    OBVIOUS
  <1>9. ~preserve => ~m.fast /\ ~m.resume
    OBVIOUS
  <1> QED BY <1>1, <1>2, <1>3, <1>4, <1>5, <1>6, <1>7, <1>8, <1>9

\* A leaf looks for a parent, or is joined, only in a session.
RouteOK(l) == l.fast \/ l.resume \/ l.normal => l.joined
LeafOK(l) == LeafT(l) /\ RouteOK(l)

\* m goes on where l was, with no STATE waited for but the one of l.
Keeps(l, m) ==
    /\ LeafOK(m) /\ SameSession(l, m)
    /\ m.tx >= l.tx
    /\ m.joined => l.joined
    /\ m.waiting => l.waiting /\ SameTraffic(l, m)

\* m has left the session of l, for a new nonce.
StartsOver(l, m) ==
    /\ LeafOK(m) /\ m.nonce > l.nonce
    /\ ~m.joined /\ ~m.waiting
    /\ m.val = l.val
    /\ m.key = l.key \/ m.key = NoKey

\* ... without a reboot.
Forgets(l, m) == StartsOver(l, m) /\ m.cmd = l.cmd /\ m.hash = l.hash

LEMMA KeepsItself ==
    ASSUME NEW l, LeafOK(l)
    PROVE  Keeps(l, l)
  BY DEF Keeps, LeafOK, LeafT, Shaped, Numbered, Positive, SameSession, SameTraffic

LEMMA SameKeeps ==
    ASSUME NEW l, LeafOK(l), NEW m, LeafT(m), m.tx >= l.tx,
           SameTraffic(l, m), SameSession(l, m), SameRoute(l, m)
    PROVE  Keeps(l, m)
  BY DEF Keeps, LeafOK, RouteOK, SameRoute, SameTraffic

LEMMA KeepsChain ==
    ASSUME NEW l, NEW m, NEW n, LeafOK(l), Keeps(l, m), Keeps(m, n)
    PROVE  Keeps(l, n)
  BY DEF Keeps, LeafOK, LeafT, Shaped, Numbered, Positive, SameSession, SameTraffic

LEMMA ForgetsChain ==
    ASSUME NEW l, NEW m, NEW n, SameSession(l, m), Forgets(m, n)
    PROVE  Forgets(l, n)
  BY DEF StartsOver, Forgets, SameSession

LEMMA SweepFacts ==
    ASSUME NEW l, LeafT(l)
    PROVE  LET m == NewSweep(l)
           IN  /\ LeafT(m) /\ m.tx = l.tx /\ SameTraffic(l, m) /\ SameSession(l, m)
               /\ SameRoute(l, m)
PROOF
  <1> DEFINE m == NewSweep(l)
  <1> USE DEF NewSweep, LeafT, Shaped, LeafFields
  <1>1. DOMAIN m = LeafFields /\ Numbered(m) /\ m.tx = l.tx
    BY DEF Numbered
  <1>2. Routed(m) /\ Counting(m)
    BY Bounds DEF Routed, Counting
  <1>3. Pending(m) /\ Holding(m)
    BY DEF Pending, Holding
  <1>4. SameTraffic(l, m) /\ SameSession(l, m) /\ SameRoute(l, m)
    BY DEF SameTraffic, SameSession, SameRoute
  <1> QED BY <1>1, <1>2, <1>3, <1>4

LEMMA NonceFacts ==
    ASSUME NEW l, LeafT(l)
    PROVE  LET m == FreshNonce(l)
           IN  /\ LeafT(m) /\ m.tx = l.tx /\ SameTraffic(l, m) /\ SameRoute(l, m)
               /\ m.nonce > l.nonce /\ m.key = l.key /\ m.hash = l.hash
               /\ m.val = l.val /\ m.cmd = l.cmd /\ m.joinRetry = l.joinRetry
PROOF
  <1> DEFINE m == FreshNonce(l)
  <1> USE DEF FreshNonce, LeafT, Shaped, LeafFields
  <1>1. DOMAIN m = LeafFields /\ Numbered(m) /\ m.tx = l.tx /\ m.nonce > l.nonce
    BY DEF Numbered, Positive
  <1>2. Routed(m) /\ Counting(m)
    BY DEF Routed, Counting
  <1>3. Pending(m) /\ Holding(m)
    BY DEF Pending, Holding
  <1>4. SameTraffic(l, m) /\ SameRoute(l, m) /\ m.joinRetry = l.joinRetry
    BY DEF SameTraffic, SameRoute
  <1>5. m.key = l.key /\ m.hash = l.hash /\ m.val = l.val /\ m.cmd = l.cmd
    OBVIOUS
  <1> QED BY <1>1, <1>2, <1>3, <1>4, <1>5

LEMMA DiscoveryFacts ==
    ASSUME NEW l, Shaped(l)
    PROVE  Forgets(l, StartDiscovery(l))
PROOF
  <1>1. PICK c : /\ c = ClearSession(l, FALSE) /\ LeafT(c) /\ SameSession(l, c)
                 /\ ~c.joined /\ ~c.normal /\ ~c.waiting /\ ~c.fast /\ ~c.resume
    BY ClearFacts
  <1>2. PICK s : /\ s = NewSweep(c) /\ LeafT(s) /\ SameTraffic(c, s) /\ SameSession(c, s)
                 /\ SameRoute(c, s)
    BY <1>1, SweepFacts
  <1>3. PICK m : /\ m = FreshNonce(s) /\ LeafT(m) /\ SameTraffic(s, m) /\ SameRoute(s, m)
                 /\ m.nonce > s.nonce /\ m.key = s.key /\ m.hash = s.hash
                 /\ m.val = s.val /\ m.cmd = s.cmd
    BY <1>2, NonceFacts
  <1>4. m = StartDiscovery(l)
    BY <1>1, <1>2, <1>3 DEF StartDiscovery
  <1>5. ~m.joined /\ ~m.normal /\ ~m.waiting /\ ~m.fast /\ ~m.resume
    BY <1>1, <1>2, <1>3 DEF SameRoute, SameTraffic
  <1>6. /\ m.nonce > l.nonce /\ m.key = l.key /\ m.hash = l.hash
        /\ m.val = l.val /\ m.cmd = l.cmd
    BY <1>1, <1>2, <1>3 DEF SameSession
  <1>7. Forgets(l, m)
    BY <1>3, <1>5, <1>6 DEF Forgets, StartsOver, LeafOK, RouteOK
  <1> QED BY <1>4, <1>7

LEMMA RediscoveryFacts ==
    ASSUME NEW l, LeafT(l)
    PROVE  Forgets(l, StartRediscovery(l))
PROOF
  <1>1. PICK c : /\ c = ClearSession(l, TRUE) /\ LeafT(c) /\ SameSession(l, c)
                 /\ ~c.joined /\ ~c.normal /\ ~c.waiting
    BY ClearFacts DEF LeafT
  <1>2. PICK d : d = [c EXCEPT !.fast = FALSE, !.resume = FALSE, !.again = FALSE]
    OBVIOUS
  <1>3. /\ LeafT(d) /\ SameSession(c, d)
        /\ ~d.joined /\ ~d.normal /\ ~d.waiting /\ ~d.fast /\ ~d.resume
    <2> USE DEF LeafT, Shaped, LeafFields
    <2>1. DOMAIN d = LeafFields /\ Numbered(d) /\ Routed(d) /\ Counting(d)
      BY <1>1, <1>2, ZenonT(60) DEF Numbered, Routed, Counting
    <2>2. Pending(d) /\ Holding(d) /\ SameSession(c, d)
      BY <1>1, <1>2 DEF Pending, Holding, SameSession
    <2>3. ~d.joined /\ ~d.normal /\ ~d.waiting /\ ~d.fast /\ ~d.resume
      BY <1>1, <1>2
    <2> QED BY <2>1, <2>2, <2>3
  <1>4. PICK s : /\ s = NewSweep(d) /\ LeafT(s) /\ SameTraffic(d, s) /\ SameSession(d, s)
                 /\ SameRoute(d, s)
    BY <1>3, SweepFacts
  <1>5. PICK m : /\ m = FreshNonce(s) /\ LeafT(m) /\ SameTraffic(s, m) /\ SameRoute(s, m)
                 /\ m.nonce > s.nonce /\ m.key = s.key /\ m.hash = s.hash
                 /\ m.val = s.val /\ m.cmd = s.cmd
    BY <1>4, NonceFacts
  <1>6. m = StartRediscovery(l)
    BY <1>1, <1>2, <1>4, <1>5 DEF StartRediscovery
  <1>7. ~m.joined /\ ~m.normal /\ ~m.waiting /\ ~m.fast /\ ~m.resume
    BY <1>3, <1>4, <1>5 DEF SameRoute, SameTraffic
  <1>8. /\ m.nonce > l.nonce /\ m.key = l.key /\ m.hash = l.hash
        /\ m.val = l.val /\ m.cmd = l.cmd
    BY <1>1, <1>3, <1>4, <1>5 DEF SameSession
  <1>9. Forgets(l, m)
    BY <1>5, <1>7, <1>8 DEF Forgets, StartsOver, LeafOK, RouteOK
  <1> QED BY <1>6, <1>9

\* A new parent is looked for in the session there is.
LEMMA RecoveryFacts ==
    ASSUME NEW l, LeafOK(l), l.joined
    PROVE  /\ Keeps(l, StartRecovery(l))
           /\ Keeps(l, StartRecovery8266(l))
           /\ Keeps(l, [StartRecovery(l) EXCEPT !.fast = FALSE])
           /\ Keeps(l, [StartRecovery8266(l) EXCEPT !.fast = FALSE])
PROOF
  <1>1. PICK s : s = NewSweep(l) /\ LeafT(s) /\ s.tx = l.tx
                 /\ SameSession(l, s) /\ SameRoute(l, s)
    BY SweepFacts DEF LeafOK
  <1>2. ASSUME NEW m, m.joined, ~m.waiting, LeafT(m), SameSession(s, m), m.tx = s.tx
        PROVE  Keeps(l, m)
    BY <1>1, <1>2 DEF Keeps, LeafOK, RouteOK, SameSession, LeafT, Shaped, Numbered, Positive
  <1> USE DEF LeafT, Shaped, LeafFields
  <1>3. PICK r : r = StartRecovery(l)
    OBVIOUS
  <1>4. LeafT(r) /\ SameSession(s, r) /\ r.tx = s.tx /\ r.joined /\ ~r.waiting
    <2>1. DOMAIN r = LeafFields /\ Numbered(r) /\ r.tx = s.tx
      BY <1>1, <1>3 DEF StartRecovery, Numbered
    <2>2. Routed(r) /\ Counting(r)
      BY <1>1, <1>3, Bounds DEF StartRecovery, Routed, Counting
    <2>3. Pending(r) /\ Holding(r)
      BY <1>1, <1>3 DEF StartRecovery, Pending, Holding
    <2>4. SameSession(s, r) /\ r.joined /\ ~r.waiting
      BY <1>1, <1>3 DEF StartRecovery, SameSession, SameRoute
    <2> QED BY <2>1, <2>2, <2>3, <2>4
  <1>5. ASSUME NEW m, DOMAIN m = LeafFields,
               \A x \in LeafFields \ {"fast", "stateOk", "out"} : m[x] = r[x]
        PROVE  LeafT(m) /\ SameSession(s, m) /\ m.tx = s.tx /\ m.joined /\ ~m.waiting
    <2>1. Numbered(m) /\ m.tx = s.tx
      BY <1>4, <1>5 DEF Numbered
    <2>2. Routed(m) /\ Counting(m)
      BY <1>4, <1>5 DEF Routed, Counting
    <2>3. Pending(m) /\ Holding(m)
      BY <1>4, <1>5 DEF Pending, Holding
    <2>4. SameSession(s, m) /\ m.joined /\ ~m.waiting
      BY <1>4, <1>5 DEF SameSession
    <2> QED BY <1>5, <2>1, <2>2, <2>3, <2>4
  <1> HIDE DEF LeafT, Shaped
  <1>6. /\ DOMAIN StartRecovery8266(l) = LeafFields
        /\ \A x \in LeafFields \ {"fast", "stateOk", "out"} : StartRecovery8266(l)[x] = r[x]
    BY <1>3, <1>4 DEF StartRecovery8266, LeafT, Shaped
  <1>7. /\ DOMAIN [StartRecovery(l) EXCEPT !.fast = FALSE] = LeafFields
        /\ \A x \in LeafFields \ {"fast", "stateOk", "out"} :
              [StartRecovery(l) EXCEPT !.fast = FALSE][x] = r[x]
    BY <1>3, <1>4 DEF LeafT, Shaped
  <1>8. /\ DOMAIN [StartRecovery8266(l) EXCEPT !.fast = FALSE] = LeafFields
        /\ \A x \in LeafFields \ {"fast", "stateOk", "out"} :
              [StartRecovery8266(l) EXCEPT !.fast = FALSE][x] = r[x]
    BY <1>6
  <1> QED BY <1>2, <1>3, <1>4, <1>5, <1>6, <1>7, <1>8

\* A leaf that has just booted.
LEMMA BootedFacts ==
    ASSUME NEW n \in Positive, NEW v \in [Entities -> Positive], NEW h \in Hashes
    PROVE  LET m == Booted(n, v, h)
           IN  /\ LeafOK(m) /\ m.nonce = n /\ m.val = v /\ m.tx = 1 /\ m.key = NoKey
               /\ ~m.joined /\ ~m.waiting
PROOF
  <1> DEFINE m == Booted(n, v, h)
  <1>1. DOMAIN m = LeafFields
    BY DEF Booted, LeafFields
  <1>2. Numbered(m) /\ m.nonce = n /\ m.tx = 1 /\ m.key = NoKey
    BY DEF Booted, Numbered, Positive, NoKey, Key
  <1>3. Routed(m) /\ Counting(m)
    BY Bounds DEF Booted, Routed, Counting
  <1>4. Pending(m) /\ Holding(m)
    BY Bounds DEF Booted, Pending, Holding
  <1>5. /\ ~m.joined /\ ~m.waiting /\ ~m.fast /\ ~m.resume /\ ~m.normal
        /\ m.val = v
    BY DEF Booted
  <1> HIDE DEF m
  <1>6. LeafOK(m)
    BY <1>1, <1>2, <1>3, <1>4, <1>5 DEF LeafOK, LeafT, Shaped, RouteOK
  <1> QED BY <1>2, <1>5, <1>6 DEF m

LEMMA BootFacts ==
    ASSUME NEW l, LeafT(l), NEW h \in Hashes
    PROVE  StartsOver(l, Booted(l.nonce + 1, l.val, h)) /\ Booted(l.nonce + 1, l.val, h).tx = 1
PROOF
  <1> DEFINE m == Booted(l.nonce + 1, l.val, h)
  <1>1. l.nonce \in Nat /\ l.nonce + 1 \in Positive /\ l.val \in [Entities -> Positive]
    BY DEF LeafT, Shaped, Numbered, Holding, Positive
  <1>2. /\ LeafOK(m) /\ m.nonce = l.nonce + 1 /\ m.val = l.val /\ m.tx = 1 /\ m.key = NoKey
        /\ ~m.joined /\ ~m.waiting
    BY <1>1, BootedFacts
  <1> HIDE DEF m
  <1>3. StartsOver(l, m) /\ m.tx = 1
    BY <1>1, <1>2 DEF StartsOver
  <1> QED BY <1>3 DEF m

\* m is l but for fields the session and the entities do not have.
LEMMA AdoptFacts ==
    ASSUME NEW l, LeafOK(l), l.joined, l.best # 0
    PROVE  /\ Keeps(l, Adopted(l)) /\ SameTraffic(l, Adopted(l)) /\ Adopted(l).joined
           /\ Keeps(l, Adopted8266(l)) /\ SameTraffic(l, Adopted8266(l)) /\ Adopted8266(l).joined
PROOF
  <1>1. ASSUME NEW m, LeafT(m), SameSession(l, m), SameTraffic(l, m), m.tx = l.tx, m.joined
        PROVE  Keeps(l, m)
    BY <1>1 DEF Keeps, LeafOK, RouteOK, LeafT, Shaped, Numbered, Positive, SameTraffic
  <1> USE DEF LeafFields
  <1>2. PICK a : a = Adopted(l)
    OBVIOUS
  <1>3. /\ DOMAIN a = LeafFields /\ Numbered(a) /\ a.tx = l.tx
        /\ SameSession(l, a) /\ SameTraffic(l, a) /\ a.joined
    BY <1>2, ZenonT(60) DEF LeafOK, LeafT, Shaped, Adopted, Numbered, SameSession, SameTraffic
  <1>4. Routed(a)
    <2>1. l.best \in 1 .. NumChannels
      BY Bounds DEF LeafOK, LeafT, Shaped, Routed
    <2> QED BY <1>2, <2>1 DEF LeafOK, LeafT, Shaped, Adopted, Routed
  <1>5. Counting(a) /\ Pending(a) /\ Holding(a)
    BY <1>2 DEF LeafOK, LeafT, Shaped, Adopted, Counting, Pending, Holding
  <1>6. PICK b : b = Adopted8266(l)
    OBVIOUS
  <1>7. /\ DOMAIN b = LeafFields
        /\ \A x \in LeafFields \ {"stateOk", "out"} : b[x] = a[x]
    BY <1>2, <1>3, <1>6 DEF Adopted8266
  <1>8. /\ Numbered(b) /\ b.tx = l.tx
        /\ SameSession(l, b) /\ SameTraffic(l, b) /\ b.joined
    BY <1>3, <1>7 DEF Numbered, SameSession, SameTraffic
  <1>9. Routed(b) /\ Counting(b)
    BY <1>4, <1>5, <1>7 DEF Routed, Counting
  <1>10. Pending(b) /\ Holding(b)
    BY <1>5, <1>7 DEF Pending, Holding
  <1>11. LeafT(a) /\ LeafT(b)
    BY <1>3, <1>4, <1>5, <1>7, <1>8, <1>9, <1>10 DEF LeafT, Shaped
  <1> QED BY <1>1, <1>2, <1>3, <1>6, <1>8, <1>11

LEMMA SentFacts ==
    ASSUME NEW l, LeafT(l), NEW e \in Entities, NEW v \in Nat, NEW fresh \in BOOLEAN,
           fresh \/ l.retry < MaxRetries
    PROVE  LET m == StateSent(l, e, v, fresh)
           IN  /\ LeafT(m) /\ m.tx = l.tx /\ SameSession(l, m) /\ SameRoute(l, m)
               /\ m.waiting /\ m.base = l.tx /\ m.field = e /\ m.pval = v
               /\ m.parent = l.parent /\ m.lastChan = l.lastChan
PROOF
  <1> DEFINE m == StateSent(l, e, v, fresh)
  <1> USE DEF StateSent, LeafT, Shaped, LeafFields
  <1>1. DOMAIN m = LeafFields /\ Numbered(m) /\ m.tx = l.tx
    BY DEF Numbered
  <1>2. Routed(m) /\ Counting(m)
    BY Bounds DEF Routed, Counting
  <1>3. Pending(m) /\ Holding(m)
    BY DEF Numbered, Pending, Holding, Positive
  <1>4. SameSession(l, m) /\ SameRoute(l, m)
    BY DEF SameSession, SameRoute
  <1>5. /\ m.waiting /\ m.base = l.tx /\ m.field = e /\ m.pval = v
        /\ m.parent = l.parent /\ m.lastChan = l.lastChan
    OBVIOUS
  <1> QED BY <1>1, <1>2, <1>3, <1>4, <1>5

LEMMA RefusedFacts ==
    ASSUME NEW l, LeafT(l), NEW e \in Entities
    PROVE  LET m == StateRefused(l, e)
           IN  /\ LeafT(m) /\ m.tx = l.tx /\ SameSession(l, m) /\ SameRoute(l, m)
               /\ ~m.waiting /\ m.dirty[e]
PROOF
  <1> DEFINE m == StateRefused(l, e)
  <1> USE DEF StateRefused, LeafT, Shaped, LeafFields
  <1>1. DOMAIN m = LeafFields /\ Numbered(m) /\ m.tx = l.tx
    BY DEF Numbered
  <1>2. Routed(m) /\ Counting(m)
    BY DEF Routed, Counting
  <1>3. Pending(m) /\ Holding(m) /\ m.dirty[e]
    BY DEF Pending, Holding
  <1>4. SameSession(l, m) /\ SameRoute(l, m) /\ ~m.waiting
    BY DEF SameSession, SameRoute
  <1> QED BY <1>1, <1>2, <1>3, <1>4

\* What loop() and handlers set besides: none of it is the session's.
Incidental ==
    {"sweep", "again", "tries", "delayed", "keyValid", "push", "syncTimer",
     "stateOk", "out", "cfg", "inFlight", "discovering"}

LEMMA IncidentalFacts ==
    ASSUME NEW l, LeafT(l), NEW m, DOMAIN m = LeafFields,
           \A x \in LeafFields \ Incidental : m[x] = l[x]
    PROVE  /\ LeafT(m) /\ m.tx = l.tx
           /\ SameTraffic(l, m) /\ SameSession(l, m) /\ SameRoute(l, m)
PROOF
  <1> USE DEF LeafFields, Incidental
  <1>1. Numbered(m) /\ m.tx = l.tx
    BY DEF LeafT, Shaped, Numbered
  <1>2. Routed(m) /\ Counting(m)
    BY DEF LeafT, Shaped, Routed, Counting
  <1>3. Pending(m) /\ Holding(m)
    BY DEF LeafT, Shaped, Pending, Holding
  <1>4. SameTraffic(l, m) /\ SameSession(l, m) /\ SameRoute(l, m)
    BY DEF SameTraffic, SameSession, SameRoute
  <1> QED BY <1>1, <1>2, <1>3, <1>4 DEF LeafT, Shaped

LEMMA RejectedFacts ==
    ASSUME NEW l, LeafOK(l)
    PROVE  /\ l.waitRejects + 1 >= MaxRetries => Forgets(l, JoinRejected(l))
           /\ ~(l.waitRejects + 1 >= MaxRetries) => Keeps(l, JoinRejected(l))
PROOF
  <1> USE DEF LeafFields
  <1>0. DOMAIN l = LeafFields /\ l.waitRejects \in 0 .. MaxRetries - 1 /\ MaxRetries \in Nat
    BY Bounds DEF LeafOK, LeafT, Shaped, Counting
  <1>1. PICK r : r = [l EXCEPT !.keyValid = FALSE, !.fast = FALSE, !.waitRejects = @ + 1]
    OBVIOUS
  <1>2. /\ DOMAIN r = LeafFields /\ r.waitRejects = l.waitRejects + 1
        /\ \A x \in LeafFields \ {"keyValid", "fast", "waitRejects"} : r[x] = l[x]
        /\ ~r.fast
    BY <1>0, <1>1
  <1>3. Shaped(r) /\ SameSession(l, r) /\ r.tx = l.tx
    <2>1. Numbered(r) /\ Routed(r)
      BY <1>2 DEF LeafOK, LeafT, Shaped, Numbered, Routed
    <2>2. Pending(r) /\ Holding(r) /\ SameSession(l, r) /\ r.tx = l.tx
      BY <1>2 DEF LeafOK, LeafT, Shaped, Pending, Holding, SameSession
    <2> QED BY <1>2, <2>1, <2>2 DEF Shaped
  <1>4. CASE l.waitRejects + 1 >= MaxRetries
    <2>1. JoinRejected(l) = StartDiscovery(r)
      BY <1>1, <1>2, <1>4 DEF JoinRejected
    <2> QED BY <1>3, <1>4, <2>1, DiscoveryFacts, ForgetsChain
  <1>5. CASE ~(l.waitRejects + 1 >= MaxRetries)
    <2>1. PICK m : m = [r EXCEPT !.inFlight = FALSE, !.delayed = TRUE, !.joinRetry = 0]
      OBVIOUS
    <2>2. /\ DOMAIN m = LeafFields /\ m.joinRetry = 0
          /\ \A x \in LeafFields \ {"inFlight", "delayed", "joinRetry"} : m[x] = r[x]
      BY <1>2, <2>1
    <2>3. m = JoinRejected(l)
      BY <1>1, <1>2, <1>5, <2>1 DEF JoinRejected
    <2>4. Numbered(m) /\ Routed(m) /\ m.tx = r.tx
      BY <1>3, <2>2 DEF Shaped, Numbered, Routed
    <2>5. Pending(m) /\ Holding(m) /\ SameSession(r, m)
      BY <1>3, <2>2 DEF Shaped, Pending, Holding, SameSession
    <2>6. Counting(m)
      <3>1. m.waitRejects = l.waitRejects + 1 /\ m.retry = l.retry /\ m.fails = l.fails
        BY <1>2, <2>2
      <3>2. m.waitRejects \in 0 .. MaxRetries - 1
        BY <1>0, <1>5, <3>1
      <3> QED BY <2>2, <3>1, <3>2, Bounds DEF LeafOK, LeafT, Counting
    <2>7. SameTraffic(l, m) /\ m.joined = l.joined /\ m.normal = l.normal /\ ~m.fast
          /\ m.resume = l.resume
      BY <1>2, <2>2 DEF SameTraffic
    <2>8. LeafOK(m)
      BY <2>2, <2>4, <2>5, <2>6, <2>7 DEF LeafOK, LeafT, Shaped, RouteOK
    <2>9. SameSession(l, m) /\ m.tx = l.tx /\ m.tx \in Nat
      BY <1>3, <2>4, <2>5 DEF SameSession, Numbered, Positive
    <2> QED BY <1>5, <2>3, <2>7, <2>8, <2>9 DEF Keeps, SameTraffic
  <1> QED BY <1>4, <1>5

\* m has joined with the nonce of l, through a JOIN_ACK with nonce n.
Joins(l, m, n) ==
    /\ LeafOK(m) /\ m.joined /\ m.key = <<n, l.nonce>>
    /\ m.nonce = l.nonce /\ m.hash = l.hash /\ m.val = l.val /\ m.cmd = l.cmd
    /\ m.tx >= l.tx
    /\ m.waiting => l.waiting /\ SameTraffic(l, m)

LEMMA JoinsChain ==
    ASSUME NEW l, NEW m, NEW n, NEW c, LeafOK(l), Joins(l, m, c), Keeps(m, n), n.joined
    PROVE  Joins(l, n, c)
  BY DEF Joins, Keeps, LeafOK, LeafT, Shaped, Numbered, Positive, SameSession, SameTraffic

LEMMA AcceptedFacts ==
    ASSUME NEW l, LeafOK(l), NEW f, f.nonce \in Nat, f.tx \in Nat
    PROVE  LET a == JoinAccepted(l, f)
           IN  /\ Joins(l, a, f.nonce)
               /\ Joins(l, [a EXCEPT !.push = FALSE, !.syncTimer = TRUE], f.nonce)
               /\ Joins(l, Resync(a), f.nonce)
               /\ Joins(l, JoinComplete(a), f.nonce)
PROOF
  <1> USE DEF LeafFields
  <1>0. DOMAIN l = LeafFields /\ Numbered(l) /\ Routed(l) /\ Counting(l) /\ Pending(l) /\ Holding(l)
    BY DEF LeafOK, LeafT, Shaped
  <1>1. PICK a : a = JoinAccepted(l, f)
    OBVIOUS
  <1>2. /\ DOMAIN a = LeafFields /\ a.joined /\ a.key = <<f.nonce, l.nonce>>
        /\ a.tx = l.tx /\ a.lastSeen = f.tx /\ a.joinRetry = 0
        /\ \A x \in LeafFields \ {"key", "keyValid", "joined", "fast", "discovering",
                                   "inFlight", "joinRetry", "lastSeen"} : a[x] = l[x]
    BY <1>0, <1>1 DEF JoinAccepted
  <1>3. Joins(l, a, f.nonce)
    <2>1. Numbered(a)
      BY <1>0, <1>2 DEF Numbered, Key, Positive
    <2>2. Routed(a) /\ Counting(a)
      BY <1>0, <1>2, Bounds DEF Routed, Counting
    <2>3. Pending(a) /\ Holding(a)
      BY <1>0, <1>2 DEF Pending, Holding
    <2>4. /\ a.nonce = l.nonce /\ a.hash = l.hash /\ a.val = l.val /\ a.cmd = l.cmd
          /\ SameTraffic(l, a) /\ a.waiting = l.waiting
      BY <1>2 DEF SameTraffic
    <2>5. LeafOK(a)
      BY <1>2, <2>1, <2>2, <2>3 DEF LeafOK, LeafT, Shaped, RouteOK
    <2> QED BY <1>0, <1>2, <2>4, <2>5 DEF Joins, Numbered, Positive
  <1>4. LeafT(a) /\ LeafOK(a) /\ DOMAIN a = LeafFields /\ a.joined
    BY <1>2, <1>3 DEF Joins, LeafOK
  <1>5. PICK p : p = [a EXCEPT !.push = FALSE, !.syncTimer = TRUE]
    OBVIOUS
  <1>6. DOMAIN p = LeafFields /\ \A x \in LeafFields \ Incidental : p[x] = a[x]
    BY <1>4, <1>5 DEF Incidental
  <1>7. Keeps(a, p) /\ p.joined
    <2>1. /\ LeafT(p) /\ p.tx = a.tx /\ SameTraffic(a, p) /\ SameSession(a, p)
          /\ SameRoute(a, p)
      BY <1>4, <1>6, IncidentalFacts
    <2>2. p.tx >= a.tx
      BY <1>4, <2>1 DEF LeafT, Shaped, Numbered, Positive
    <2> QED BY <1>4, <2>1, <2>2, SameKeeps DEF SameRoute
  <1>8. PICK r : r = Resync(a)
    OBVIOUS
  <1>9. /\ DOMAIN r = LeafFields /\ ~r.waiting /\ r.retry = 0
        /\ r.dirty \in [Entities -> BOOLEAN]
        /\ \A x \in LeafFields \ {"push", "waiting", "retry", "syncTimer", "dirty"} : r[x] = a[x]
    BY <1>4, <1>8 DEF Resync
  <1>10. Keeps(a, r) /\ r.joined
    <2>1. Numbered(r) /\ Routed(r) /\ r.tx = a.tx
      BY <1>4, <1>9 DEF LeafT, Shaped, Numbered, Routed
    <2>2. Counting(r) /\ Pending(r)
      BY <1>4, <1>9, Bounds DEF LeafT, Shaped, Counting, Pending
    <2>3. Holding(r) /\ SameSession(a, r) /\ r.joined
      BY <1>4, <1>9 DEF LeafT, Shaped, Holding, SameSession
    <2> QED BY <1>4, <1>9, <2>1, <2>2, <2>3
            DEF Keeps, LeafOK, LeafT, Shaped, RouteOK, Numbered, Positive
  <1>11. PICK c : c = JoinComplete(a)
    OBVIOUS
  <1>12. /\ DOMAIN c = LeafFields /\ c.fails = 0 /\ c.parent \in {"bridge", "zero"}
         /\ \A x \in LeafFields \ {"normal", "syncTimer", "push", "fails", "stateOk", "out",
                                    "parent"} : c[x] = a[x]
    BY <1>4, <1>11 DEF JoinComplete
  <1>13. Keeps(a, c) /\ c.joined
    <2>1. Numbered(c) /\ Routed(c) /\ c.tx = a.tx
      BY <1>4, <1>12 DEF LeafT, Shaped, Numbered, Routed
    <2>2. Counting(c) /\ Pending(c)
      BY <1>4, <1>12, Bounds DEF LeafT, Shaped, Counting, Pending
    <2>3. Holding(c) /\ SameSession(a, c) /\ SameTraffic(a, c) /\ c.joined
      BY <1>4, <1>12 DEF LeafT, Shaped, Holding, SameSession, SameTraffic
    <2> QED BY <1>4, <1>12, <2>1, <2>2, <2>3
            DEF Keeps, LeafOK, LeafT, Shaped, RouteOK, Numbered, Positive, SameTraffic
  <1> QED BY <1>1, <1>3, <1>5, <1>7, <1>8, <1>10, <1>11, <1>13, JoinsChain

-----------------------------------------------------------------------------
(* What is in the air.                                                     *)

UpT(f) ==
    /\ f.type \in {"DISCOVER", "JOIN", "HEARTBEAT", "STATE", "ACK", "SCHEMA_PUSH"}
    /\ f.type = "JOIN" => f.tx \in Nat /\ f.nonce \in Positive /\ f.hash \in Hashes
    /\ f.type \in {"HEARTBEAT", "STATE", "ACK", "SCHEMA_PUSH"} => f.tx \in Nat /\ f.key \in Key
    /\ f.type = "STATE" => f.entity \in Entities /\ f.value \in Nat
    /\ f.type = "SCHEMA_PUSH" => f.desc \in 0 .. NumEntities /\ f.of \in Hashes

DownT(f) ==
    /\ f.type \in {"ANNOUNCE", "JOIN_ACK", "ACK", "COMMAND", "CONFIG", "SCHEMA_REQUEST", "DEAUTH"}
    /\ f.type = "JOIN_ACK" => f.tx \in Nat /\ f.nonce \in Nat
    /\ f.type = "JOIN_ACK" /\ f.accepted => f.stage \in {"SCHEMA_REFRESH", "SEND_STATE", "COMPLETE"}
    /\ f.type = "ACK" => f.tx \in Nat /\ f.key \in Key /\ f.ref \in Nat
    /\ f.type = "COMMAND" => f.tx \in Nat /\ f.entity \in Entities /\ f.id \in Positive
    /\ f.type = "CONFIG" => f.tx \in Nat
    /\ f.type = "SCHEMA_REQUEST" => f.tx \in Nat /\ f.key \in Key /\ f.desc \in Nat

AirOK ==
    /\ tuned \in 1 .. NumChannels /\ faults \in 0 .. MaxFaults
    /\ Fits(up) /\ \A f \in Frames(up) : UpT(f)
    /\ Fits(down) /\ \A f \in Frames(down) : DownT(f)

-----------------------------------------------------------------------------
(* The steps of the leaf.                                                  *)

\* A schema is sent when it was asked for.
Asked(f) ==
    /\ leaf.joined /\ f.key = leaf.key /\ f.of = leaf.hash
    /\ \E g \in Frames(down) : g.type = "SCHEMA_REQUEST" /\ g.key = f.key /\ g.desc = f.desc

\* A STATE is the one the leaf waits for from now on.
Awaited(f) ==
    /\ leaf.joined /\ f.key = leaf.key /\ leaf'.nonce = leaf.nonce
    /\ leaf'.waiting /\ f.tx = leaf'.base /\ f.tx >= leaf.tx
    /\ f.entity = leaf'.field /\ f.value = leaf'.pval

\* What the leaf may send in a step.
MaySend(f) ==
    /\ UpT(f)
    /\ f.type = "JOIN" => f.nonce = leaf'.nonce /\ f.hash = leaf'.hash
    /\ f.type = "SCHEMA_PUSH" => Asked(f)
    /\ f.type = "STATE" => Awaited(f)

\* It waits for what it waited for, or for a STATE of now, which has the
\* value of now or is a retry of the last one.
WaitsOn(l, m) ==
    m.waiting =>
      \/ l.waiting /\ SameTraffic(l, m)
      \/ /\ m.base >= l.tx /\ m.base < m.tx
         /\ \/ m.pval = l.val[m.field]
            \/ l.waiting /\ m.field = l.field /\ m.pval = l.pval

\* The key stays, or is made of a JOIN_ACK.
KeyOf(l, m) ==
    \/ m.key = l.key /\ (m.joined => l.joined)
    \/ /\ m.joined
       /\ \E f \in Frames(down) : f.type = "JOIN_ACK" /\ m.key = <<f.nonce, l.nonce>>

\* An entity changes, or none does.
Grows(v, w) == w = v \/ \E e \in Entities : w = [v EXCEPT ![e] = @ + 1]

GoesOn(l, m) ==
    /\ LeafOK(m) /\ m.nonce = l.nonce /\ m.hash = l.hash /\ m.tx >= l.tx
    /\ Grows(l.val, m.val)
    /\ KeyOf(l, m) /\ WaitsOn(l, m)

LeafStep ==
    /\ GoesOn(leaf, leaf') \/ StartsOver(leaf, leaf')
    /\ Fits(up') /\ \A f \in Frames(up') : f \in Frames(up) \/ MaySend(f)
    /\ tuned' \in 1 .. NumChannels

\* No command may be carried out again, unless the leaf has booted.
Remembers == \A e \in Entities : leaf'.cmd[e] >= leaf.cmd[e]

\* Time to boot, or not to forget.
LeafActs == LeafStep /\ Remembers
LeafBoots == LeafStep /\ (Remembers \/ leaf'.tx = 1)

LeafReady == LeafOK(leaf) /\ AirOK

LEMMA KeepsGoesOn ==
    ASSUME NEW l, LeafOK(l), NEW m, Keeps(l, m)
    PROVE  /\ GoesOn(l, m) /\ \A e \in Entities : m.cmd[e] >= l.cmd[e]
           /\ m.val = l.val /\ m.nonce = l.nonce /\ m.hash = l.hash
PROOF
  <1>1. /\ l.val \in [Entities -> Positive] /\ l.cmd \in [Entities -> Nat]
        /\ m.val = l.val /\ m.cmd = l.cmd
    BY DEF LeafOK, LeafT, Shaped, Holding, Keeps, SameSession
  <1>2. Grows(l.val, m.val) /\ (\A e \in Entities : m.cmd[e] >= l.cmd[e])
    BY <1>1 DEF Grows
  <1> QED BY <1>1, <1>2 DEF Keeps, GoesOn, KeyOf, WaitsOn, SameSession

LEMMA JoinsGoesOn ==
    ASSUME NEW l, LeafOK(l), NEW m, NEW f \in Frames(down), f.type = "JOIN_ACK",
           Joins(l, m, f.nonce)
    PROVE  GoesOn(l, m) /\ \A e \in Entities : m.cmd[e] >= l.cmd[e]
PROOF
  <1>1. /\ l.val \in [Entities -> Positive] /\ l.cmd \in [Entities -> Nat]
        /\ m.val = l.val /\ m.cmd = l.cmd
    BY DEF LeafOK, LeafT, Shaped, Holding, Joins
  <1>2. Grows(l.val, m.val) /\ (\A e \in Entities : m.cmd[e] >= l.cmd[e])
    BY <1>1 DEF Grows
  <1> QED BY <1>1, <1>2 DEF Joins, GoesOn, KeyOf, WaitsOn

LEMMA ForgetsRemembers ==
    ASSUME NEW l, LeafOK(l), NEW m, Forgets(l, m)
    PROVE  StartsOver(l, m) /\ \A e \in Entities : m.cmd[e] >= l.cmd[e]
PROOF
  <1>1. l.cmd \in [Entities -> Nat] /\ m.cmd = l.cmd
    BY DEF LeafOK, LeafT, Shaped, Holding, Forgets
  <1> QED BY <1>1 DEF Forgets

\* Nothing is sent.
LEMMA SilentActs ==
    ASSUME LeafReady, UNCHANGED up, tuned' \in 1 .. NumChannels,
           Keeps(leaf, leaf') \/ Forgets(leaf, leaf')
    PROVE  LeafActs
PROOF
  <1>1. Fits(up') /\ \A f \in Frames(up') : f \in Frames(up)
    BY DEF LeafReady, AirOK
  <1> QED BY <1>1, KeepsGoesOn, ForgetsRemembers DEF LeafReady, LeafActs, LeafStep, Remembers

\* One frame is sent, or refused.
Reaches(f) == Fits(up') /\ Frames(up') \subseteq Frames(up) \cup {f}

LEMMA SendFacts ==
    ASSUME LeafReady, NEW l, LeafOK(l), NEW f, NEW ok, Send(l, f, ok) \/ SendHome(l, f, ok)
    PROVE  /\ Keeps(l, leaf') /\ leaf'.tx = l.tx + 1 /\ SameRoute(l, leaf')
           /\ SameTraffic(l, leaf') /\ Reaches(f)
PROOF
  <1>1. PICK n : n = NextTx(l) /\ LeafT(n) /\ n.tx = l.tx + 1
                 /\ SameTraffic(l, n) /\ SameSession(l, n) /\ SameRoute(l, n)
    BY NextTxFacts DEF LeafOK
  <1>2. PICK c : c = Counted(n, ok) /\ LeafT(c) /\ c.tx = n.tx
                 /\ SameTraffic(n, c) /\ SameSession(n, c) /\ SameRoute(n, c)
    BY <1>1, CountedFacts
  <1>3. leaf' = c
    BY <1>1, <1>2 DEF Send, SendHome
  <1>4. SameTraffic(l, c) /\ SameSession(l, c) /\ SameRoute(l, c) /\ c.tx = l.tx + 1
    BY <1>1, <1>2 DEF SameTraffic, SameSession, SameRoute
  <1>5. c.tx >= l.tx
    BY <1>4 DEF LeafOK, LeafT, Shaped, Numbered, Positive
  <1>6. up' = up \/ up' = Enqueue(up, f)
    BY DEF Send, SendHome, Air, ToBridge
  <1>7. Fits(up)
    BY DEF LeafReady, AirOK
  <1> QED BY <1>2, <1>3, <1>4, <1>5, <1>6, <1>7, SameKeeps, EnqueueFits DEF Reaches

\* The leaf goes on or starts over, and knows the commands it knew.
Follows(l, m) ==
    /\ GoesOn(l, m) \/ StartsOver(l, m)
    /\ \A e \in Entities : m.cmd[e] >= l.cmd[e]

LEMMA FollowsFacts ==
    ASSUME NEW l, LeafOK(l), NEW m,
           \/ Keeps(l, m) \/ Forgets(l, m)
           \/ \E f \in Frames(down) : f.type = "JOIN_ACK" /\ Joins(l, m, f.nonce)
    PROVE  Follows(l, m)
  BY KeepsGoesOn, ForgetsRemembers, JoinsGoesOn DEF Follows

LEMMA FollowsChain ==
    ASSUME NEW l, LeafOK(l), NEW m, Follows(l, m), NEW n, Keeps(m, n), SameRoute(m, n)
    PROVE  Follows(l, n)
PROOF
  <1>1. /\ LeafOK(n) /\ n.nonce = m.nonce /\ n.key = m.key /\ n.hash = m.hash
        /\ n.val = m.val /\ n.cmd = m.cmd /\ n.tx >= m.tx /\ n.joined = m.joined
        /\ n.waiting => m.waiting /\ SameTraffic(m, n)
    BY DEF Keeps, SameSession, SameRoute
  <1>2. LeafOK(m)
    BY DEF Follows, GoesOn, StartsOver
  <1>3. l.tx \in Nat /\ m.tx \in Nat /\ n.tx \in Nat
    BY <1>1, <1>2 DEF LeafOK, LeafT, Shaped, Numbered, Positive
  <1>4. CASE GoesOn(l, m)
    <2>1. KeyOf(l, n)
      BY <1>1, <1>4 DEF GoesOn, KeyOf
    <2>2. WaitsOn(l, n)
      <3>1. ASSUME n.waiting, l.waiting, SameTraffic(l, m) PROVE SameTraffic(l, n)
        BY <1>1, <3>1 DEF SameTraffic
      <3>2. ASSUME n.waiting, m.base >= l.tx, m.base < m.tx
            PROVE  n.base >= l.tx /\ n.base < n.tx
        <4>1. n.base = m.base /\ m.base \in Nat
          BY <1>1, <1>2, <3>2 DEF SameTraffic, LeafOK, LeafT, Shaped, Pending
        <4> QED BY <1>1, <1>3, <3>2, <4>1
      <3>3. n.waiting => n.field = m.field /\ n.pval = m.pval /\ m.waiting
        BY <1>1 DEF SameTraffic
      <3> QED BY <1>4, <3>1, <3>2, <3>3 DEF GoesOn, WaitsOn
    <2>3. n.tx >= l.tx
      BY <1>1, <1>3, <1>4 DEF GoesOn
    <2> QED BY <1>1, <1>4, <2>1, <2>2, <2>3 DEF Follows, GoesOn
  <1>5. CASE StartsOver(l, m)
    BY <1>1, <1>5 DEF Follows, StartsOver
  <1> QED BY <1>4, <1>5 DEF Follows

LEMMA FollowsActs ==
    ASSUME LeafReady, UNCHANGED up, tuned' \in 1 .. NumChannels, Follows(leaf, leaf')
    PROVE  LeafActs
PROOF
  <1>1. Fits(up') /\ \A f \in Frames(up') : f \in Frames(up)
    BY DEF LeafReady, AirOK
  <1> QED BY <1>1 DEF LeafActs, LeafStep, Remembers, Follows

\* A frame that is not a STATE goes out.
LEMMA SendActs ==
    ASSUME LeafReady, NEW l, NEW f, NEW ok, tuned' \in 1 .. NumChannels,
           Follows(leaf, l), Send(l, f, ok) \/ SendHome(l, f, ok),
           UpT(f), f.type # "STATE",
           f.type = "JOIN" => f.nonce = l.nonce /\ f.hash = l.hash,
           f.type = "SCHEMA_PUSH" => Asked(f)
    PROVE  LeafActs
PROOF
  <1>1. LeafOK(l)
    BY DEF Follows, GoesOn, StartsOver
  <1>2. Keeps(l, leaf') /\ SameRoute(l, leaf') /\ Reaches(f)
    BY <1>1, SendFacts
  <1>3. leaf'.nonce = l.nonce /\ leaf'.hash = l.hash
    BY <1>2 DEF Keeps, SameSession
  <1>4. MaySend(f)
    BY <1>3 DEF MaySend
  <1>5. Follows(leaf, leaf')
    BY <1>2, FollowsChain DEF LeafReady
  <1> QED BY <1>2, <1>4, <1>5 DEF LeafActs, LeafStep, Remembers, Reaches, Follows

\* A STATE goes out; a refused one is not waited for.
LEMMA StateActs ==
    ASSUME LeafReady, NEW l, NEW e \in Entities, NEW v \in Nat, NEW fresh \in BOOLEAN,
           NEW ok \in BOOLEAN, tuned' \in 1 .. NumChannels,
           LeafOK(l), Keeps(leaf, l), l.joined, fresh \/ l.retry < MaxRetries,
           v = leaf.val[e] \/ (leaf.waiting /\ e = leaf.field /\ v = leaf.pval),
           SendState(l, e, v, fresh, ok) \/ SendState8266(l, e, v, fresh, ok)
    PROVE  LeafActs
PROOF
  <1> DEFINE s == IF ok THEN StateSent(l, e, v, fresh) ELSE StateRefused(l, e)
             f == State(l, e, v)
  <1>1. Send(s, f, ok) \/ SendHome(s, f, ok)
    BY DEF SendState, SendState8266
  <1>2. /\ LeafT(s) /\ s.tx = l.tx /\ SameSession(l, s) /\ SameRoute(l, s)
        /\ ~ok => ~s.waiting
        /\ ok => s.waiting /\ s.base = l.tx /\ s.field = e /\ s.pval = v
    <2>1. CASE ok
      BY <2>1, SentFacts DEF LeafOK
    <2>2. CASE ~ok
      BY <2>2, RefusedFacts DEF LeafOK
    <2> QED BY <2>1, <2>2
  <1>3. LeafOK(s)
    BY <1>2 DEF LeafOK, RouteOK, SameRoute
  <1>4. /\ f.type = "STATE" /\ f.tx = l.tx /\ f.key = l.key /\ f.entity = e /\ f.value = v
        /\ UpT(f)
    BY DEF State, UpT, LeafOK, LeafT, Shaped, Numbered, Positive
  <1> HIDE DEF s, f
  <1>5. Keeps(s, leaf') /\ leaf'.tx = l.tx + 1 /\ SameTraffic(s, leaf') /\ Reaches(f)
    <2>1. Keeps(s, leaf') /\ leaf'.tx = s.tx + 1 /\ SameTraffic(s, leaf') /\ Reaches(f)
      BY <1>1, <1>3, SendFacts
    <2> QED BY <1>2, <2>1
  <1>6. /\ leaf'.nonce = leaf.nonce /\ leaf'.key = leaf.key /\ leaf'.hash = leaf.hash
        /\ leaf'.val = leaf.val /\ leaf'.cmd = leaf.cmd
        /\ leaf.joined /\ LeafOK(leaf') /\ l.tx >= leaf.tx /\ l.key = leaf.key
        /\ l.tx \in Nat /\ leaf.tx \in Nat
    BY <1>2, <1>5 DEF LeafReady, LeafOK, LeafT, Shaped, Numbered, Positive, Keeps, SameSession
  <1>7. WaitsOn(leaf, leaf')
    <2>1. CASE ok
      <3>1. leaf'.base = l.tx /\ leaf'.field = e /\ leaf'.pval = v
        BY <1>2, <1>5, <2>1 DEF SameTraffic
      <3>2. leaf'.base >= leaf.tx /\ leaf'.base < leaf'.tx
        BY <1>5, <1>6, <3>1
      <3> QED BY <3>1, <3>2 DEF WaitsOn
    <2>2. CASE ~ok
      BY <1>2, <1>5, <2>2 DEF WaitsOn, SameTraffic
    <2> QED BY <2>1, <2>2
  <1>8. GoesOn(leaf, leaf') /\ Remembers
    <2>1. leaf.val \in [Entities -> Positive] /\ leaf.cmd \in [Entities -> Nat]
      BY DEF LeafReady, LeafOK, LeafT, Shaped, Holding
    <2>2. Grows(leaf.val, leaf'.val) /\ \A x \in Entities : leaf'.cmd[x] >= leaf.cmd[x]
      BY <1>6, <2>1 DEF Grows
    <2>3. leaf'.tx >= leaf.tx
      BY <1>5, <1>6
    <2> QED BY <1>6, <1>7, <2>2, <2>3 DEF GoesOn, KeyOf, Remembers
  <1>9. ok => MaySend(f)
    BY <1>2, <1>4, <1>5, <1>6 DEF MaySend, Awaited, SameTraffic
  <1>10. ~ok => UNCHANGED up
    BY <1>1 DEF Send, SendHome, Air
  <1> QED BY <1>5, <1>8, <1>9, <1>10 DEF LeafActs, LeafStep, Reaches

LEMMA TunedFacts ==
    ASSUME LeafReady
    PROVE  /\ Untouched => tuned' \in 1 .. NumChannels
           /\ Retune(1) => tuned' \in 1 .. NumChannels
           /\ tuned \in 1 .. NumChannels
  BY Bounds DEF LeafReady, AirOK, Untouched, Retune

\* loop() of the leaf where it sends nothing: routes given up and regained.
LEMMA StartsOverActs ==
    ASSUME LeafReady, JoinExhausted \/ JoinedTimeout
    PROVE  LeafActs
PROOF
  <1>1. leaf' = StartDiscovery(leaf) /\ UNCHANGED up /\ Retune(1)
    BY DEF JoinExhausted, JoinedTimeout, Silent
  <1>2. Forgets(leaf, StartDiscovery(leaf))
    BY DiscoveryFacts DEF LeafReady, LeafOK, LeafT
  <1> QED BY <1>1, <1>2, TunedFacts, SilentActs

LEMMA RecoversActs ==
    ASSUME LeafReady,
           \/ SendFailureStall \/ StateStall \/ TopologyRefresh
           \/ SendFailureStall8266 \/ StateStall8266 \/ TopologyRefresh8266
    PROVE  LeafActs
PROOF
  <1>1. leaf' \in {StartRecovery(leaf), StartRecovery8266(leaf)} /\ UNCHANGED up /\ Untouched
    BY DEF SendFailureStall, StateStall, TopologyRefresh, SendFailureStall8266,
           StateStall8266, TopologyRefresh8266, Silent, Recover
  <1>2. leaf.joined
    BY DEF SendFailureStall, StateStall, TopologyRefresh, SendFailureStall8266,
           StateStall8266, TopologyRefresh8266, InSession, LeafReady, LeafOK, RouteOK
  <1>3. Keeps(leaf, StartRecovery(leaf)) /\ Keeps(leaf, StartRecovery8266(leaf))
    BY <1>2, RecoveryFacts DEF LeafReady
  <1> QED BY <1>1, <1>3, TunedFacts, SilentActs

LEMMA ExhaustedActs ==
    ASSUME LeafReady, StateExhausted \/ StateExhausted8266
    PROVE  LeafActs
PROOF
  <1>1. PICK l : l = [leaf EXCEPT !.waiting = FALSE, !.retry = 0, !.dirty[leaf.field] = TRUE]
    OBVIOUS
  <1>2. /\ leaf' \in {StartRecovery(l), StartRecovery8266(l)} /\ UNCHANGED up /\ Untouched
        /\ leaf.joined
    BY <1>1 DEF StateExhausted, StateExhausted8266, Silent, InSession
  <1>3. DOMAIN leaf = LeafFields /\ leaf.dirty \in [Entities -> BOOLEAN]
    BY DEF LeafReady, LeafOK, LeafT, Shaped, Holding
  <1>4. /\ DOMAIN l = LeafFields /\ ~l.waiting /\ l.retry = 0
        /\ l.dirty \in [Entities -> BOOLEAN]
        /\ \A x \in LeafFields \ {"waiting", "retry", "dirty"} : l[x] = leaf[x]
    BY <1>1, <1>3 DEF LeafFields
  <1>5. LeafT(l)
    <2> USE DEF LeafFields
    <2>1. Numbered(l) /\ Routed(l)
      BY <1>4 DEF LeafReady, LeafOK, LeafT, Shaped, Numbered, Routed
    <2>2. Counting(l) /\ Pending(l)
      BY <1>4, Bounds DEF LeafReady, LeafOK, LeafT, Shaped, Counting, Pending
    <2>3. Holding(l)
      BY <1>4 DEF LeafReady, LeafOK, LeafT, Shaped, Holding
    <2> QED BY <1>4, <2>1, <2>2, <2>3 DEF LeafT, Shaped
  <1>6. /\ l.joined = leaf.joined /\ l.normal = leaf.normal /\ l.fast = leaf.fast
        /\ l.resume = leaf.resume /\ SameSession(leaf, l) /\ l.tx = leaf.tx
    BY <1>4 DEF LeafFields, SameSession
  <1>7. Keeps(leaf, l) /\ LeafOK(l)
    BY <1>4, <1>5, <1>6
       DEF Keeps, LeafReady, LeafOK, LeafT, Shaped, RouteOK, Numbered, Positive
  <1>8. Keeps(l, StartRecovery(l)) /\ Keeps(l, StartRecovery8266(l))
    BY <1>2, <1>6, <1>7, RecoveryFacts
  <1>9. Keeps(leaf, leaf')
    BY <1>2, <1>7, <1>8, KeepsChain DEF LeafReady
  <1> QED BY <1>2, <1>9, TunedFacts, SilentActs

\* A candidate is found, and the window closes on it.
LEMMA CandidateActs ==
    ASSUME LeafReady, HandleAnnounce \/ CloseWindow
    PROVE  LeafActs
PROOF
  <1>1. PICK m : m = leaf'
    OBVIOUS
  <1>2. UNCHANGED up /\ Untouched /\ DOMAIN leaf = LeafFields /\ tuned \in 0 .. NumChannels
    BY Bounds DEF HandleAnnounce, CloseWindow, Silent, LeafReady, LeafOK, LeafT, Shaped, AirOK
  <1>3. /\ DOMAIN m = LeafFields /\ m.best \in {leaf.best, tuned}
        /\ \A x \in LeafFields \ {"best", "sweep"} : m[x] = leaf[x]
    BY <1>1, <1>2 DEF HandleAnnounce, CloseWindow, Silent, LeafFields
  <1>4. LeafT(m) /\ m.tx = leaf.tx
    <2> USE DEF LeafFields
    <2>1. Numbered(m) /\ Routed(m) /\ m.tx = leaf.tx
      BY <1>2, <1>3 DEF LeafReady, LeafOK, LeafT, Shaped, Numbered, Routed
    <2>2. Counting(m) /\ Pending(m)
      BY <1>3 DEF LeafReady, LeafOK, LeafT, Shaped, Counting, Pending
    <2>3. Holding(m)
      BY <1>3 DEF LeafReady, LeafOK, LeafT, Shaped, Holding
    <2> QED BY <1>3, <2>1, <2>2, <2>3 DEF LeafT, Shaped
  <1>5. SameTraffic(leaf, m) /\ SameSession(leaf, m) /\ SameRoute(leaf, m)
    BY <1>3 DEF LeafFields, SameTraffic, SameSession, SameRoute
  <1>6. m.tx >= leaf.tx
    BY <1>4 DEF LeafT, Shaped, Numbered, Positive
  <1>7. Keeps(leaf, m)
    BY <1>4, <1>5, <1>6, SameKeeps DEF LeafReady
  <1> QED BY <1>1, <1>2, <1>7, TunedFacts, SilentActs

\* DISCOVER, on the channel of the last parent or the next of the sweep.
LEMMA BroadcastActs ==
    ASSUME LeafReady, NEW l, Keeps(leaf, l), NEW c \in 1 .. NumChannels, NEW ok,
           Broadcast(l, c, ok)
    PROVE  LeafActs
PROOF
  <1>1. LeafT(l) /\ LeafOK(l)
    BY DEF Keeps, LeafOK
  <1>2. PICK m : m = Counted(l, ok) /\ LeafT(m) /\ m.tx = l.tx
                 /\ SameTraffic(l, m) /\ SameSession(l, m) /\ SameRoute(l, m)
    BY <1>1, CountedFacts
  <1>3. m.tx >= l.tx
    BY <1>1, <1>2 DEF LeafT, Shaped, Numbered, Positive
  <1>4. leaf' = m /\ Keeps(leaf, m)
    <2>1. Keeps(l, m)
      BY <1>1, <1>2, <1>3, SameKeeps
    <2> QED BY <1>2, <2>1, KeepsChain DEF Broadcast, LeafReady
  <1>5. UpT(Discover) /\ Discover.type = "DISCOVER"
    BY DEF UpT, Discover
  <1>6. Reaches(Discover)
    <2>1. up' = up \/ up' = Enqueue(up, Discover)
      BY DEF Broadcast, ToBridge
    <2> QED BY <2>1, EnqueueFits DEF Reaches, LeafReady, AirOK
  <1>7. MaySend(Discover)
    BY <1>5 DEF MaySend
  <1>8. tuned' \in 1 .. NumChannels
    BY DEF Broadcast, Retune
  <1> QED BY <1>4, <1>6, <1>7, <1>8, KeepsGoesOn
          DEF LeafReady, LeafActs, LeafStep, Remembers, Reaches

LEMMA DiscoverActs ==
    ASSUME LeafReady, NEW ok, SendDiscover(ok)
    PROVE  LeafActs
PROOF
  <1>1. DOMAIN leaf = LeafFields /\ LeafT(leaf) /\ RouteOK(leaf)
    BY DEF LeafReady, LeafOK, LeafT, Shaped
  <1>2. /\ leaf.lastChan \in 1 .. NumChannels /\ leaf.chIdx \in 0 .. NumChannels
        /\ leaf.tx \in Nat
    BY <1>1 DEF LeafT, Shaped, Routed, Numbered, Positive
  <1>3. ASSUME NEW m, DOMAIN m = LeafFields, m.chIdx \in 0 .. NumChannels,
               \A x \in LeafFields \ {"again", "tries", "chIdx", "fast", "resume"} :
                  m[x] = leaf[x],
               m.fast => leaf.fast, m.resume => leaf.resume \/ leaf.fast
        PROVE  Keeps(leaf, m)
    <2> USE DEF LeafFields
    <2>1. Numbered(m) /\ Routed(m) /\ m.tx = leaf.tx
      BY <1>1, <1>3 DEF LeafT, Shaped, Numbered, Routed
    <2>2. Counting(m) /\ Pending(m)
      BY <1>1, <1>3 DEF LeafT, Shaped, Counting, Pending
    <2>3. Holding(m)
      BY <1>1, <1>3 DEF LeafT, Shaped, Holding
    <2>4. SameTraffic(leaf, m) /\ SameSession(leaf, m) /\ m.joined = leaf.joined
          /\ m.normal = leaf.normal /\ m.waiting = leaf.waiting
      BY <1>3 DEF SameTraffic, SameSession
    <2>5. LeafOK(m)
      BY <1>1, <1>3, <2>1, <2>2, <2>3, <2>4 DEF LeafOK, LeafT, Shaped, RouteOK
    <2> QED BY <1>2, <2>1, <2>4, <2>5 DEF Keeps
  <1>4. ASSUME NEW m, NEW i \in Nat, i < NumChannels, DOMAIN m = LeafFields,
               \A x \in LeafFields \ {"again", "tries", "fast", "resume"} : m[x] = leaf[x],
               m.fast => leaf.fast, m.resume => leaf.resume \/ leaf.fast,
               SweepOn(m, i, ok)
        PROVE  LeafActs
    <2>1. PICK n : n = [m EXCEPT !.chIdx = i + 1]
      OBVIOUS
    <2>2. i + 1 \in 1 .. NumChannels /\ i + 1 \in 0 .. NumChannels
      BY <1>4, Bounds
    <2>3. /\ DOMAIN n = LeafFields /\ n.chIdx = i + 1
          /\ \A x \in LeafFields \ {"again", "tries", "chIdx", "fast", "resume"} : n[x] = leaf[x]
          /\ n.fast = m.fast /\ n.resume = m.resume
      BY <1>4, <2>1 DEF LeafFields
    <2>4. Keeps(leaf, n)
      BY <1>3, <1>4, <2>2, <2>3
    <2>5. Broadcast(n, i + 1, ok)
      BY <1>4, <2>1 DEF SweepOn
    <2> QED BY <2>2, <2>4, <2>5, BroadcastActs
  <1>5. CASE leaf.again /\ leaf.fast
             /\ Broadcast([leaf EXCEPT !.again = FALSE, !.tries = MoreTries(@)], leaf.lastChan, ok)
    <2>1. PICK m : m = [leaf EXCEPT !.again = FALSE, !.tries = MoreTries(@)]
      OBVIOUS
    <2>2. Keeps(leaf, m)
      <3>1. /\ DOMAIN m = LeafFields /\ m.chIdx = leaf.chIdx
            /\ m.fast = leaf.fast /\ m.resume = leaf.resume
            /\ \A x \in LeafFields \ {"again", "tries"} : m[x] = leaf[x]
        BY <1>1, <2>1 DEF LeafFields
      <3> QED BY <1>2, <1>3, <3>1
    <2> QED BY <1>2, <1>5, <2>1, <2>2, BroadcastActs
  <1>6. CASE leaf.again /\ ~leaf.fast
             /\ SweepOn([leaf EXCEPT !.again = FALSE],
                        IF leaf.chIdx >= NumChannels THEN 0 ELSE leaf.chIdx, ok)
    <2>1. PICK m, i : m = [leaf EXCEPT !.again = FALSE]
                      /\ i = IF leaf.chIdx >= NumChannels THEN 0 ELSE leaf.chIdx
      OBVIOUS
    <2>2. i \in Nat /\ i < NumChannels
      BY <1>2, <2>1, Bounds
    <2>3. /\ DOMAIN m = LeafFields /\ m.fast = leaf.fast /\ m.resume = leaf.resume
          /\ \A x \in LeafFields \ {"again", "tries", "fast", "resume"} : m[x] = leaf[x]
      BY <1>1, <2>1 DEF LeafFields
    <2> QED BY <1>4, <1>6, <2>1, <2>2, <2>3
  <1>7. CASE leaf.fast /\ leaf.tries = 0 /\ Broadcast([leaf EXCEPT !.tries = 1], leaf.lastChan, ok)
    <2>1. PICK m : m = [leaf EXCEPT !.tries = 1]
      OBVIOUS
    <2>2. Keeps(leaf, m)
      BY <1>1, <1>2, <1>3, <2>1 DEF LeafFields
    <2> QED BY <1>2, <1>7, <2>1, <2>2, BroadcastActs
  <1>8. CASE Silent([leaf EXCEPT !.again = TRUE]) /\ Untouched
    <2>1. PICK m : m = [leaf EXCEPT !.again = TRUE]
      OBVIOUS
    <2>2. Keeps(leaf, m)
      BY <1>1, <1>2, <1>3, <2>1 DEF LeafFields
    <2> QED BY <1>8, <2>1, <2>2, TunedFacts, SilentActs DEF Silent
  <1>9. CASE leaf.fast
             /\ SweepOn([leaf EXCEPT !.fast = FALSE, !.tries = 0, !.resume = TRUE], 0, ok)
    <2>1. PICK m : m = [leaf EXCEPT !.fast = FALSE, !.tries = 0, !.resume = TRUE]
      OBVIOUS
    <2>2. /\ DOMAIN m = LeafFields /\ ~m.fast
          /\ \A x \in LeafFields \ {"again", "tries", "fast", "resume"} : m[x] = leaf[x]
      BY <1>1, <2>1 DEF LeafFields
    <2> QED BY <1>4, <1>9, <2>1, <2>2, Bounds
  <1>10. CASE Silent([leaf EXCEPT !.again = TRUE, !.chIdx = 0]) /\ Untouched
    <2>1. PICK m : m = [leaf EXCEPT !.again = TRUE, !.chIdx = 0]
      OBVIOUS
    <2>2. Keeps(leaf, m)
      <3>1. /\ DOMAIN m = LeafFields /\ m.chIdx = 0
            /\ m.fast = leaf.fast /\ m.resume = leaf.resume
            /\ \A x \in LeafFields \ {"again", "chIdx"} : m[x] = leaf[x]
        BY <1>1, <2>1 DEF LeafFields
      <3> QED BY <1>3, <3>1, Bounds
    <2> QED BY <1>10, <2>1, <2>2, TunedFacts, SilentActs DEF Silent
  <1>11. CASE leaf.chIdx < NumChannels /\ SweepOn(leaf, leaf.chIdx, ok)
    BY <1>1, <1>2, <1>4, <1>11
  <1> QED BY <1>5, <1>6, <1>7, <1>8, <1>9, <1>10, <1>11 DEF SendDiscover

\* A heartbeat goes out, of a leaf that is in its session.
LEMMA HeartbeatActs ==
    ASSUME LeafReady, NEW l, Follows(leaf, l), NEW ok,
           (SendHeartbeat(l, ok) /\ Untouched) \/ SendHeartbeat8266(l, ok)
    PROVE  LeafActs
PROOF
  <1>1. LeafOK(l)
    BY DEF Follows, GoesOn, StartsOver
  <1>2. UpT(Heartbeat(l)) /\ Heartbeat(l).type = "HEARTBEAT"
    BY <1>1 DEF UpT, Heartbeat, LeafOK, LeafT, Shaped, Numbered, Positive
  <1>3. CASE Silent(l) /\ Untouched
    BY <1>3, TunedFacts, FollowsActs DEF Silent
  <1>4. CASE (Send(l, Heartbeat(l), ok) /\ Untouched) \/ SendHome(l, Heartbeat(l), ok)
    <2>1. tuned' \in 1 .. NumChannels
      BY <1>1, <1>4, TunedFacts DEF SendHome, Home, LeafOK, LeafT, Shaped, Routed
    <2>2. Send(l, Heartbeat(l), ok) \/ SendHome(l, Heartbeat(l), ok)
      BY <1>4
    <2> QED BY <1>2, <2>1, <2>2, SendActs
  <1> QED BY <1>3, <1>4 DEF SendHeartbeat, SendHeartbeat8266

LEMMA AdoptActs ==
    ASSUME LeafReady, NEW ok, AdoptParent(ok) \/ AdoptParent8266(ok)
    PROVE  LeafActs
PROOF
  <1>1. leaf.joined /\ leaf.best # 0
    BY DEF AdoptParent, AdoptParent8266, AdoptReady, LeafReady, LeafOK, RouteOK
  <1>2. Follows(leaf, Adopted(leaf)) /\ Follows(leaf, Adopted8266(leaf))
    BY <1>1, AdoptFacts, FollowsFacts DEF LeafReady
  <1> QED BY <1>2, HeartbeatActs DEF AdoptParent, AdoptParent8266

LEMMA BeatActs ==
    ASSUME LeafReady, NEW ok, HeartbeatDue(ok) \/ HeartbeatDue8266(ok)
    PROVE  LeafActs
PROOF
  <1>1. Follows(leaf, leaf)
    BY KeepsItself, FollowsFacts DEF LeafReady
  <1> QED BY <1>1, HeartbeatActs DEF HeartbeatDue, HeartbeatDue8266

LEMMA JoinFrame ==
    ASSUME NEW l, LeafOK(l)
    PROVE  /\ UpT(Join(l)) /\ Join(l).type = "JOIN"
           /\ Join(l).nonce = l.nonce /\ Join(l).hash = l.hash
  BY DEF UpT, Join, LeafOK, LeafT, Shaped, Numbered, Positive

LEMMA TryJoinActs ==
    ASSUME LeafReady, NEW ok, TryJoin(ok) \/ TryJoin8266(ok)
    PROVE  LeafActs
PROOF
  <1>1. PICK l : l = [leaf EXCEPT !.lastChan = leaf.best, !.inFlight = FALSE, !.parent = "bridge"]
    OBVIOUS
  <1>2. /\ leaf.best # 0 /\ JoinRetriesLeft(leaf.joinRetry)
        /\ \/ Send(Joining(l, ok), Join(l), ok) /\ Untouched
           \/ SendHome(Joining(l, ok), Join(l), ok)
    BY <1>1 DEF TryJoin, TryJoin8266, Joining8266
  <1>3. DOMAIN leaf = LeafFields /\ leaf.best \in 0 .. NumChannels
    BY DEF LeafReady, LeafOK, LeafT, Shaped, Routed
  <1>4. /\ DOMAIN l = LeafFields /\ l.lastChan \in 1 .. NumChannels
        /\ l.parent = "bridge"
        /\ \A x \in LeafFields \ {"lastChan", "inFlight", "parent"} : l[x] = leaf[x]
    <2>1. leaf.best \in 1 .. NumChannels
      BY <1>2, <1>3, Bounds
    <2> QED BY <1>1, <1>3, <2>1 DEF LeafFields
  <1>5. Keeps(leaf, l) /\ l.joinRetry = leaf.joinRetry
    <2> USE DEF LeafFields
    <2>1. Numbered(l) /\ Routed(l) /\ l.tx = leaf.tx /\ l.tx \in Nat
      BY <1>4 DEF LeafReady, LeafOK, LeafT, Shaped, Numbered, Routed, Positive
    <2>2. Counting(l) /\ Pending(l)
      BY <1>4 DEF LeafReady, LeafOK, LeafT, Shaped, Counting, Pending
    <2>3. Holding(l)
      BY <1>4 DEF LeafReady, LeafOK, LeafT, Shaped, Holding
    <2>4. SameTraffic(leaf, l) /\ SameSession(leaf, l) /\ SameRoute(leaf, l)
          /\ l.joinRetry = leaf.joinRetry
      BY <1>4 DEF SameTraffic, SameSession, SameRoute
    <2> QED BY <1>4, <2>1, <2>2, <2>3, <2>4, SameKeeps DEF LeafReady, LeafT, Shaped
  <1>6. PICK j : j = Joining(l, ok) /\ LeafT(j) /\ j.tx = l.tx
                 /\ SameTraffic(l, j) /\ SameSession(l, j) /\ SameRoute(l, j)
    BY <1>2, <1>5, JoiningFacts DEF Keeps, LeafOK
  <1>7. Keeps(l, j) /\ LeafOK(l)
    <2>1. j.tx >= l.tx
      BY <1>6 DEF LeafT, Shaped, Numbered, Positive
    <2> QED BY <1>5, <1>6, <2>1, SameKeeps DEF Keeps
  <1>8. Follows(leaf, j)
    BY <1>5, <1>7, KeepsChain, FollowsFacts DEF LeafReady
  <1>9. /\ UpT(Join(l)) /\ Join(l).type = "JOIN"
        /\ Join(l).nonce = j.nonce /\ Join(l).hash = j.hash
    BY <1>6, <1>7, JoinFrame DEF SameSession
  <1>10. tuned' \in 1 .. NumChannels
    BY <1>2, <1>6, TunedFacts DEF SendHome, Home, LeafT, Shaped, Routed
  <1>11. Send(j, Join(l), ok) \/ SendHome(j, Join(l), ok)
    BY <1>2, <1>6
  <1> QED BY <1>8, <1>9, <1>10, <1>11, SendActs

LEMMA DirtyFacts ==
    ASSUME NEW l, \E e \in Entities : l.dirty[e]
    PROVE  FirstDirty(l) \in Entities
PROOF
  <1> DEFINE D == {e \in Entities : l.dirty[e]}
  <1>1. D # {} /\ D \in SUBSET Nat
    BY Bounds
  <1>2. Min(D) \in D
    BY <1>1, MinOfSome
  <1> QED BY <1>2 DEF FirstDirty

LEMMA StateTuned ==
    ASSUME LeafReady, NEW l, LeafOK(l), NEW e, NEW v, NEW fresh, NEW ok,
           l.lastChan = leaf.lastChan,
           \/ SendState(l, e, v, fresh, ok) /\ Untouched
           \/ SendState8266(l, e, v, fresh, ok)
    PROVE  tuned' \in 1 .. NumChannels
PROOF
  <1>1. DOMAIN l = LeafFields /\ leaf.lastChan \in 1 .. NumChannels
    BY DEF LeafReady, LeafOK, LeafT, Shaped, Routed
  <1>2. /\ StateSent(l, e, v, fresh).lastChan = l.lastChan
        /\ StateRefused(l, e).lastChan = l.lastChan
    BY <1>1 DEF StateSent, StateRefused, LeafFields
  <1> QED BY <1>1, <1>2, TunedFacts DEF SendState8266, SendHome, Home

LEMMA PushActs ==
    ASSUME LeafReady, NEW ok \in BOOLEAN, PushDirty(ok) \/ PushDirty8266(ok)
    PROVE  LeafActs
PROOF
  <1>1. PICK e : e = FirstDirty(leaf)
    OBVIOUS
  <1>2. /\ leaf.joined /\ e \in Entities
        /\ \/ SendState(leaf, e, leaf.val[e], TRUE, ok) /\ Untouched
           \/ SendState8266(leaf, e, leaf.val[e], TRUE, ok)
    BY <1>1, DirtyFacts DEF PushDirty, PushDirty8266, InSession
  <1>3. leaf.val[e] \in Nat
    BY <1>2 DEF LeafReady, LeafOK, LeafT, Shaped, Holding, Positive
  <1>4. Keeps(leaf, leaf) /\ LeafOK(leaf)
    BY KeepsItself DEF LeafReady
  <1>5. tuned' \in 1 .. NumChannels
    BY <1>2, <1>4, StateTuned
  <1> QED BY <1>2, <1>3, <1>4, <1>5, StateActs

\* A retry, or, after one that was refused, a fresh push.
LEMMA RetryActs ==
    ASSUME LeafReady, NEW ok \in BOOLEAN, NEW ok2 \in BOOLEAN,
           StateRetry(ok, ok2) \/ StateRetry8266(ok, ok2)
    PROVE  LeafActs
PROOF
  <1>1. /\ leaf.joined /\ leaf.waiting /\ leaf.retry < MaxRetries
        /\ leaf.field \in Entities /\ leaf.pval \in Nat
    BY DEF StateRetry, StateRetry8266, InSession, LeafReady, LeafOK, LeafT, Shaped, Pending
  <1>2. Keeps(leaf, leaf) /\ LeafOK(leaf) /\ LeafT(leaf)
    BY KeepsItself DEF LeafReady, LeafOK
  <1>3. CASE ok
    <2>1. \/ SendState(leaf, leaf.field, leaf.pval, FALSE, TRUE) /\ Untouched
          \/ SendState8266(leaf, leaf.field, leaf.pval, FALSE, TRUE)
      BY <1>3 DEF StateRetry, StateRetry8266
    <2>2. tuned' \in 1 .. NumChannels
      BY <1>2, <2>1, StateTuned
    <2> QED BY <1>1, <1>2, <2>1, <2>2, StateActs
  <1>4. CASE ~ok
    <2>1. PICK r : /\ r = StateRefused(leaf, leaf.field) /\ LeafT(r) /\ r.tx = leaf.tx
                   /\ SameSession(leaf, r) /\ SameRoute(leaf, r)
                   /\ ~r.waiting /\ r.dirty[leaf.field]
      BY <1>1, <1>2, RefusedFacts
    <2>2. PICK n : /\ n = NextTx(r) /\ LeafT(n) /\ n.tx = r.tx + 1
                   /\ SameTraffic(r, n) /\ SameSession(r, n) /\ SameRoute(r, n)
      BY <2>1, NextTxFacts
    <2>3. PICK l : /\ l = Counted(n, FALSE) /\ LeafT(l) /\ l.tx = n.tx
                   /\ SameTraffic(n, l) /\ SameSession(n, l) /\ SameRoute(n, l)
      BY <2>2, CountedFacts
    <2>4. l.dirty[leaf.field] /\ l.lastChan = leaf.lastChan
      BY <2>1, <2>2, <2>3 DEF Counted, NextTx, StateRefused, LeafReady, LeafOK, LeafT, Shaped,
                              LeafFields
    <2>5. PICK e : e = FirstDirty(l) /\ e \in Entities
      BY <1>1, <2>4, DirtyFacts
    <2>6. l.val = leaf.val /\ leaf.val[e] \in Nat
      BY <2>1, <2>2, <2>3, <2>5
         DEF SameSession, LeafReady, LeafOK, LeafT, Shaped, Holding, Positive
    <2>7. \/ SendState(l, e, leaf.val[e], TRUE, ok2) /\ Untouched
          \/ SendState8266(l, e, leaf.val[e], TRUE, ok2)
      BY <1>4, <2>1, <2>2, <2>3, <2>5, <2>6 DEF StateRetry, StateRetry8266
    <2>8. Keeps(leaf, l) /\ l.joined
      <3>1. SameSession(leaf, l) /\ SameRoute(leaf, l) /\ ~l.waiting
        <4>1. SameSession(leaf, n) /\ SameRoute(leaf, n)
          BY <2>1, <2>2, SameChain
        <4>2. SameSession(leaf, l) /\ SameRoute(leaf, l)
          BY <2>3, <4>1, SameChain
        <4>3. ~l.waiting
          BY <2>1, <2>2, <2>3 DEF SameTraffic
        <4> QED BY <4>2, <4>3
      <3>2. l.tx >= leaf.tx
        <4>1. leaf.tx \in Nat
          BY <1>2 DEF LeafT, Shaped, Numbered, Positive
        <4>2. l.tx = leaf.tx + 1
          BY <2>1, <2>2, <2>3
        <4> QED BY <4>1, <4>2
      <3> QED BY <1>1, <1>2, <2>3, <3>1, <3>2
              DEF Keeps, LeafOK, RouteOK, SameRoute
    <2>9. LeafOK(l)
      BY <2>8 DEF Keeps
    <2>10. tuned' \in 1 .. NumChannels
      BY <2>4, <2>7, <2>9, StateTuned
    <2> QED BY <2>5, <2>6, <2>7, <2>8, <2>9, <2>10, StateActs
  <1> QED BY <1>3, <1>4

\* An entity changes.
LEMMA ChangeActs ==
    ASSUME LeafReady, NEW e \in Entities, EntityChange(e)
    PROVE  LeafActs
PROOF
  <1>1. /\ DOMAIN leaf = LeafFields /\ Holding(leaf) /\ LeafOK(leaf) /\ leaf.tx \in Nat
        /\ \A x \in Entities : leaf.val[x] \in Nat /\ leaf.cmd[x] \in Nat
    BY DEF LeafReady, LeafOK, LeafT, Shaped, Holding, Numbered, Positive
  <1>2. PICK m : m = leaf'
    OBVIOUS
  <1>3. /\ DOMAIN m = LeafFields /\ m.val = [leaf.val EXCEPT ![e] = @ + 1]
        /\ m.dirty = [leaf.dirty EXCEPT ![e] = TRUE]
        /\ \A x \in LeafFields \ {"val", "dirty"} : m[x] = leaf[x]
        /\ UNCHANGED up /\ Untouched
    BY <1>1, <1>2 DEF EntityChange, Silent, LeafFields
  <1>4. m.val \in [Entities -> Positive] /\ Grows(leaf.val, m.val)
    <2>1. m.val \in [Entities -> Positive]
      BY <1>1, <1>3 DEF Holding, Positive
    <2>2. Grows(leaf.val, m.val)
      BY <1>3, Zenon DEF Grows
    <2> QED BY <2>1, <2>2
  <1>5. LeafOK(m)
    <2> USE DEF LeafFields
    <2>1. Numbered(m) /\ Routed(m)
      BY <1>3 DEF LeafReady, LeafOK, LeafT, Shaped, Numbered, Routed
    <2>2. Counting(m) /\ Pending(m)
      BY <1>3 DEF LeafReady, LeafOK, LeafT, Shaped, Counting, Pending
    <2>3. Holding(m)
      BY <1>1, <1>3, <1>4 DEF Holding
    <2>4. RouteOK(m)
      BY <1>1, <1>3 DEF LeafOK, RouteOK
    <2> QED BY <1>3, <2>1, <2>2, <2>3, <2>4 DEF LeafOK, LeafT, Shaped
  <1>6. /\ m.nonce = leaf.nonce /\ m.hash = leaf.hash /\ m.tx = leaf.tx /\ m.key = leaf.key
        /\ m.joined = leaf.joined /\ m.waiting = leaf.waiting /\ SameTraffic(leaf, m)
        /\ m.cmd = leaf.cmd
    BY <1>3 DEF LeafFields, SameTraffic
  <1>7. Follows(leaf, m)
    <2>1. m.tx >= leaf.tx /\ \A x \in Entities : m.cmd[x] >= leaf.cmd[x]
      BY <1>1, <1>6
    <2> QED BY <1>4, <1>5, <1>6, <2>1 DEF Follows, GoesOn, KeyOf, WaitsOn
  <1> QED BY <1>2, <1>3, <1>7, TunedFacts, FollowsActs

\* The leaf boots.
LEMMA BootActs ==
    ASSUME LeafReady, NEW h \in Hashes, leaf' = Booted(leaf.nonce + 1, leaf.val, h),
           UNCHANGED up, Retune(1)
    PROVE  LeafBoots
PROOF
  <1>1. StartsOver(leaf, leaf') /\ leaf'.tx = 1
    BY BootFacts DEF LeafReady, LeafOK
  <1>2. Fits(up') /\ \A f \in Frames(up') : f \in Frames(up)
    BY DEF LeafReady, AirOK
  <1> QED BY <1>1, <1>2, TunedFacts DEF LeafBoots, LeafStep

LEMMA RestartActs ==
    ASSUME LeafReady, OutboundStall \/ \E h \in Hashes : LeafRestart(h)
    PROVE  LeafBoots
PROOF
  <1>1. leaf.hash \in Hashes
    BY DEF LeafReady, LeafOK, LeafT, Shaped, Numbered
  <1>2. PICK h \in Hashes :
           leaf' = Booted(leaf.nonce + 1, leaf.val, h) /\ UNCHANGED up /\ Retune(1)
    BY <1>1 DEF OutboundStall, LeafRestart, Silent
  <1> QED BY <1>2, BootActs

\* The leaf has heard a frame of the bridge.
LEMMA HeardFacts ==
    ASSUME NEW l, LeafOK(l), NEW m, DOMAIN m = LeafFields, m.lastSeen \in Nat,
           m.dirty \in [Entities -> BOOLEAN], m.retry \in {0, l.retry},
           m.waiting = l.waiting \/ ~m.waiting,
           \A x \in LeafFields \ (Incidental \cup {"lastSeen", "dirty", "retry", "waiting"}) :
              m[x] = l[x]
    PROVE  LeafOK(m) /\ Keeps(l, m) /\ SameRoute(l, m)
PROOF
  <1> USE DEF LeafFields, Incidental
  <1>1. Numbered(m) /\ Routed(m) /\ m.tx = l.tx /\ m.tx \in Nat
    BY DEF LeafOK, LeafT, Shaped, Numbered, Routed, Positive
  <1>2. Counting(m)
    <2>1. m.joinRetry = l.joinRetry /\ m.waitRejects = l.waitRejects /\ m.fails = l.fails
      OBVIOUS
    <2>2. m.retry \in 0 .. MaxRetries
      BY Bounds DEF LeafOK, LeafT, Counting
    <2> QED BY <2>1, <2>2 DEF LeafOK, LeafT, Counting
  <1>3. Pending(m) /\ Holding(m)
    BY DEF LeafOK, LeafT, Shaped, Pending, Holding
  <1>4. SameSession(l, m) /\ SameRoute(l, m)
    BY DEF SameSession, SameRoute
  <1>5. LeafOK(m)
    BY <1>1, <1>2, <1>3, <1>4 DEF LeafOK, LeafT, Shaped, RouteOK, SameRoute
  <1>6. m.waiting => l.waiting /\ SameTraffic(l, m)
    BY DEF SameTraffic
  <1> QED BY <1>1, <1>4, <1>5, <1>6 DEF Keeps, SameRoute

\* The answer to a command or a config command.
LEMMA AnswerActs ==
    ASSUME LeafReady, NEW l, Follows(leaf, l), NEW kind, NEW ref, NEW ok,
           SendAck(l, kind, ref, ok), Untouched
    PROVE  LeafActs /\ leaf'.cmd = l.cmd
PROOF
  <1>1. LeafOK(l)
    BY DEF Follows, GoesOn, StartsOver
  <1>2. UpT(Ack(l, kind, ref)) /\ Ack(l, kind, ref).type = "ACK"
    BY <1>1 DEF UpT, Ack, LeafOK, LeafT, Shaped, Numbered, Positive
  <1>3. CASE Silent(l)
    BY <1>3, TunedFacts, FollowsActs DEF Silent
  <1>4. CASE Send(l, Ack(l, kind, ref), ok)
    <2>1. leaf'.cmd = l.cmd
      BY <1>1, <1>4, SendFacts DEF Keeps, SameSession
    <2> QED BY <1>2, <1>4, <2>1, TunedFacts, SendActs
  <1> QED BY <1>3, <1>4 DEF SendAck

LEMMA NothingActs ==
    ASSUME LeafReady, Silent(leaf), Untouched
    PROVE  LeafActs
  BY KeepsItself, TunedFacts, SilentActs DEF LeafReady, Silent

LEMMA JoinAckActs ==
    ASSUME LeafReady, NEW f \in Frames(down), f.type = "JOIN_ACK", NEW ok,
           HandleJoinAck(f, ok) \/ HandleJoinAck8266(f, ok)
    PROVE  LeafActs
PROOF
  <1>1. /\ f.tx \in Nat /\ f.nonce \in Nat
        /\ f.accepted => f.stage \in {"SCHEMA_REFRESH", "SEND_STATE", "COMPLETE"}
    BY DEF LeafReady, AirOK, DownT
  <1>2. PICK l : l = JoinAccepted(leaf, f)
    OBVIOUS
  <1>3. /\ Follows(leaf, l) /\ Follows(leaf, [l EXCEPT !.push = FALSE, !.syncTimer = TRUE])
        /\ Follows(leaf, Resync(l)) /\ Follows(leaf, JoinComplete(l))
    BY <1>1, <1>2, AcceptedFacts, FollowsFacts DEF LeafReady
  <1>4. CASE leaf.joined /\ ~Newer(f.tx, leaf.lastSeen)
    BY <1>4, NothingActs DEF HandleJoinAck, HandleJoinAck8266
  <1>5. CASE ~(leaf.joined /\ ~Newer(f.tx, leaf.lastSeen)) /\ ~f.accepted
    <2>1. Silent(JoinRejected(leaf)) /\ (Retune(1) \/ Untouched)
      BY <1>5 DEF HandleJoinAck, HandleJoinAck8266
    <2>2. Forgets(leaf, JoinRejected(leaf)) \/ Keeps(leaf, JoinRejected(leaf))
      BY RejectedFacts DEF LeafReady
    <2> QED BY <2>1, <2>2, TunedFacts, SilentActs DEF Silent
  <1>6. CASE ~(leaf.joined /\ ~Newer(f.tx, leaf.lastSeen)) /\ f.accepted /\ f.stage = "COMPLETE"
    <2>1. \/ SendHeartbeat(JoinComplete(l), ok) /\ Untouched
          \/ SendHeartbeat8266(JoinComplete(l), ok)
      BY <1>2, <1>6 DEF HandleJoinAck, HandleJoinAck8266, JoinAccepted8266
    <2> QED BY <1>3, <2>1, HeartbeatActs
  <1>7. CASE ~(leaf.joined /\ ~Newer(f.tx, leaf.lastSeen)) /\ f.accepted
             /\ f.stage \in {"SCHEMA_REFRESH", "SEND_STATE"}
    <2>1. HandleJoinAck(f, ok)
      BY <1>7 DEF HandleJoinAck8266
    <2>2. /\ Untouched
          /\ \/ Silent(l) \/ Silent([l EXCEPT !.push = FALSE, !.syncTimer = TRUE])
             \/ Silent(Resync(l))
      BY <1>2, <1>7, <2>1 DEF HandleJoinAck
    <2> QED BY <1>3, <2>2, TunedFacts, FollowsActs DEF Silent
  <1> QED BY <1>1, <1>4, <1>5, <1>6, <1>7

LEMMA AckActs ==
    ASSUME LeafReady, NEW f \in Frames(down), f.type = "ACK", HandleAck(f)
    PROVE  /\ LeafActs
           /\ leaf.joined /\ Newer(f.tx, leaf.lastSeen) /\ Valid(f) /\ AckMatches(f)
                 => ~leaf'.waiting
PROOF
  <1>1. f.tx \in Nat /\ DOMAIN leaf = LeafFields /\ leaf.dirty \in [Entities -> BOOLEAN]
    BY DEF LeafReady, AirOK, DownT, LeafOK, LeafT, Shaped, Holding
  <1>2. CASE leaf.joined /\ Newer(f.tx, leaf.lastSeen) /\ Valid(f)
    <2>1. PICK l : l = [leaf EXCEPT !.lastSeen = f.tx]
      OBVIOUS
    <2>2. /\ DOMAIN l = LeafFields /\ l.lastSeen = f.tx
          /\ \A x \in LeafFields \ {"lastSeen"} : l[x] = leaf[x]
      BY <1>1, <2>1 DEF LeafFields
    <2>3. PICK m : m = IF AckMatches(f)
                       THEN [l EXCEPT !.waiting = FALSE, !.retry = 0, !.stateOk = TRUE,
                                      !.dirty[leaf.field] = FALSE]
                       ELSE l
      OBVIOUS
    <2>4. Silent(m) /\ Untouched
      BY <1>2, <2>1, <2>3 DEF HandleAck
    <2>5. /\ DOMAIN m = LeafFields /\ m.lastSeen = f.tx /\ m.retry \in {0, leaf.retry}
          /\ m.dirty \in [Entities -> BOOLEAN]
          /\ m.waiting = leaf.waiting \/ ~m.waiting
          /\ AckMatches(f) => ~m.waiting
          /\ \A x \in LeafFields \ (Incidental \cup {"lastSeen", "dirty", "retry", "waiting"}) :
                m[x] = leaf[x]
      BY <1>1, <2>2, <2>3, ZenonT(60) DEF LeafFields, Incidental
    <2>6. Keeps(leaf, m)
      BY <1>1, <2>5, HeardFacts DEF LeafReady
    <2> QED BY <2>4, <2>5, <2>6, TunedFacts, SilentActs DEF Silent
  <1>3. CASE ~(leaf.joined /\ Newer(f.tx, leaf.lastSeen) /\ Valid(f))
    BY <1>3, NothingActs DEF HandleAck
  <1> QED BY <1>2, <1>3

LEMMA SchemaRequestActs ==
    ASSUME LeafReady, NEW f \in Frames(down), f.type = "SCHEMA_REQUEST", NEW ok,
           HandleSchemaRequest(f, ok) \/ HandleSchemaRequest8266(f, ok)
    PROVE  LeafActs
PROOF
  <1>1. f.tx \in Nat /\ DOMAIN leaf = LeafFields /\ leaf.dirty \in [Entities -> BOOLEAN]
    BY DEF LeafReady, AirOK, DownT, LeafOK, LeafT, Shaped, Holding
  <1>2. CASE leaf.joined /\ Newer(f.tx, leaf.lastSeen) /\ Valid(f)
    <2>1. PICK l : l = [leaf EXCEPT !.lastSeen = f.tx, !.push = FALSE, !.stateOk = FALSE]
      OBVIOUS
    <2>2. /\ DOMAIN l = LeafFields /\ l.lastSeen = f.tx
          /\ \A x \in LeafFields \ {"lastSeen", "push", "stateOk"} : l[x] = leaf[x]
      BY <1>1, <2>1 DEF LeafFields
    <2>3. Keeps(leaf, l) /\ LeafOK(l)
      BY <1>1, <2>2, HeardFacts DEF LeafReady, LeafFields, Incidental
    <2>4. Follows(leaf, l)
      BY <2>3, FollowsFacts DEF LeafReady
    <2>5. SendSchema(l, f.desc, ok) /\ Untouched
      BY <1>2, <2>1 DEF HandleSchemaRequest, HandleSchemaRequest8266, SendIdentity8266,
                        SendSchemaPush8266, Validate8266
    <2>6. CASE Silent(l)
      BY <2>4, <2>5, <2>6, TunedFacts, FollowsActs DEF Silent
    <2>7. CASE f.desc \in {0} \cup Entities /\ Send(l, SchemaPush(l, f.desc), ok)
      <3>1. PICK p : p = SchemaPush(l, f.desc)
        OBVIOUS
      <3>2. f.desc \in 0 .. NumEntities
        BY <2>7, Bounds DEF Entities
      <3>3. UpT(p) /\ p.type = "SCHEMA_PUSH"
        BY <2>3, <3>1, <3>2 DEF UpT, SchemaPush, LeafOK, LeafT, Shaped, Numbered, Positive
      <3>4. l.key = leaf.key /\ l.hash = leaf.hash
        BY <2>2 DEF LeafFields
      <3>5. Asked(p)
        BY <1>2, <3>1, <3>4 DEF Asked, SchemaPush, Valid
      <3> QED BY <2>4, <2>5, <2>7, <3>1, <3>3, <3>5, TunedFacts, SendActs
    <2> QED BY <2>5, <2>6, <2>7 DEF SendSchema
  <1>3. CASE ~(leaf.joined /\ Newer(f.tx, leaf.lastSeen) /\ Valid(f))
    BY <1>3, NothingActs DEF HandleSchemaRequest, HandleSchemaRequest8266, Validate8266
  <1> QED BY <1>2, <1>3

\* A command is carried out once its counter is beyond that of the last one
\* for the entity, which it becomes.
CarriesOut(f) == leaf.joined /\ Valid(f) /\ FreshCommand(f)

LEMMA CommandActs ==
    ASSUME LeafReady, NEW f \in Frames(down), f.type = "COMMAND",
           NEW published, NEW ok,
           HandleCommand(f, published, ok) \/ HandleCommand8266(f, published, ok)
    PROVE  LeafActs /\ (CarriesOut(f) => leaf'.cmd[f.entity] = f.tx)
PROOF
  <1>1. f.tx \in Nat /\ f.entity \in Entities
    BY DEF LeafReady, AirOK, DownT
  <1>2. /\ DOMAIN leaf = LeafFields /\ Holding(leaf) /\ LeafOK(leaf)
        /\ leaf.tx \in Nat /\ leaf.lastSeen \in Nat
        /\ \A x \in Entities : leaf.val[x] \in Nat /\ leaf.cmd[x] \in Nat
    BY DEF LeafReady, LeafOK, LeafT, Shaped, Holding, Numbered, Positive
  <1>3. CASE CarriesOut(f)
    <2>1. PICK l : l = [leaf EXCEPT !.lastSeen = Max({@, f.tx}), !.dirty[f.entity] = FALSE,
                                    !.cmd[f.entity] = f.tx]
      OBVIOUS
    <2>2. PICK m : m = CommandEffect(l, f.entity, published)
      OBVIOUS
    <2>3. SendAck(m, "COMMAND", f.tx, ok) /\ Untouched
      BY <1>3, <2>1, <2>2 DEF HandleCommand, HandleCommand8266, CarriesOut, SendAck8266,
                              CommandEffect8266, Validate8266
    <2>4. /\ DOMAIN l = LeafFields /\ l.lastSeen = Max({leaf.lastSeen, f.tx})
          /\ l.dirty = [leaf.dirty EXCEPT ![f.entity] = FALSE]
          /\ l.cmd = [leaf.cmd EXCEPT ![f.entity] = f.tx]
          /\ \A x \in LeafFields \ {"lastSeen", "dirty", "cmd"} : l[x] = leaf[x]
      BY <1>2, <2>1 DEF LeafFields
    <2>5. /\ DOMAIN m = LeafFields /\ m.lastSeen = l.lastSeen /\ m.cmd = l.cmd
          /\ m.dirty \in [Entities -> BOOLEAN]
          /\ m.val \in [Entities -> Positive]
          /\ Grows(leaf.val, m.val)
          /\ \A x \in LeafFields \ {"lastSeen", "dirty", "cmd", "val"} : m[x] = leaf[x]
      <3>1. CASE ~published
        <4>1. m = l /\ l.val = leaf.val
          BY <2>2, <2>4, <3>1 DEF CommandEffect, LeafFields
        <4>2. l.dirty \in [Entities -> BOOLEAN] /\ leaf.val \in [Entities -> Positive]
          BY <1>2, <2>4 DEF Holding
        <4>3. Grows(leaf.val, m.val)
          BY <4>1, <2>4 DEF Grows, LeafFields
        <4>4. \A x \in LeafFields \ {"lastSeen", "dirty", "cmd", "val"} : m[x] = leaf[x]
          BY <2>4, <4>1
        <4> QED BY <2>4, <4>1, <4>2, <4>3, <4>4, Zenon
      <3>2. CASE published
        <4>1. /\ DOMAIN m = LeafFields /\ m.val = [leaf.val EXCEPT ![f.entity] = @ + 1]
              /\ m.dirty = [l.dirty EXCEPT ![f.entity] = TRUE]
              /\ \A x \in LeafFields \ {"val", "dirty"} : m[x] = l[x]
          BY <2>2, <2>4, <3>2 DEF CommandEffect, LeafFields
        <4>2. m.dirty \in [Entities -> BOOLEAN]
          <5>1. leaf.dirty \in [Entities -> BOOLEAN]
            BY <1>2 DEF Holding
          <5>2. l.dirty \in [Entities -> BOOLEAN]
            BY <2>4, <5>1
          <5> QED BY <4>1, <5>2
        <4>3. m.val \in [Entities -> Positive] /\ Grows(leaf.val, m.val)
          <5>1. m.val \in [Entities -> Positive]
            BY <1>1, <1>2, <4>1 DEF Holding, Positive
          <5>2. Grows(leaf.val, m.val)
            BY <1>1, <4>1, Zenon DEF Grows
          <5> QED BY <5>1, <5>2
        <4>4. m.lastSeen = l.lastSeen /\ m.cmd = l.cmd
          BY <4>1 DEF LeafFields
        <4> QED BY <2>4, <4>1, <4>2, <4>3, <4>4
      <3> QED BY <3>1, <3>2
    <2>6. m.lastSeen \in Nat
      BY <1>1, <1>2, <2>4, <2>5, MaxOfTwo
    <2>7. /\ m.cmd \in [Entities -> Nat] /\ m.cmd[f.entity] = f.tx
          /\ \A x \in Entities : m.cmd[x] >= leaf.cmd[x]
      <3>1. f.tx > leaf.cmd[f.entity]
        BY <1>3 DEF CarriesOut, FreshCommand, Newer
      <3> QED BY <1>1, <1>2, <2>4, <2>5, <3>1 DEF Holding
    <2>8. LeafOK(m)
      <3> USE DEF LeafFields
      <3>1. Numbered(m) /\ Routed(m)
        BY <1>2, <2>5, <2>6 DEF LeafOK, LeafT, Shaped, Numbered, Routed
      <3>2. Counting(m) /\ Pending(m)
        BY <1>2, <2>5 DEF LeafOK, LeafT, Shaped, Counting, Pending
      <3>3. Holding(m)
        BY <2>5, <2>7 DEF Holding
      <3>4. RouteOK(m)
        BY <1>2, <2>5 DEF LeafOK, RouteOK
      <3> QED BY <2>5, <3>1, <3>2, <3>3, <3>4 DEF LeafOK, LeafT, Shaped
    <2>9. /\ m.nonce = leaf.nonce /\ m.hash = leaf.hash /\ m.tx = leaf.tx /\ m.key = leaf.key
          /\ m.joined = leaf.joined /\ m.waiting = leaf.waiting /\ SameTraffic(leaf, m)
      BY <2>5 DEF LeafFields, SameTraffic
    <2>10. Follows(leaf, m)
      <3>1. m.tx >= leaf.tx
        BY <1>2, <2>9
      <3> QED BY <2>5, <2>7, <2>8, <2>9, <3>1 DEF Follows, GoesOn, KeyOf, WaitsOn
    <2> QED BY <2>3, <2>7, <2>10, AnswerActs
  <1>4. CASE ~CarriesOut(f)
    <2>1. (SendAck(leaf, "COMMAND", f.tx, ok) \/ Silent(leaf)) /\ Untouched
      BY <1>4 DEF HandleCommand, HandleCommand8266, CarriesOut, SendAck8266, Validate8266
    <2>2. Follows(leaf, leaf)
      BY <1>2, KeepsItself, FollowsFacts
    <2> QED BY <1>4, <2>1, <2>2, AnswerActs, NothingActs
  <1> QED BY <1>3, <1>4

\* What is sent before the leaf gives its session up, or its route.
LEMMA LeavesChain ==
    ASSUME NEW l, LeafOK(l), NEW m, NEW n, SameSession(l, m) \/ Forgets(l, m), StartsOver(m, n)
    PROVE  StartsOver(l, n) /\ (m.cmd = n.cmd => \A e \in Entities : n.cmd[e] >= l.cmd[e])
PROOF
  <1>1. l.nonce \in Nat /\ \A e \in Entities : l.cmd[e] \in Nat
    BY DEF LeafOK, LeafT, Shaped, Numbered, Positive, Holding
  <1>2. StartsOver(l, n)
    <2>1. CASE SameSession(l, m)
      BY <2>1 DEF StartsOver, SameSession
    <2>2. CASE Forgets(l, m)
      <3>1. n.nonce > m.nonce /\ m.nonce > l.nonce /\ m.nonce \in Nat /\ n.nonce \in Nat
        BY <2>2 DEF Forgets, StartsOver, LeafOK, LeafT, Shaped, Numbered, Positive
      <3>2. n.nonce > l.nonce
        BY <1>1, <3>1
      <3> QED BY <2>2, <3>2 DEF Forgets, StartsOver
    <2> QED BY <2>1, <2>2
  <1>3. m.cmd = l.cmd
    BY DEF SameSession, Forgets
  <1> QED BY <1>1, <1>2, <1>3

LEMMA ConfigActs ==
    ASSUME LeafReady, NEW f \in Frames(down), f.type = "CONFIG", NEW ok,
           HandleConfig(f, ok) \/ HandleConfig8266(f, ok)
    PROVE  LeafBoots
PROOF
  <1>1. /\ f.tx \in Nat /\ DOMAIN leaf = LeafFields /\ leaf.dirty \in [Entities -> BOOLEAN]
        /\ LeafOK(leaf) /\ Fits(up)
    BY DEF LeafReady, AirOK, DownT, LeafOK, LeafT, Shaped, Holding
  <1>2. Follows(leaf, leaf)
    BY <1>1, KeepsItself, FollowsFacts
  <1>3. PICK l : l = ConfigAnswer(f)
    OBVIOUS
  <1>4. /\ DOMAIN l = LeafFields /\ l.lastSeen = f.tx
        /\ \A x \in LeafFields \ {"lastSeen", "cfg"} : l[x] = leaf[x]
    BY <1>1, <1>3 DEF ConfigAnswer, LeafFields
  <1>5. Keeps(leaf, l) /\ LeafOK(l) /\ l.parent = leaf.parent /\ l.joined = leaf.joined
        /\ SameSession(leaf, l)
    <2>1. l.parent = leaf.parent /\ l.joined = leaf.joined
      BY <1>4 DEF LeafFields
    <2> QED BY <1>1, <1>4, <2>1, HeardFacts DEF Keeps, LeafFields, Incidental
  <1>6. PICK a : a = Ack(l, "CONFIG", f.tx)
    OBVIOUS
  <1>7. UpT(a) /\ a.type = "ACK"
    BY <1>5, <1>6 DEF UpT, Ack, LeafOK, LeafT, Shaped, Numbered, Positive
  <1>8. PICK n : /\ n = NextTx(l) /\ LeafT(n) /\ n.tx = l.tx + 1
                 /\ SameTraffic(l, n) /\ SameSession(l, n) /\ SameRoute(l, n)
    BY <1>5, NextTxFacts DEF LeafOK
  <1>9. PICK s : /\ s = Counted(n, ok) /\ LeafT(s) /\ s.tx = n.tx
                 /\ SameTraffic(n, s) /\ SameSession(n, s) /\ SameRoute(n, s)
    BY <1>8, CountedFacts
  <1>10. Keeps(l, s) /\ s.joined = l.joined /\ SameSession(leaf, s)
    <2>1. SameTraffic(l, s) /\ SameSession(l, s) /\ SameRoute(l, s) /\ s.tx = l.tx + 1
      BY <1>8, <1>9 DEF SameTraffic, SameSession, SameRoute
    <2>2. s.tx >= l.tx
      BY <1>5, <2>1 DEF LeafOK, LeafT, Shaped, Numbered, Positive
    <2> QED BY <1>5, <1>9, <2>1, <2>2, SameKeeps DEF SameRoute, SameSession
  <1>11. Keeps(leaf, s) /\ LeafOK(s)
    <2>1. Keeps(leaf, s)
      BY <1>1, <1>5, <1>10, KeepsChain
    <2> QED BY <2>1 DEF Keeps
  <1>12. ASSUME up' = Air(l, a, ok) \/ UNCHANGED up
         PROVE  Fits(up') /\ \A g \in Frames(up') : g \in Frames(up) \/ MaySend(g)
    <2>1. MaySend(a)
      BY <1>7 DEF MaySend
    <2>2. up' = up \/ up' = Enqueue(up, a)
      BY <1>12 DEF Air, ToBridge
    <2> QED BY <1>1, <2>1, <2>2, EnqueueFits
  <1>13. ASSUME up' = Air(l, a, ok) \/ UNCHANGED up, tuned' \in 1 .. NumChannels,
                Keeps(leaf, leaf') \/ StartsOver(leaf, leaf'),
                StartsOver(leaf, leaf') => leaf'.tx = 1 \/ leaf'.cmd = leaf.cmd
         PROVE  LeafBoots
    <2>1. \A e \in Entities : leaf.cmd[e] \in Nat
      BY <1>1 DEF LeafOK, LeafT, Shaped, Holding
    <2>2. leaf'.cmd = leaf.cmd => Remembers
      BY <2>1 DEF Remembers
    <2>3. Keeps(leaf, leaf') => leaf'.cmd = leaf.cmd /\ GoesOn(leaf, leaf')
      BY <1>1, KeepsGoesOn DEF Keeps, SameSession
    <2>4. GoesOn(leaf, leaf') \/ StartsOver(leaf, leaf')
      BY <1>13, <2>3
    <2>5. Remembers \/ leaf'.tx = 1
      BY <1>13, <2>2, <2>3
    <2> QED BY <1>12, <1>13, <2>4, <2>5 DEF LeafBoots, LeafStep
  <1>14. CASE (SendAck(leaf, "CONFIG", f.tx, ok) \/ Silent(leaf)) /\ Untouched
    BY <1>2, <1>14, AnswerActs, NothingActs DEF LeafActs, LeafBoots
  <1>15. CASE /\ f.command = "SET_PARENT_MAC" /\ ok /\ HasParent(leaf) /\ leaf.joined
              /\ up' = Air(l, a, TRUE) /\ Untouched
              /\ leaf' = [StartRecovery8266(s) EXCEPT !.fast = FALSE]
    <2>1. Keeps(s, leaf')
      BY <1>5, <1>10, <1>11, <1>15, RecoveryFacts
    <2>2. Keeps(leaf, leaf')
      BY <1>1, <1>11, <2>1, KeepsChain
    <2>3. ~StartsOver(leaf, leaf')
      BY <1>1, <2>2 DEF Keeps, SameSession, StartsOver, LeafOK, LeafT, Shaped, Numbered, Positive
    <2>4. up' = Air(l, a, ok)
      BY <1>15 DEF Air
    <2> QED BY <1>13, <1>15, <2>2, <2>3, <2>4, TunedFacts
  <1>16. CASE /\ leaf.joined /\ up' = (IF HasParent(l) THEN Air(l, a, ok) ELSE up)
              /\ leaf' = (IF leaf.normal /\ HasParent(l) /\ ok
                          THEN ConfigEffect(IF HasParent(l) THEN s ELSE l, f.command)
                          ELSE IF HasParent(l) THEN s ELSE l)
              /\ Retune(1) \/ Untouched
    <2>1. PICK r : r = (IF HasParent(l) THEN s ELSE l)
      OBVIOUS
    <2>2. Keeps(leaf, r) /\ LeafOK(r) /\ r.joined /\ SameSession(leaf, r) /\ r.hash \in Hashes
      BY <1>5, <1>10, <1>11, <1>16, <2>1 DEF LeafOK, LeafT, Shaped, Numbered
    <2>3. leaf' = r \/ leaf' = ConfigEffect(r, f.command)
      BY <1>16, <2>1
    <2>4. tuned' \in 1 .. NumChannels /\ (up' = Air(l, a, ok) \/ UNCHANGED up)
      BY <1>16, TunedFacts
    <2>5. ASSUME Keeps(leaf, leaf') PROVE LeafBoots
      <3>1. ~StartsOver(leaf, leaf')
        BY <1>1, <2>5 DEF Keeps, SameSession, StartsOver, LeafOK, LeafT, Shaped, Numbered, Positive
      <3> QED BY <1>13, <2>4, <2>5, <3>1
    <2>6. CASE leaf' = r
      BY <2>2, <2>5, <2>6
    <2>7. CASE leaf' = ConfigEffect(r, f.command) /\ f.command = "REBOOT"
      <3>1. leaf' = Booted(r.nonce + 1, r.val, r.hash)
        BY <2>7 DEF ConfigEffect
      <3>2. StartsOver(r, leaf') /\ leaf'.tx = 1
        BY <2>2, <3>1, BootFacts DEF LeafOK
      <3> QED BY <1>1, <1>13, <2>2, <2>4, <3>2, LeavesChain
    <2>8. CASE leaf' = ConfigEffect(r, f.command) /\ f.command = "FORCE_REDISCOVER"
      <3>1. leaf' = StartRediscovery(r)
        BY <2>8 DEF ConfigEffect
      <3>2. Forgets(r, leaf')
        BY <2>2, <3>1, RediscoveryFacts DEF LeafOK
      <3>3. Forgets(leaf, leaf')
        BY <2>2, <3>2, ForgetsChain
      <3> QED BY <1>13, <2>4, <3>3 DEF Forgets
    <2>9. CASE leaf' = ConfigEffect(r, f.command) /\ f.command = "SET_PARENT_MAC"
      <3>1. leaf' = [StartRecovery(r) EXCEPT !.fast = FALSE]
        BY <2>9 DEF ConfigEffect
      <3>2. Keeps(r, leaf')
        BY <2>2, <3>1, RecoveryFacts
      <3> QED BY <1>1, <2>2, <2>5, <3>2, KeepsChain
    <2>10. CASE /\ leaf' = ConfigEffect(r, f.command)
                /\ f.command \notin {"REBOOT", "FORCE_REDISCOVER", "SET_PARENT_MAC"}
      <3>1. leaf' = r
        BY <2>10 DEF ConfigEffect
      <3> QED BY <2>6, <3>1
    <2> QED BY <2>3, <2>6, <2>7, <2>8, <2>9, <2>10
  <1>17. HandleConfig(f, ok) => LeafBoots
    <2>1. ASSUME HandleConfig(f, ok), leaf.joined /\ Valid(f), leaf.cfg.tx # f.tx,
                 Newer(f.tx, leaf.lastSeen)
          PROVE  /\ leaf.joined /\ up' = (IF HasParent(l) THEN Air(l, a, ok) ELSE up)
                 /\ leaf' = (IF leaf.normal /\ HasParent(l) /\ ok
                             THEN ConfigEffect(IF HasParent(l) THEN s ELSE l, f.command)
                             ELSE IF HasParent(l) THEN s ELSE l)
                 /\ Retune(1) \/ Untouched
      BY <1>3, <1>6, <1>8, <1>9, <2>1 DEF HandleConfig
    <2>2. ASSUME HandleConfig(f, ok),
                 ~(leaf.joined /\ Valid(f) /\ leaf.cfg.tx # f.tx /\ Newer(f.tx, leaf.lastSeen))
          PROVE  (SendAck(leaf, "CONFIG", f.tx, ok) \/ Silent(leaf)) /\ Untouched
      BY <2>2 DEF HandleConfig
    <2> QED BY <1>14, <1>16, <2>1, <2>2
  <1>18. CASE HandleConfig8266(f, ok) /\ ~HandleConfig(f, ok)
    <2>1. /\ f.command = "SET_PARENT_MAC" /\ ok /\ HasParent(leaf) /\ leaf.joined
          /\ up' = Air(l, a, TRUE) /\ Untouched
          /\ leaf' = [StartRecovery8266(Counted(NextTx(l), TRUE)) EXCEPT !.fast = FALSE]
      BY <1>3, <1>6, <1>18 DEF HandleConfig8266
    <2>2. Counted(NextTx(l), TRUE) = s
      BY <1>8, <1>9, <2>1 DEF Counted
    <2> QED BY <1>15, <2>1, <2>2
  <1> QED BY <1>17, <1>18

LEMMA DeauthActs ==
    ASSUME LeafReady, NEW ok \in BOOLEAN, HandleDeauth(ok) \/ HandleDeauth8266(ok)
    PROVE  LeafActs
PROOF
  <1>1. LeafOK(leaf) /\ Shaped(leaf) /\ Fits(up)
    BY DEF LeafReady, AirOK, LeafOK, LeafT
  <1>2. PICK c : /\ c = ClearSession(leaf, TRUE) /\ LeafT(c) /\ SameSession(leaf, c)
                 /\ ~c.joined /\ ~c.normal /\ ~c.waiting /\ c.joinRetry = 0
    BY <1>1, ClearFacts
  <1>3. PICK d : d = [c EXCEPT !.discovering = TRUE, !.sweep = TRUE, !.fast = FALSE,
                               !.resume = FALSE]
    OBVIOUS
  <1>4. /\ LeafT(d) /\ SameSession(c, d) /\ d.joinRetry = 0
        /\ ~d.joined /\ ~d.normal /\ ~d.waiting /\ ~d.fast /\ ~d.resume
    <2> USE DEF LeafT, Shaped, LeafFields
    <2>1. DOMAIN d = LeafFields /\ Numbered(d) /\ Routed(d) /\ Counting(d)
      BY <1>2, <1>3, ZenonT(60) DEF Numbered, Routed, Counting
    <2>2. Pending(d) /\ Holding(d) /\ SameSession(c, d)
      BY <1>2, <1>3, ZenonT(60) DEF Pending, Holding, SameSession
    <2>3. ~d.joined /\ ~d.normal /\ ~d.waiting /\ ~d.fast /\ ~d.resume /\ d.joinRetry = 0
      BY <1>2, <1>3
    <2> QED BY <2>1, <2>2, <2>3
  <1>5. PICK l : /\ l = FreshNonce(d) /\ LeafT(l) /\ SameTraffic(d, l) /\ SameRoute(d, l)
                 /\ l.nonce > d.nonce /\ l.key = d.key /\ l.hash = d.hash
                 /\ l.val = d.val /\ l.cmd = d.cmd /\ l.joinRetry = d.joinRetry
    BY <1>4, NonceFacts
  <1>6. l = FreshNonce([ClearSession(leaf, TRUE) EXCEPT
                            !.discovering = TRUE, !.sweep = TRUE, !.fast = FALSE,
                            !.resume = FALSE])
    BY <1>2, <1>3, <1>5
  <1>7. Forgets(leaf, l) /\ LeafOK(l)
    <2>1. ~l.joined /\ ~l.normal /\ ~l.waiting /\ ~l.fast /\ ~l.resume
      BY <1>4, <1>5 DEF SameRoute, SameTraffic
    <2>2. /\ l.nonce > leaf.nonce /\ l.key = leaf.key /\ l.hash = leaf.hash
          /\ l.val = leaf.val /\ l.cmd = leaf.cmd
      BY <1>2, <1>4, <1>5 DEF SameSession
    <2>3. LeafOK(l)
      BY <1>5, <2>1 DEF LeafOK, RouteOK
    <2> QED BY <2>1, <2>2, <2>3 DEF Forgets, StartsOver
  <1>8. PICK j : /\ j = Joining(l, ok) /\ LeafT(j) /\ j.tx = l.tx
                 /\ SameTraffic(l, j) /\ SameSession(l, j) /\ SameRoute(l, j)
    <2>1. JoinRetriesLeft(l.joinRetry)
      BY <1>4, <1>5, Bounds DEF JoinRetriesLeft
    <2> QED BY <1>7, <2>1, JoiningFacts DEF LeafOK
  <1>9. PICK n : n = NextTx(j) /\ LeafT(n) /\ SameSession(j, n)
    BY <1>8, NextTxFacts
  <1>10. PICK s : s = Counted(n, ok) /\ LeafT(s) /\ SameSession(n, s)
    BY <1>9, CountedFacts
  <1>11. SameSession(l, s)
    BY <1>8, <1>9, <1>10 DEF SameSession
  <1>12. Keeps(l, j) /\ Follows(leaf, j)
    <2>1. j.tx >= l.tx
      BY <1>8 DEF LeafT, Shaped, Numbered, Positive
    <2>2. Keeps(l, j)
      BY <1>7, <1>8, <2>1, SameKeeps
    <2>3. Follows(leaf, l)
      BY <1>1, <1>7, FollowsFacts
    <2> QED BY <1>1, <1>8, <2>2, <2>3, FollowsChain
  <1>13. /\ UpT(Join(l)) /\ Join(l).type = "JOIN"
         /\ Join(l).nonce = j.nonce /\ Join(l).hash = j.hash
    BY <1>7, <1>8, JoinFrame DEF SameSession
  <1>14. CASE /\ ok /\ CanJoin(l)
              /\ Send(j, Join(l), ok) \/ SendHome(j, Join(l), ok)
              /\ Untouched \/ tuned' = j.lastChan
    <2>1. tuned' \in 1 .. NumChannels
      BY <1>8, <1>14, TunedFacts DEF LeafT, Shaped, Routed
    <2> QED BY <1>12, <1>13, <1>14, <2>1, SendActs
  <1>15. CASE leaf' = StartDiscovery(s) /\ UNCHANGED up /\ Retune(1)
    <2>1. Forgets(s, leaf') /\ StartsOver(s, leaf')
      BY <1>10, <1>15, DiscoveryFacts DEF LeafT, Forgets
    <2>2. Forgets(l, leaf') /\ StartsOver(l, leaf')
      BY <1>11, <2>1, ForgetsChain DEF Forgets
    <2>3. Follows(leaf, leaf')
      BY <1>1, <1>7, <2>2, LeavesChain DEF Follows, Forgets
    <2> QED BY <1>15, <2>3, TunedFacts, FollowsActs
  <1>16. CASE leaf' = StartDiscovery(l) /\ UNCHANGED up /\ Retune(1)
    <2>1. Forgets(l, leaf') /\ StartsOver(l, leaf')
      BY <1>7, <1>16, DiscoveryFacts DEF LeafOK, LeafT, Forgets
    <2>2. Follows(leaf, leaf')
      BY <1>1, <1>7, <2>1, LeavesChain DEF Follows, Forgets
    <2> QED BY <1>16, <2>2, TunedFacts, FollowsActs
  <1>17. CASE HandleDeauth(ok)
    <2>1. CASE CanJoin(l) /\ ok
      <3>1. up' = Air(l, Join(l), ok) /\ leaf' = s /\ Untouched
        BY <1>6, <1>8, <1>9, <1>10, <1>17, <2>1 DEF HandleDeauth
      <3>2. j.parent = l.parent
        BY <1>7, <1>8 DEF Joining, LeafOK, LeafT, Shaped, LeafFields
      <3>3. Send(j, Join(l), ok)
        BY <1>9, <1>10, <3>1, <3>2 DEF Send, Air
      <3> QED BY <1>14, <2>1, <3>1, <3>3
    <2>2. CASE CanJoin(l) /\ ~ok
      <3>1. up' = Air(l, Join(l), ok) /\ leaf' = StartDiscovery(s) /\ Retune(1)
        BY <1>6, <1>8, <1>9, <1>10, <1>17, <2>2 DEF HandleDeauth
      <3> QED BY <1>15, <2>2, <3>1 DEF Air
    <2>3. CASE ~CanJoin(l)
      <3>1. leaf' = StartDiscovery(l) /\ UNCHANGED up /\ Retune(1)
        BY <1>6, <1>17, <2>3 DEF HandleDeauth, Silent
      <3> QED BY <1>16, <3>1
    <2> QED BY <2>1, <2>2, <2>3
  <1>18. CASE HandleDeauth8266(ok)
    <2>1. CASE CanJoin(l) /\ ok
      <3>1. SendHome(Joining(l, TRUE), Join(l), TRUE)
        BY <1>6, <1>18, <2>1 DEF HandleDeauth8266, ClearSession8266, CanJoin8266, Joining8266
      <3>2. Joining(l, TRUE) = j
        BY <1>8, <2>1 DEF Joining
      <3>3. SendHome(j, Join(l), TRUE) /\ tuned' = j.lastChan
        BY <3>1, <3>2 DEF SendHome, Home
      <3>4. tuned' \in 1 .. NumChannels
        BY <1>8, <3>3 DEF LeafT, Shaped, Routed
      <3> QED BY <1>12, <1>13, <3>3, <3>4, SendActs
    <2>2. CASE CanJoin(l) /\ ~ok
      <3>1. /\ leaf' = StartDiscovery(Counted(NextTx(Joining(l, FALSE)), FALSE))
            /\ UNCHANGED up /\ Retune(1)
        BY <1>6, <1>18, <2>2 DEF HandleDeauth8266, ClearSession8266, CanJoin8266, Joining8266,
                                 StartDiscovery8266
      <3>2. Counted(NextTx(Joining(l, FALSE)), FALSE) = s
        <4>1. Joining(l, FALSE) = j
          BY <1>8, <2>2 DEF Joining
        <4>2. Counted(n, FALSE) = Counted(n, ok)
          BY <2>2 DEF Counted
        <4> QED BY <1>9, <1>10, <4>1, <4>2
      <3> QED BY <1>15, <3>1, <3>2
    <2>3. CASE ~CanJoin(l)
      <3>1. leaf' = StartDiscovery(l) /\ UNCHANGED up /\ Retune(1)
        BY <1>6, <1>18, <2>3 DEF HandleDeauth8266, ClearSession8266, CanJoin8266,
                                 StartDiscovery8266, Silent
      <3> QED BY <1>16, <3>1
    <2> QED BY <2>1, <2>2, <2>3
  <1> QED BY <1>17, <1>18

LEMMA FrameActs ==
    ASSUME LeafReady, NEW f \in Frames(down), NEW ok \in BOOLEAN,
           OnFrame(f, ok) \/ OnFrame8266(f, ok)
    PROVE  /\ LeafBoots
           /\ f.type # "CONFIG" => LeafActs
           /\ f.type = "COMMAND" /\ CarriesOut(f) => leaf'.cmd[f.entity] = f.tx
           /\ f.type = "ACK" /\ leaf.joined /\ Newer(f.tx, leaf.lastSeen) /\ Valid(f)
                 /\ AckMatches(f) => ~leaf'.waiting
PROOF
  <1>1. LeafActs => LeafBoots
    BY DEF LeafActs, LeafBoots
  <1>2. CASE f.type = "ANNOUNCE"
    BY <1>1, <1>2, CandidateActs DEF OnFrame, OnFrame8266, HandleAnnounce8266
  <1>3. CASE f.type = "JOIN_ACK"
    BY <1>1, <1>3, JoinAckActs DEF OnFrame, OnFrame8266
  <1>4. CASE f.type = "ACK"
    BY <1>1, <1>4, AckActs DEF OnFrame, OnFrame8266, HandleAck8266
  <1>5. CASE f.type = "COMMAND"
    BY <1>1, <1>5, CommandActs DEF OnFrame, OnFrame8266
  <1>6. CASE f.type = "CONFIG"
    BY <1>6, ConfigActs DEF OnFrame, OnFrame8266
  <1>7. CASE f.type = "SCHEMA_REQUEST"
    BY <1>1, <1>7, SchemaRequestActs DEF OnFrame, OnFrame8266
  <1>8. CASE f.type = "DEAUTH"
    BY <1>1, <1>8, DeauthActs DEF OnFrame, OnFrame8266
  <1> QED BY <1>2, <1>3, <1>4, <1>5, <1>6, <1>7, <1>8 DEF OnFrame, OnFrame8266

-----------------------------------------------------------------------------
(* What is paid, and what the history keeps.                               *)

Paid == Free \/ Spend(1)

LEMMA PaidFacts ==
    /\ \A ok \in BOOLEAN : (Sends(ok) => Paid) /\ (TimerSends(ok) => Paid)
    /\ (Timer => Paid) /\ (LongTimer => Paid) /\ (\A k : Fault(k) => Paid) /\ (Free => Paid)
  BY DEF Sends, TimerSends, Timer, LongTimer, Fault, Paid

LEMMA PaidBounds ==
    ASSUME AirOK, Paid
    PROVE  faults' \in 0 .. MaxFaults
  BY RadioAssumption DEF AirOK, Paid, Free, Spend

HistFields == {"issued", "configs", "applied", "acked"}

HistT ==
    /\ DOMAIN hist = HistFields /\ hist.issued \in Nat
    /\ IsQueue(hist.applied) /\ hist.acked \in [Entities -> Nat]

\* A command of the air is carried out.
Applies(f) ==
    /\ f.type = "COMMAND" /\ f.tx > leaf.cmd[f.entity] /\ leaf'.cmd[f.entity] = f.tx
    /\ hist'.applied = Append(hist.applied, f.id)

\* An ack of the air is for the STATE waited for.
Confirms(f) ==
    /\ f.type = "ACK" /\ f.key = leaf.key /\ leaf.joined /\ leaf.waiting /\ f.ref = leaf.base
    /\ ~leaf'.waiting
    /\ hist'.acked = [hist.acked EXCEPT ![leaf.field] = leaf.pval]

Records ==
    /\ DOMAIN hist' = HistFields /\ hist'.issued = hist.issued
    /\ \/ hist'.applied = <<>>
       \/ Remembers /\ hist'.applied = hist.applied
       \/ Remembers /\ \E f \in Frames(down) : Applies(f)
    /\ \/ hist'.acked = hist.acked
       \/ \E f \in Frames(down) : Confirms(f)

\* A step of the leaf.
LeafMoves ==
    /\ LeafStep /\ Records
    /\ brg' = brg /\ Fits(down') /\ Frames(down') \subseteq Frames(down)
    /\ faults' \in 0 .. MaxFaults

LEMMA UnseenRecords ==
    ASSUME HistT, LeafActs, Unseen
    PROVE  LeafStep /\ Records
  BY DEF HistT, LeafActs, Unseen, Records

LEMMA BootsRecords ==
    ASSUME HistT, LeafBoots, Boots
    PROVE  LeafStep /\ Records
PROOF
  <1>1. LeafStep /\ (Remembers \/ leaf'.tx = 1)
    BY DEF LeafBoots
  <1>2. /\ DOMAIN hist' = HistFields /\ hist'.issued = hist.issued /\ hist'.acked = hist.acked
        /\ hist'.applied = Forget
    BY DEF HistT, Boots, HistFields
  <1> QED BY <1>1, <1>2 DEF Records, Forget

LEMMA ReceiveMoves ==
    ASSUME LeafReady, HistT, NEW ok \in BOOLEAN, LeafReceive(ok)
    PROVE  LeafMoves
PROOF
  <1>1. PICK f : f = Head(down)
    OBVIOUS
  <1>2. /\ f \in Frames(down) /\ Fits(down') /\ Frames(down') \subseteq Frames(down)
        /\ brg' = brg /\ Recorded(f) /\ (OnFrame(f, ok) \/ OnFrame8266(f, ok))
    BY <1>1, TailFits DEF LeafReceive, LeafReady, AirOK
  <1>3. /\ LeafBoots /\ (f.type # "CONFIG" => LeafActs)
        /\ f.type = "COMMAND" /\ CarriesOut(f) => leaf'.cmd[f.entity] = f.tx
        /\ f.type = "ACK" /\ leaf.joined /\ Newer(f.tx, leaf.lastSeen) /\ Valid(f)
              /\ AckMatches(f) => ~leaf'.waiting
    BY <1>2, FrameActs
  <1>4. faults' \in 0 .. MaxFaults
    BY PaidFacts, PaidBounds DEF LeafReceive, LeafReady
  <1>5. LeafStep /\ Records
    <2>1. CASE f.type = "ACK"
      <3>1. LeafActs /\ Acknowledged(f)
        BY <1>2, <1>3, <2>1 DEF Recorded
      <3>2. CASE leaf.joined /\ Newer(f.tx, leaf.lastSeen) /\ Valid(f) /\ AckMatches(f)
        <4>1. /\ DOMAIN hist' = HistFields /\ hist'.issued = hist.issued
              /\ hist'.applied = hist.applied
              /\ hist'.acked = [hist.acked EXCEPT ![leaf.field] = leaf.pval]
          BY <3>1, <3>2 DEF HistT, Acknowledged, HistFields
        <4>2. Confirms(f)
          BY <1>3, <2>1, <3>2, <4>1 DEF Confirms, Valid, AckMatches
        <4> QED BY <1>2, <3>1, <4>1, <4>2 DEF Records, LeafActs
      <3>3. CASE ~(leaf.joined /\ Newer(f.tx, leaf.lastSeen) /\ Valid(f) /\ AckMatches(f))
        BY <3>1, <3>3, UnseenRecords DEF Acknowledged, Unseen
      <3> QED BY <3>2, <3>3
    <2>2. CASE f.type = "COMMAND"
      <3>1. LeafActs /\ Carried(f)
        BY <1>2, <1>3, <2>2 DEF Recorded
      <3>2. /\ DOMAIN hist' = HistFields /\ hist'.issued = hist.issued
            /\ hist'.acked = hist.acked
            /\ hist'.applied = (IF leaf.joined /\ Valid(f) /\ FreshCommand(f)
                                THEN Append(hist.applied, f.id) ELSE hist.applied)
        BY <3>1 DEF HistT, Carried, HistFields
      <3>3. CASE CarriesOut(f)
        <4>1. Applies(f)
          BY <1>3, <2>2, <3>2, <3>3 DEF Applies, CarriesOut, FreshCommand, Newer
        <4> QED BY <1>2, <3>1, <3>2, <4>1 DEF Records, LeafActs
      <3>4. CASE ~CarriesOut(f)
        BY <3>1, <3>2, <3>4 DEF Records, LeafActs, CarriesOut
      <3> QED BY <3>3, <3>4
    <2>3. CASE f.type = "CONFIG"
      <3>1. Boots
        BY <1>2, <2>3 DEF Recorded
      <3> QED BY <1>3, <3>1, BootsRecords
    <2>4. CASE f.type \notin {"ACK", "COMMAND", "CONFIG"}
      <3>1. Unseen
        BY <1>2, <2>4 DEF Recorded
      <3> QED BY <1>3, <2>4, <3>1, UnseenRecords
    <2> QED BY <2>1, <2>2, <2>3, <2>4
  <1> QED BY <1>2, <1>4, <1>5 DEF LeafMoves

LEMMA Loop32Records ==
    ASSUME LeafReady, HistT, Loop32
    PROVE  LeafStep /\ Records /\ Paid
PROOF
  <1>1. ASSUME NEW ok \in BOOLEAN, Unseen,
               \/ Sends(ok) /\ AdoptParent(ok)
               \/ JoinReady /\ Sends(ok) /\ TryJoin(ok)
               \/ Sends(ok) /\ PushDirty(ok)
               \/ ~JoinReady /\ TimerSends(ok) /\ TryJoin(ok)
               \/ TimerSends(ok) /\ SendDiscover(ok)
               \/ TimerSends(ok) /\ \E ok2 \in BOOLEAN : (ok \/ ok2) /\ StateRetry(ok, ok2)
        PROVE  LeafStep /\ Records /\ Paid
    <2>1. Paid
      BY <1>1, PaidFacts
    <2>2. LeafActs
      BY <1>1, AdoptActs, TryJoinActs, PushActs, DiscoverActs, RetryActs
    <2> QED BY <1>1, <2>1, <2>2, UnseenRecords
  <1>2. CASE \/ Timer /\ JoinExhausted /\ Unseen
             \/ Free /\ SendFailureStall /\ Unseen
             \/ Timer /\ CloseWindow /\ Unseen
             \/ LongTimer /\ JoinedTimeout /\ Unseen
             \/ Timer /\ StateExhausted /\ Unseen
    <2>1. Paid /\ Unseen
      BY <1>2, PaidFacts
    <2>2. LeafActs
      BY <1>2, StartsOverActs, RecoversActs, CandidateActs, ExhaustedActs
    <2> QED BY <2>1, <2>2, UnseenRecords
  <1>3. CASE LongTimer /\ Mute /\ OutboundStall /\ Boots
    BY <1>3, RestartActs, BootsRecords, PaidFacts
  <1> QED BY <1>1, <1>2, <1>3 DEF Loop32

LEMMA Loop8266Records ==
    ASSUME LeafReady, HistT, Loop8266
    PROVE  LeafStep /\ Records /\ Paid
PROOF
  <1>1. ASSUME NEW ok \in BOOLEAN, Unseen,
               \/ Sends(ok) /\ AdoptParent8266(ok)
               \/ JoinReady /\ Sends(ok) /\ TryJoin8266(ok)
               \/ Sends(ok) /\ PushDirty8266(ok)
               \/ ~JoinReady /\ TimerSends(ok) /\ TryJoin8266(ok)
               \/ TimerSends(ok) /\ SendDiscover8266(ok)
               \/ TimerSends(ok) /\ \E ok2 \in BOOLEAN : (ok \/ ok2) /\ StateRetry8266(ok, ok2)
        PROVE  LeafStep /\ Records /\ Paid
    <2>1. Paid
      BY <1>1, PaidFacts
    <2>2. LeafActs
      BY <1>1, AdoptActs, TryJoinActs, PushActs, DiscoverActs, RetryActs DEF SendDiscover8266
    <2> QED BY <1>1, <2>1, <2>2, UnseenRecords
  <1>2. CASE \/ Timer /\ JoinExhausted8266 /\ Unseen
             \/ Free /\ SendFailureStall8266 /\ Unseen
             \/ Timer /\ CloseWindow8266 /\ Unseen
             \/ LongTimer /\ JoinedTimeout8266 /\ Unseen
             \/ Timer /\ StateExhausted8266 /\ Unseen
    <2>1. Paid /\ Unseen
      BY <1>2, PaidFacts
    <2>2. LeafActs
      BY <1>2, StartsOverActs, RecoversActs, CandidateActs, ExhaustedActs
         DEF JoinExhausted8266, CloseWindow8266, JoinedTimeout8266
    <2> QED BY <2>1, <2>2, UnseenRecords
  <1>3. CASE LongTimer /\ Mute /\ OutboundStall8266 /\ Boots
    BY <1>3, RestartActs, BootsRecords, PaidFacts DEF OutboundStall8266
  <1> QED BY <1>1, <1>2, <1>3 DEF Loop8266

\* Every step of the leaf is one.
LEMMA LeafSteps ==
    ASSUME LeafReady, HistT,
           \/ \E ok \in BOOLEAN : LeafReceive(ok)
           \/ LeafLoop
           \/ \E ok \in BOOLEAN : LeafHeartbeat(ok)
           \/ LeafChance
           \/ \E e \in Entities : Change(e)
    PROVE  LeafMoves
PROOF
  <1>1. CASE \E ok \in BOOLEAN : LeafReceive(ok)
    BY <1>1, ReceiveMoves
  <1>2. ASSUME LeafOnly, LeafStep, Records, Paid
        PROVE  LeafMoves
    <2>1. faults' \in 0 .. MaxFaults
      BY <1>2, PaidBounds DEF LeafReady
    <2> QED BY <1>2, <2>1 DEF LeafMoves, LeafOnly, LeafReady, AirOK
  <1>3. CASE LeafLoop
    <2>1. LeafOnly /\ (Loop32 \/ Loop8266)
      BY <1>3 DEF LeafLoop
    <2> QED BY <1>2, <2>1, Loop32Records, Loop8266Records
  <1>4. CASE \E ok \in BOOLEAN : LeafHeartbeat(ok)
    <2>1. PICK ok \in BOOLEAN : LeafHeartbeat(ok)
      BY <1>4
    <2>2. LeafOnly /\ Unseen /\ Paid /\ LeafActs
      BY <2>1, PaidFacts, BeatActs DEF LeafHeartbeat
    <2> QED BY <1>2, <2>2, UnseenRecords
  <1>5. CASE LeafChance
    <2>1. LeafOnly /\ Paid
      BY <1>5, PaidFacts DEF LeafChance
    <2>2. CASE (TopologyRefresh \/ StateStall \/ TopologyRefresh8266 \/ StateStall8266) /\ Unseen
      BY <1>2, <2>1, <2>2, RecoversActs, UnseenRecords
    <2>3. CASE (OutboundStall \/ \E h \in Hashes : LeafRestart(h)) /\ Boots
      BY <1>2, <2>1, <2>3, RestartActs, BootsRecords
    <2>4. leaf.hash \in Hashes
      BY DEF LeafReady, LeafOK, LeafT, Shaped, Numbered
    <2> QED BY <1>5, <2>2, <2>3, <2>4 DEF LeafChance
  <1>6. CASE \E e \in Entities : Change(e)
    <2>1. PICK e \in Entities : LeafOnly /\ Unseen /\ Free /\ EntityChange(e)
      BY <1>6 DEF Change, EntityChange8266
    <2> QED BY <1>2, <2>1, PaidFacts, ChangeActs, UnseenRecords
  <1> QED BY <1>1, <1>3, <1>4, <1>5, <1>6

-----------------------------------------------------------------------------
(* The bridge's record.                                                    *)

SessionFields ==
    {"exists", "named", "key", "keyValid", "nonce", "tx", "lastSeen", "lastState", "jip", "jcp",
     "jcRetry", "schema", "got", "hash", "req", "want", "reqRetry", "sync", "more", "discOk",
     "online", "state", "announce"}
BridgeFields == {"s", "nonces", "slot", "cache", "cmds", "cfgs", "deliveries", "pub"}

SomeHash == Hashes \cup {NoHash}

\* What a session is about, and what it counts besides.
About(s) ==
    /\ s.key \in Key /\ s.nonce \in Nat /\ s.lastState \in Nat
    /\ s.got \in [Entities -> SomeHash] /\ s.hash \in SomeHash /\ s.want \in 0 .. NumEntities
Besides(s) ==
    /\ s.tx \in Positive /\ s.jcRetry \in 0 .. MaxRetries /\ s.reqRetry \in 0 .. MaxRetries
    /\ s.state \in {"NONE", "JOINED", "NORMAL"}
SessionT(s) == DOMAIN s = SessionFields /\ About(s) /\ Besides(s)

CommandT(c) ==
    /\ DOMAIN c = {"id", "entity", "base", "retry"}
    /\ c.id \in Positive /\ c.entity \in Entities /\ c.base \in Nat
    /\ c.retry \in 0 .. MaxCommandRetries
ConfigT(c) ==
    /\ DOMAIN c = {"command", "base", "retry"}
    /\ c.base \in Nat /\ c.retry \in 0 .. MaxConfigRetries

Queued(b) ==
    /\ IsQueue(b.cmds) /\ (\A c \in Frames(b.cmds) : CommandT(c))
    /\ IsQueue(b.cfgs) /\ (\A c \in Frames(b.cfgs) : ConfigT(c))
Kept(b) ==
    /\ b.nonces \in Nat /\ b.slot \in {"none", "me", "other"}
    /\ b.cache.hash \in SomeHash /\ b.cache.got \in [Entities -> SomeHash]
    /\ (\A d \in b.deliveries : d.base \in Nat)
    /\ b.pub \in [Entities -> Nat]
BridgeT(b) == DOMAIN b = BridgeFields /\ SessionT(b.s) /\ Queued(b) /\ Kept(b)

\* t is about what s is about.
Like(s, t) ==
    /\ t.key = s.key /\ t.hash = s.hash /\ t.got = s.got /\ t.nonce = s.nonce
    /\ t.lastState = s.lastState /\ t.want = s.want
    /\ t.schema => s.schema

SameCommand(c, d) == c.id = d.id /\ c.entity = d.entity /\ c.base = d.base

\* n has the session of b, its schema, its states and commands; some of the
\* commands and deliveries may be gone.
Resembles(b, n) ==
    /\ BridgeT(n) /\ Like(b.s, n.s)
    /\ n.nonces = b.nonces /\ n.cache = b.cache /\ n.pub = b.pub
    /\ n.deliveries \subseteq b.deliveries
    /\ \A c \in Frames(n.cmds) : \E d \in Frames(b.cmds) : SameCommand(c, d)

LEMMA SessionFacts ==
    ASSUME NEW s, SessionT(s), NEW t, DOMAIN t = SessionFields, Besides(t),
           \A x \in {"key", "hash", "got", "nonce", "lastState", "want"} : t[x] = s[x],
           t.schema => s.schema
    PROVE  SessionT(t) /\ Like(s, t)
  BY DEF SessionT, About, Like

LEMMA LikeChain ==
    ASSUME NEW s, NEW t, NEW u, Like(s, t), Like(t, u)
    PROVE  Like(s, u)
  BY DEF Like

LEMMA ResemblesFacts ==
    ASSUME NEW b, BridgeT(b), NEW n, DOMAIN n = BridgeFields, SessionT(n.s), Like(b.s, n.s),
           n.slot \in {"none", "me", "other"}, n.deliveries \subseteq b.deliveries,
           n.nonces = b.nonces, n.cache = b.cache, n.pub = b.pub, Queued(n),
           \A c \in Frames(n.cmds) : \E d \in Frames(b.cmds) : SameCommand(c, d)
    PROVE  Resembles(b, n)
  BY DEF Resembles, BridgeT, Kept

LEMMA SameCommands ==
    ASSUME NEW b, NEW n, n.cmds = b.cmds
    PROVE  \A c \in Frames(n.cmds) : \E d \in Frames(b.cmds) : SameCommand(c, d)
  BY DEF SameCommand

LEMMA WithSessionFacts ==
    ASSUME BridgeT(brg), NEW s, SessionT(s), Like(brg.s, s)
    PROVE  Resembles(brg, WithSession(s)) /\ WithSession(s).s = s
PROOF
  <1>1. PICK n : n = WithSession(s)
    OBVIOUS
  <1>2. /\ DOMAIN n = BridgeFields /\ n.s = s
        /\ \A x \in BridgeFields \ {"s"} : n[x] = brg[x]
    BY <1>1 DEF WithSession, BridgeT, BridgeFields
  <1>3. /\ n.slot \in {"none", "me", "other"} /\ n.deliveries \subseteq brg.deliveries
        /\ n.nonces = brg.nonces /\ n.cache = brg.cache /\ n.pub = brg.pub
        /\ n.cmds = brg.cmds /\ n.cfgs = brg.cfgs
    BY <1>2 DEF BridgeT, BridgeFields, Kept
  <1>4. Queued(n)
    BY <1>3 DEF BridgeT, Queued
  <1> QED BY <1>1, <1>2, <1>3, <1>4, ResemblesFacts, SameCommands

LEMMA ItselfFacts ==
    ASSUME BridgeT(brg)
    PROVE  Resembles(brg, brg)
  BY DEF Resembles, Like, SameCommand

LEMMA BumpFacts ==
    ASSUME NEW s, SessionT(s)
    PROVE  SessionT(Bump(s)) /\ Like(s, Bump(s))
PROOF
  <1>1. PICK t : t = Bump(s)
    OBVIOUS
  <1>2. /\ DOMAIN t = SessionFields /\ t.tx = s.tx + 1
        /\ \A x \in SessionFields \ {"tx"} : t[x] = s[x]
    BY <1>1 DEF Bump, SessionT, SessionFields
  <1>3. Besides(t) /\ t.schema = s.schema
    BY <1>2 DEF SessionT, Besides, SessionFields, Positive
  <1> QED BY <1>1, <1>2, <1>3, SessionFacts DEF SessionFields

\* Fields nothing here depends on.
Loose ==
    {"exists", "named", "keyValid", "lastSeen", "jip", "jcp", "req", "sync", "more", "discOk",
     "online", "announce"}

LEMMA LooseFacts ==
    ASSUME NEW s, SessionT(s), NEW t, DOMAIN t = SessionFields,
           t.jcRetry \in 0 .. MaxRetries, t.reqRetry \in 0 .. MaxRetries,
           t.state \in {"NONE", "JOINED", "NORMAL"}, t.schema => s.schema,
           \A x \in SessionFields \ (Loose \cup {"jcRetry", "reqRetry", "state", "schema"}) :
              t[x] = s[x]
    PROVE  SessionT(t) /\ Like(s, t)
PROOF
  <1>1. Besides(t)
    BY DEF SessionT, Besides, SessionFields, Loose
  <1> QED BY <1>1, SessionFacts DEF SessionFields, Loose

LEMMA AcceptedSession ==
    ASSUME NEW s, SessionT(s)
    PROVE  SessionT(Accepted(s)) /\ Like(s, Accepted(s))
PROOF
  <1>1. PICK u : u = Bump(s) /\ SessionT(u) /\ Like(s, u)
    BY BumpFacts
  <1>2. PICK t : t = [u EXCEPT !.jip = TRUE]
    OBVIOUS
  <1>3. DOMAIN t = SessionFields /\ \A x \in SessionFields \ {"jip"} : t[x] = u[x]
    BY <1>1, <1>2 DEF SessionT, SessionFields
  <1>4. SessionT(t) /\ Like(u, t)
    BY <1>1, <1>3, LooseFacts DEF SessionFields, Loose, SessionT, Besides
  <1> QED BY <1>1, <1>2, <1>4, LikeChain DEF Accepted

LEMMA DroppedSession ==
    ASSUME NEW s, SessionT(s)
    PROVE  SessionT(Dropped(s)) /\ Like(s, Dropped(s))
PROOF
  <1>1. PICK t : t = Dropped(s)
    OBVIOUS
  <1>2. /\ DOMAIN t = SessionFields /\ t.state = "NONE" /\ ~t.schema
        /\ \A x \in SessionFields \ (Loose \cup {"state", "schema"}) : t[x] = s[x]
    BY <1>1 DEF Dropped, SessionT, SessionFields, Loose
  <1> QED BY <1>1, <1>2, LooseFacts DEF SessionFields, Loose, SessionT, Besides

LEMMA OnlineSession ==
    ASSUME NEW s, SessionT(s), NEW tx
    PROVE  /\ SessionT(MarkOnline(s, tx)) /\ Like(s, MarkOnline(s, tx))
           /\ SessionT(OnlineIfNormal(s, tx)) /\ Like(s, OnlineIfNormal(s, tx))
           /\ OnlineIfNormal(s, tx).keyValid = s.keyValid
           /\ OnlineIfNormal(s, tx).exists = s.exists
PROOF
  <1>1. PICK t : t = MarkOnline(s, tx)
    OBVIOUS
  <1>2. /\ DOMAIN t = SessionFields
        /\ \A x \in SessionFields \ {"online", "lastSeen"} : t[x] = s[x]
    BY <1>1 DEF MarkOnline, SessionT, SessionFields
  <1>3. SessionT(t) /\ Like(s, t)
    BY <1>2, LooseFacts DEF SessionFields, Loose, SessionT, Besides
  <1>4. Like(s, s) /\ t.keyValid = s.keyValid /\ t.exists = s.exists
    BY <1>2 DEF Like, SessionFields
  <1> QED BY <1>1, <1>3, <1>4 DEF OnlineIfNormal

LEMMA CompletedFacts ==
    ASSUME NEW b, BridgeT(b), NEW reset \in BOOLEAN
    PROVE  /\ Resembles(b, Completed(b, reset))
           /\ Completed(b, reset).s.keyValid = b.s.keyValid
           /\ Completed(b, reset).s.jcRetry \in {0, b.s.jcRetry}
           /\ Completed(b, reset).cmds = b.cmds /\ Completed(b, reset).deliveries = b.deliveries
PROOF
  <1>1. PICK a : a = Accepted(b.s) /\ SessionT(a) /\ Like(b.s, a)
    BY AcceptedSession DEF BridgeT
  <1>2. a.keyValid = b.s.keyValid /\ a.jcRetry = b.s.jcRetry
    BY <1>1 DEF Accepted, Bump, BridgeT, SessionT, SessionFields
  <1>3. PICK t : t = [a EXCEPT !.jcp = TRUE, !.jip = FALSE, !.jcRetry = IF reset THEN 0 ELSE @]
    OBVIOUS
  <1>4. /\ DOMAIN t = SessionFields /\ t.jcRetry \in {0, a.jcRetry}
        /\ \A x \in SessionFields \ {"jcp", "jip", "jcRetry"} : t[x] = a[x]
    BY <1>1, <1>3 DEF SessionT, SessionFields
  <1>5. SessionT(t) /\ Like(a, t)
    BY <1>1, <1>4, LooseFacts, Bounds DEF SessionFields, Loose, SessionT, Besides
  <1>6. SessionT(t) /\ Like(b.s, t) /\ t.keyValid = b.s.keyValid /\ t.jcRetry \in {0, b.s.jcRetry}
    BY <1>1, <1>2, <1>4, <1>5, LikeChain DEF SessionFields
  <1>7. PICK n : n = Completed(b, reset)
    OBVIOUS
  <1>8. /\ DOMAIN n = BridgeFields /\ n.slot = "none" /\ n.s = t
        /\ \A x \in BridgeFields \ {"slot", "s"} : n[x] = b[x]
    BY <1>1, <1>3, <1>7 DEF Completed, BridgeT, BridgeFields
  <1>9. /\ n.deliveries = b.deliveries /\ n.nonces = b.nonces /\ n.cache = b.cache
        /\ n.pub = b.pub /\ n.cmds = b.cmds /\ n.cfgs = b.cfgs
    BY <1>8 DEF BridgeFields
  <1>10. Queued(n)
    BY <1>9 DEF BridgeT, Queued
  <1>11. Resembles(b, n)
    BY <1>6, <1>8, <1>9, <1>10, ResemblesFacts, SameCommands
  <1> QED BY <1>6, <1>7, <1>8, <1>9, <1>11

LEMMA ResemblesChain ==
    ASSUME NEW a, NEW b, NEW c, Resembles(a, b), Resembles(b, c)
    PROVE  Resembles(a, c)
PROOF
  <1>1. Like(a.s, c.s)
    BY LikeChain DEF Resembles
  <1>2. \A x \in Frames(c.cmds) : \E y \in Frames(a.cmds) : SameCommand(x, y)
    BY DEF Resembles, SameCommand
  <1> QED BY <1>1, <1>2 DEF Resembles

-----------------------------------------------------------------------------
(* The steps of the bridge.                                                *)

\* The first parts of the schema are of the firmware the session is about.
Upto(s, n) == \A e \in Entities : e < n => s.got[e] = s.hash

\* A schema that counts as whole is of one firmware, here and in the cache.
SchemaFine(b) ==
    /\ b.s.schema => \A e \in Entities : b.s.got[e] = b.s.hash
    /\ Upto(b.s, b.s.want)
    /\ b.cache.hash # NoHash => \A e \in Entities : b.cache.got[e] = b.cache.hash

\* What a bridge that has become n may say.
Says(n, g) ==
    /\ DownT(g)
    /\ g.type = "JOIN_ACK" => g.nonce = n.s.nonce
    /\ g.type = "ACK" => g.key = n.s.key /\ (Sinks = FALSE => g.ref = n.s.lastState)
    /\ g.type = "SCHEMA_REQUEST" => g.key = n.s.key /\ Upto(n.s, g.desc)
    /\ g.type = "COMMAND" =>
          \E c \in Frames(n.cmds) : c.id = g.id /\ c.entity = g.entity /\ c.base = g.tx

Spoke(n) == Fits(down') /\ \A g \in Frames(down') : g \in Frames(down) \/ Says(n, g)

BridgeReady == BridgeT(brg) /\ SchemaFine(brg) /\ AirOK

\* The session goes on.
Stays == Resembles(brg, brg') /\ Spoke(brg')

LEMMA ResemblesFine ==
    ASSUME NEW b, NEW n, SchemaFine(b), Resembles(b, n)
    PROVE  SchemaFine(n)
  BY DEF SchemaFine, Resembles, Like, Upto

LEMMA Speaks ==
    ASSUME NEW n, BridgeT(n), NEW s, SessionT(s), s.key = n.s.key, s.nonce = n.s.nonce
    PROVE  /\ Says(n, Announce) /\ Says(n, Deauth)
           /\ Says(n, JoinAck(s, FALSE, "NONE"))
           /\ \A stage \in {"SCHEMA_REFRESH", "SEND_STATE", "COMPLETE"} :
                 Says(n, JoinAck(s, TRUE, stage))
           /\ \A ref \in Nat : (Sinks = FALSE => ref = n.s.lastState) => Says(n, StateAck(s, ref))
           /\ \A d \in Nat : Upto(n.s, d) => Says(n, SchemaRequest(s, d))
           /\ \A c \in Frames(n.cmds) : Says(n, Command(s, c))
           /\ \A c : ConfigT(c) => Says(n, Config(s, c))
PROOF
  <1>1. s.tx \in Nat /\ s.key \in Key /\ s.nonce \in Nat
    BY DEF SessionT, About, Besides, Positive
  <1>2. Says(n, Announce) /\ Says(n, Deauth)
    BY DEF Says, DownT, Announce, Deauth
  <1>3. Says(n, JoinAck(s, FALSE, "NONE"))
    BY <1>1 DEF Says, DownT, JoinAck
  <1>4. \A stage \in {"SCHEMA_REFRESH", "SEND_STATE", "COMPLETE"} : Says(n, JoinAck(s, TRUE, stage))
    BY <1>1 DEF Says, DownT, JoinAck
  <1>5. \A ref \in Nat : (Sinks = FALSE => ref = n.s.lastState) => Says(n, StateAck(s, ref))
    BY <1>1 DEF Says, DownT, StateAck
  <1>6. \A d \in Nat : Upto(n.s, d) => Says(n, SchemaRequest(s, d))
    BY <1>1 DEF Says, DownT, SchemaRequest
  <1>7. \A c \in Frames(n.cmds) : Says(n, Command(s, c))
    BY <1>1 DEF Says, DownT, Command, BridgeT, Queued, CommandT
  <1>8. \A c : ConfigT(c) => Says(n, Config(s, c))
    BY <1>1 DEF Says, DownT, Config, ConfigT
  <1> QED BY <1>2, <1>3, <1>4, <1>5, <1>6, <1>7, <1>8

LEMMA PutFacts ==
    ASSUME NEW q, Fits(q), NEW f, NEW ok
    PROVE  /\ Fits(Put(q, f, ok)) /\ Frames(Put(q, f, ok)) \subseteq Frames(q) \cup {f}
           /\ ~ok => Put(q, f, ok) = q
  BY EnqueueFits DEF Put, ToLeaf

LEMMA RespondFacts ==
    ASSUME AirOK, NEW n, NEW f, NEW ok, Says(n, f), Respond(n, f, ok)
    PROVE  brg' = n /\ Spoke(n)
  BY PutFacts DEF Respond, Become, Spoke, AirOK

LEMMA QuietlyFacts ==
    ASSUME AirOK, NEW n, Quietly(n)
    PROVE  brg' = n /\ Spoke(n)
  BY DEF Quietly, Become, Spoke, AirOK

\* A step that says nothing, or one thing, of a session that goes on.
LEMMA QuietStays ==
    ASSUME BridgeReady, NEW s, SessionT(s), Like(brg.s, s), Quietly(WithSession(s))
    PROVE  Stays
  BY WithSessionFacts, QuietlyFacts DEF Stays, BridgeReady

LEMMA SpokenStays ==
    ASSUME BridgeReady, NEW s, SessionT(s), Like(brg.s, s), NEW f, NEW ok,
           Says(WithSession(s), f), Respond(WithSession(s), f, ok)
    PROVE  Stays
  BY WithSessionFacts, RespondFacts DEF Stays, BridgeReady

\* What is said from the session as it was.
LEMMA SpeaksStill ==
    ASSUME BridgeReady, NEW n, Resembles(brg, n), NEW s, SessionT(s), Like(brg.s, s)
    PROVE  /\ Says(n, Announce) /\ Says(n, Deauth)
           /\ Says(n, JoinAck(s, FALSE, "NONE"))
           /\ \A stage \in {"SCHEMA_REFRESH", "SEND_STATE", "COMPLETE"} :
                 Says(n, JoinAck(s, TRUE, stage))
           /\ Says(n, StateAck(s, brg.s.lastState))
           /\ \A d \in Nat : Upto(brg.s, d) => Says(n, SchemaRequest(s, d))
           /\ \A c \in Frames(n.cmds) : Says(n, Command(s, c))
           /\ \A c : ConfigT(c) => Says(n, Config(s, c))
PROOF
  <1>1. /\ BridgeT(n) /\ s.key = n.s.key /\ s.nonce = n.s.nonce
        /\ n.s.lastState = brg.s.lastState /\ n.s.got = brg.s.got /\ n.s.hash = brg.s.hash
        /\ brg.s.lastState \in Nat
    BY DEF Resembles, Like, BridgeReady, BridgeT, SessionT, About
  <1>2. \A d : Upto(brg.s, d) => Upto(n.s, d)
    BY <1>1 DEF Upto
  <1> QED BY <1>1, <1>2, Speaks

LEMMA DiscoverStays ==
    ASSUME BridgeReady, HandleDiscover
    PROVE  Stays
PROOF
  <1>1. PICK s : s = [brg.s EXCEPT !.exists = TRUE, !.announce = TRUE]
    OBVIOUS
  <1>2. /\ DOMAIN s = SessionFields
        /\ \A x \in SessionFields \ {"exists", "announce"} : s[x] = brg.s[x]
    BY <1>1 DEF BridgeReady, BridgeT, SessionT, SessionFields
  <1>3. SessionT(s) /\ Like(brg.s, s)
    BY <1>2, LooseFacts DEF BridgeReady, BridgeT, SessionFields, Loose, SessionT, Besides
  <1> QED BY <1>1, <1>3, QuietStays DEF HandleDiscover

LEMMA RejectStays ==
    ASSUME BridgeReady, NEW ok, Reject(ok)
    PROVE  Stays
PROOF
  <1>1. SessionT(Bump(brg.s)) /\ Like(brg.s, Bump(brg.s))
    BY BumpFacts DEF BridgeReady, BridgeT
  <1>2. CASE brg.s.exists
    <2>1. Respond(WithSession(Bump(brg.s)), Deauth, ok)
      BY <1>2 DEF Reject
    <2>2. Says(WithSession(Bump(brg.s)), Deauth)
      BY DEF Says, DownT, Deauth
    <2> QED BY <1>1, <2>1, <2>2, SpokenStays
  <1>3. CASE ~brg.s.exists
    <2>1. Respond(brg, Deauth, ok)
      BY <1>3 DEF Reject
    <2>2. Says(brg, Deauth)
      BY DEF Says, DownT, Deauth
    <2> QED BY <2>1, <2>2, ItselfFacts, RespondFacts DEF Stays, BridgeReady
  <1> QED BY <1>2, <1>3

LEMMA NothingStays ==
    ASSUME BridgeReady, Quietly(brg)
    PROVE  Stays
  BY ItselfFacts, QuietlyFacts DEF Stays, BridgeReady

LEMMA HeartbeatStays ==
    ASSUME BridgeReady, NEW f, NEW ok, HandleHeartbeat(f, ok)
    PROVE  Stays
PROOF
  <1>1. PICK s : s = [brg.s EXCEPT !.lastSeen = f.tx, !.jcp = FALSE, !.jcRetry = 0, !.jip = FALSE]
    OBVIOUS
  <1>2. /\ DOMAIN s = SessionFields /\ s.jcRetry = 0
        /\ \A x \in SessionFields \ {"lastSeen", "jcp", "jcRetry", "jip"} : s[x] = brg.s[x]
    BY <1>1 DEF BridgeReady, BridgeT, SessionT, SessionFields
  <1>3. SessionT(s) /\ Like(brg.s, s)
    BY <1>2, LooseFacts, Bounds
       DEF BridgeReady, BridgeT, SessionFields, Loose, SessionT, Besides
  <1>4. PICK t : t = [s EXCEPT !.state = "NORMAL"]
    OBVIOUS
  <1>5. /\ DOMAIN t = SessionFields /\ t.state = "NORMAL"
        /\ \A x \in SessionFields \ {"state"} : t[x] = s[x]
    BY <1>3, <1>4 DEF SessionT, SessionFields
  <1>6. SessionT(t) /\ Like(s, t)
    BY <1>3, <1>5, LooseFacts DEF SessionFields, Loose, SessionT, Besides
  <1>7. SessionT(MarkOnline(t, f.tx)) /\ Like(brg.s, MarkOnline(t, f.tx))
    BY <1>3, <1>6, OnlineSession, LikeChain
  <1>8. \/ Reject(ok) \/ Quietly(brg) \/ Quietly(WithSession(s))
        \/ Quietly(WithSession(MarkOnline(t, f.tx)))
    BY <1>1, <1>4 DEF HandleHeartbeat
  <1> QED BY <1>3, <1>7, <1>8, RejectStays, NothingStays, QuietStays

LEMMA SomeAnswered ==
    ASSUME NEW q, IsQueue(q), NEW f
    PROVE  IsQueue(Answered(q, f)) /\ Frames(Answered(q, f)) \subseteq Frames(q)
PROOF
  <1>1. CASE Matching(q, f) = {}
    BY <1>1 DEF Answered
  <1>2. CASE Matching(q, f) # {}
    <2>1. Matching(q, f) \in SUBSET Nat
      BY DEF Matching, IsQueue
    <2>2. Min(Matching(q, f)) \in DOMAIN q
      BY <1>2, <2>1, MinOfSome DEF Matching
    <2> QED BY <1>2, <2>2, QueueWithout DEF Answered
  <1> QED BY <1>1, <1>2

LEMMA LeafAckStays ==
    ASSUME BridgeReady, NEW f, NEW ok, HandleLeafAck(f, ok)
    PROVE  Stays
PROOF
  <1>1. PICK b : b = [brg EXCEPT !.s.lastSeen = f.tx]
    OBVIOUS
  <1>2. PICK o : o = [b EXCEPT !.s = OnlineIfNormal(@, f.tx)]
    OBVIOUS
  <1>3. DOMAIN brg = BridgeFields /\ DOMAIN brg.s = SessionFields /\ SessionT(brg.s)
    BY DEF BridgeReady, BridgeT, SessionT
  <1>4. /\ DOMAIN b = BridgeFields /\ b.s = [brg.s EXCEPT !.lastSeen = f.tx]
        /\ \A x \in BridgeFields \ {"s"} : b[x] = brg[x]
    BY <1>1, <1>3 DEF BridgeFields
  <1>5. DOMAIN b.s = SessionFields /\ \A x \in SessionFields \ {"lastSeen"} : b.s[x] = brg.s[x]
    BY <1>3, <1>4 DEF SessionFields
  <1>6. SessionT(b.s) /\ Like(brg.s, b.s)
    BY <1>3, <1>5, LooseFacts, SMTT(30) DEF SessionFields, Loose, SessionT, Besides
  <1>7. /\ DOMAIN o = BridgeFields /\ o.s = OnlineIfNormal(b.s, f.tx)
        /\ \A x \in BridgeFields \ {"s"} : o[x] = brg[x]
    BY <1>2, <1>4 DEF BridgeFields
  <1>8. SessionT(o.s) /\ Like(brg.s, o.s)
    BY <1>6, <1>7, OnlineSession, LikeChain
  <1>9. ASSUME NEW n, DOMAIN n = BridgeFields, n.s \in {b.s, o.s},
               \A x \in BridgeFields \ {"s", "cmds", "cfgs"} : n[x] = brg[x],
               n.cmds \in {brg.cmds, Answered(brg.cmds, f)},
               n.cfgs \in {brg.cfgs, Answered(brg.cfgs, f)},
               Quietly(n)
        PROVE  Stays
    <2>1. /\ IsQueue(n.cmds) /\ Frames(n.cmds) \subseteq Frames(brg.cmds)
          /\ IsQueue(n.cfgs) /\ Frames(n.cfgs) \subseteq Frames(brg.cfgs)
      BY <1>9, SomeAnswered DEF BridgeReady, BridgeT, Queued
    <2>2. Queued(n)
      BY <2>1 DEF BridgeReady, BridgeT, Queued
    <2>3. /\ n.slot \in {"none", "me", "other"} /\ n.deliveries \subseteq brg.deliveries
          /\ n.nonces = brg.nonces /\ n.cache = brg.cache /\ n.pub = brg.pub
      BY <1>9 DEF BridgeReady, BridgeT, BridgeFields, Kept
    <2>4. \A c \in Frames(n.cmds) : \E d \in Frames(brg.cmds) : SameCommand(c, d)
      BY <2>1 DEF SameCommand
    <2>5. SessionT(n.s) /\ Like(brg.s, n.s)
      BY <1>6, <1>8, <1>9
    <2>6. Resembles(brg, n)
      BY <1>9, <2>2, <2>3, <2>4, <2>5, ResemblesFacts DEF BridgeReady
    <2> QED BY <1>9, <2>6, QuietlyFacts DEF Stays, BridgeReady
  <1>10. PICK p : p = [o EXCEPT !.cmds = Answered(@, f)]
    OBVIOUS
  <1>11. PICK r : r = [o EXCEPT !.cfgs = Answered(@, f)]
    OBVIOUS
  <1>12. \/ Reject(ok) \/ Quietly(brg) \/ Quietly(p) \/ Quietly(r) \/ Quietly(b)
    BY <1>1, <1>2, <1>10, <1>11 DEF HandleLeafAck
  <1>13. CASE Quietly(p)
    <2>1. /\ DOMAIN p = BridgeFields /\ p.s = o.s /\ p.cmds = Answered(brg.cmds, f)
          /\ p.cfgs = brg.cfgs
          /\ \A x \in BridgeFields \ {"s", "cmds", "cfgs"} : p[x] = brg[x]
      BY <1>7, <1>10 DEF BridgeFields
    <2> QED BY <1>9, <1>13, <2>1
  <1>14. CASE Quietly(r)
    <2>1. /\ DOMAIN r = BridgeFields /\ r.s = o.s /\ r.cfgs = Answered(brg.cfgs, f)
          /\ r.cmds = brg.cmds
          /\ \A x \in BridgeFields \ {"s", "cmds", "cfgs"} : r[x] = brg[x]
      BY <1>7, <1>11 DEF BridgeFields
    <2> QED BY <1>9, <1>14, <2>1
  <1>15. CASE Quietly(b)
    <2>1. b.cmds = brg.cmds /\ b.cfgs = brg.cfgs
      BY <1>4 DEF BridgeFields
    <2> QED BY <1>4, <1>9, <1>15, <2>1
  <1> QED BY <1>12, <1>13, <1>14, <1>15, RejectStays, NothingStays

\* loop() of the bridge, and what else only touches flags of the session.
LEMMA FlagsStay ==
    ASSUME BridgeReady,
           \/ OfflineTimeout \/ SchemaGiveUp \/ SyncTimeout \/ CompleteGiveUp \/ ForceRejoin
    PROVE  Stays
PROOF
  <1>1. DOMAIN brg.s = SessionFields /\ SessionT(brg.s)
        /\ brg.s.jcRetry \in 0 .. MaxRetries /\ brg.s.reqRetry \in 0 .. MaxRetries
        /\ brg.s.state \in {"NONE", "JOINED", "NORMAL"}
    BY DEF BridgeReady, BridgeT, SessionT, Besides
  <1>2. ASSUME NEW s, DOMAIN s = SessionFields, s.jcRetry \in {0, brg.s.jcRetry},
               s.state \in {"NONE", brg.s.state},
               \A x \in SessionFields \ (Loose \cup {"jcRetry", "state"}) : s[x] = brg.s[x],
               Quietly(WithSession(s))
        PROVE  Stays
    <2>1. s.jcRetry \in 0 .. MaxRetries /\ s.state \in {"NONE", "JOINED", "NORMAL"}
      BY <1>1, <1>2, Bounds
    <2>2. s.schema = brg.s.schema /\ s.reqRetry = brg.s.reqRetry
      BY <1>2 DEF SessionFields, Loose
    <2>3. SessionT(s) /\ Like(brg.s, s)
      BY <1>1, <1>2, <2>1, <2>2, LooseFacts
    <2> QED BY <1>2, <2>3, QuietStays
  <1> USE DEF SessionFields, Loose
  <1>3. CASE OfflineTimeout
    <2>1. PICK s : s = [brg.s EXCEPT !.online = FALSE, !.state = "NONE"]
      OBVIOUS
    <2>2. /\ DOMAIN s = SessionFields /\ s.jcRetry = brg.s.jcRetry /\ s.state = "NONE"
          /\ \A x \in SessionFields \ (Loose \cup {"jcRetry", "state"}) : s[x] = brg.s[x]
      BY <1>1, <2>1
    <2> QED BY <1>2, <1>3, <2>1, <2>2 DEF OfflineTimeout
  <1>4. CASE SchemaGiveUp
    <2>1. PICK s : s = [brg.s EXCEPT !.online = FALSE, !.state = "NONE", !.req = FALSE,
                                     !.keyValid = FALSE, !.jip = FALSE]
      OBVIOUS
    <2>2. /\ DOMAIN s = SessionFields /\ s.jcRetry = brg.s.jcRetry /\ s.state = "NONE"
          /\ \A x \in SessionFields \ (Loose \cup {"jcRetry", "state"}) : s[x] = brg.s[x]
      BY <1>1, <2>1
    <2> QED BY <1>2, <1>4, <2>1, <2>2 DEF SchemaGiveUp
  <1>5. CASE SyncTimeout
    <2>1. PICK s : s = [brg.s EXCEPT !.sync = FALSE, !.jip = FALSE]
      OBVIOUS
    <2>2. /\ DOMAIN s = SessionFields /\ s.jcRetry = brg.s.jcRetry /\ s.state = brg.s.state
          /\ \A x \in SessionFields \ (Loose \cup {"jcRetry", "state"}) : s[x] = brg.s[x]
      BY <1>1, <2>1
    <2> QED BY <1>2, <1>5, <2>1, <2>2 DEF SyncTimeout
  <1>6. CASE CompleteGiveUp
    <2>1. PICK s : s = [brg.s EXCEPT !.jcp = FALSE, !.jcRetry = 0, !.jip = FALSE,
                                     !.online = FALSE, !.state = "NONE", !.req = FALSE]
      OBVIOUS
    <2>2. /\ DOMAIN s = SessionFields /\ s.jcRetry = 0 /\ s.state = "NONE"
          /\ \A x \in SessionFields \ (Loose \cup {"jcRetry", "state"}) : s[x] = brg.s[x]
      BY <1>1, <2>1
    <2> QED BY <1>2, <1>6, <2>1, <2>2, ZenonT(60) DEF CompleteGiveUp
  <1>7. CASE ForceRejoin
    <2>1. PICK s : s = [brg.s EXCEPT !.sync = TRUE]
      OBVIOUS
    <2>2. /\ DOMAIN s = SessionFields /\ s.jcRetry = brg.s.jcRetry /\ s.state = brg.s.state
          /\ \A x \in SessionFields \ (Loose \cup {"jcRetry", "state"}) : s[x] = brg.s[x]
      BY <1>1, <2>1
    <2> QED BY <1>2, <1>7, <2>1, <2>2 DEF ForceRejoin
  <1> QED BY <1>3, <1>4, <1>5, <1>6, <1>7

LEMMA AnnounceStays ==
    ASSUME BridgeReady, NEW ok, SendAnnounce(ok)
    PROVE  Stays
PROOF
  <1>1. PICK s : s = [brg.s EXCEPT !.announce = FALSE]
    OBVIOUS
  <1>2. DOMAIN s = SessionFields /\ \A x \in SessionFields \ {"announce"} : s[x] = brg.s[x]
    BY <1>1 DEF BridgeReady, BridgeT, SessionT, SessionFields
  <1>3. SessionT(s) /\ Like(brg.s, s)
    BY <1>2, LooseFacts DEF BridgeReady, BridgeT, SessionFields, Loose, SessionT, Besides
  <1>4. Says(WithSession(s), Announce)
    BY DEF Says, DownT, Announce
  <1> QED BY <1>1, <1>3, <1>4, SpokenStays DEF SendAnnounce

LEMMA SchemaRetryStays ==
    ASSUME BridgeReady, NEW ok, SchemaRetry(ok)
    PROVE  Stays
PROOF
  <1>1. PICK u : u = Bump(brg.s) /\ SessionT(u) /\ Like(brg.s, u)
    BY BumpFacts DEF BridgeReady, BridgeT
  <1>2. PICK s : s = [u EXCEPT !.reqRetry = @ + 1, !.req = ok]
    OBVIOUS
  <1>3. u.reqRetry = brg.s.reqRetry /\ u.reqRetry \in Nat /\ u.reqRetry < MaxRetries
    BY <1>1, Bounds
       DEF SchemaRetry, Bump, BridgeReady, BridgeT, SessionT, SessionFields, Besides
  <1>4. /\ DOMAIN s = SessionFields /\ s.reqRetry = u.reqRetry + 1
        /\ \A x \in SessionFields \ {"reqRetry", "req"} : s[x] = u[x]
    BY <1>1, <1>2 DEF SessionT, SessionFields
  <1>5. s.reqRetry \in 0 .. MaxRetries
    BY <1>3, <1>4, Bounds
  <1>6. SessionT(s) /\ Like(u, s)
    BY <1>1, <1>4, <1>5, LooseFacts DEF SessionFields, Loose, SessionT, Besides
  <1>7. SessionT(s) /\ Like(brg.s, s) /\ SessionT(brg.s) /\ Like(brg.s, brg.s)
    BY <1>1, <1>6, LikeChain DEF BridgeReady, BridgeT, Like
  <1>8. Resembles(brg, WithSession(s))
    BY <1>7, WithSessionFacts DEF BridgeReady
  <1>9. brg.s.want \in Nat /\ Upto(brg.s, brg.s.want)
    BY Bounds DEF BridgeReady, BridgeT, SessionT, About, SchemaFine
  <1>10. Says(WithSession(s), SchemaRequest(brg.s, brg.s.want))
    BY <1>7, <1>8, <1>9, SpeaksStill
  <1>11. Respond(WithSession(s), SchemaRequest(brg.s, brg.s.want), ok)
    BY <1>1, <1>2 DEF SchemaRetry
  <1> QED BY <1>7, <1>10, <1>11, SpokenStays

LEMMA CompleteRetryStays ==
    ASSUME BridgeReady, NEW ok, CompleteRetry(ok)
    PROVE  Stays
PROOF
  <1>1. PICK b : /\ b = Completed(brg, FALSE) /\ Resembles(brg, b)
                 /\ b.s.jcRetry \in {0, brg.s.jcRetry}
    BY CompletedFacts DEF BridgeReady
  <1>2. PICK n : n = IF ok THEN [b EXCEPT !.s.jcRetry = @ + 1] ELSE b
    OBVIOUS
  <1>3. Respond(n, JoinAck(brg.s, TRUE, "COMPLETE"), ok) /\ brg.s.jcRetry < MaxRetries
    BY <1>1, <1>2 DEF CompleteRetry
  <1>4. BridgeT(b) /\ Like(brg.s, b.s)
    BY <1>1 DEF Resembles
  <1>5. b.s.jcRetry + 1 \in 0 .. MaxRetries
    <2>1. brg.s.jcRetry \in Nat
      BY Bounds DEF BridgeReady, BridgeT, SessionT, Besides
    <2>2. MaxRetries \in Nat /\ MaxRetries > 0 /\ brg.s.jcRetry < MaxRetries
      BY <1>3, Bounds
    <2>3. b.s.jcRetry = 0 \/ b.s.jcRetry = brg.s.jcRetry
      BY <1>1
    <2>4. CASE b.s.jcRetry = 0
      BY <2>2, <2>4
    <2>5. CASE b.s.jcRetry = brg.s.jcRetry
      BY <2>1, <2>2, <2>5
    <2> QED BY <2>3, <2>4, <2>5
  <1>6. Resembles(b, n)
    <2>1. CASE ~ok
      BY <1>2, <1>4, <2>1 DEF Resembles, Like, SameCommand
    <2>2. CASE ok
      <3>1. PICK t : t = [b.s EXCEPT !.jcRetry = @ + 1]
        OBVIOUS
      <3>2. /\ DOMAIN t = SessionFields /\ t.jcRetry = b.s.jcRetry + 1
            /\ \A x \in SessionFields \ {"jcRetry"} : t[x] = b.s[x]
        BY <1>4, <3>1 DEF BridgeT, SessionT, SessionFields
      <3>3. SessionT(t) /\ Like(b.s, t)
        BY <1>4, <1>5, <3>2, LooseFacts DEF BridgeT, SessionFields, Loose, SessionT, Besides
      <3>4. /\ DOMAIN n = BridgeFields /\ n.s = t
            /\ \A x \in BridgeFields \ {"s"} : n[x] = b[x]
        BY <1>2, <1>4, <2>2, <3>1 DEF BridgeT, BridgeFields
      <3>5. /\ n.slot \in {"none", "me", "other"} /\ n.deliveries = b.deliveries
            /\ n.nonces = b.nonces /\ n.cache = b.cache /\ n.pub = b.pub
            /\ n.cmds = b.cmds /\ n.cfgs = b.cfgs
        BY <1>4, <3>4 DEF BridgeT, BridgeFields, Kept
      <3>6. Queued(n)
        BY <1>4, <3>5 DEF BridgeT, Queued
      <3> QED BY <1>4, <3>3, <3>4, <3>5, <3>6, ResemblesFacts, SameCommands
    <2> QED BY <2>1, <2>2
  <1>7. Resembles(brg, n)
    BY <1>1, <1>6, ResemblesChain
  <1>8. SessionT(brg.s) /\ Like(brg.s, brg.s)
    BY DEF BridgeReady, BridgeT, Like
  <1>9. Says(n, JoinAck(brg.s, TRUE, "COMPLETE"))
    BY <1>7, <1>8, SpeaksStill
  <1> QED BY <1>3, <1>7, <1>9, RespondFacts DEF Stays, BridgeReady

\* The join slot, and deliveries that are given up.
LEMMA SlotStays ==
    ASSUME BridgeReady,
           \/ SlotTimeout \/ OtherJoins \/ OtherJoined \/ \E d \in brg.deliveries : DeliveryExpired(d)
    PROVE  Stays
PROOF
  <1>1. PICK n : /\ Quietly(n)
                 /\ \/ n = [brg EXCEPT !.slot = "none"]
                    \/ n = [brg EXCEPT !.slot = "other"]
                    \/ \E d \in brg.deliveries : n = [brg EXCEPT !.deliveries = @ \ {d}]
    BY DEF SlotTimeout, OtherJoins, OtherJoined, DeliveryExpired
  <1>2. DOMAIN brg = BridgeFields /\ brg.slot \in {"none", "me", "other"}
    BY DEF BridgeReady, BridgeT, Kept
  <1>3. /\ DOMAIN n = BridgeFields /\ n.slot \in {"none", "other", brg.slot}
        /\ n.deliveries \subseteq brg.deliveries
        /\ \A x \in BridgeFields \ {"slot", "deliveries"} : n[x] = brg[x]
    BY <1>1, <1>2 DEF BridgeFields
  <1>4. /\ n.s = brg.s /\ n.nonces = brg.nonces /\ n.cache = brg.cache /\ n.pub = brg.pub
        /\ n.cmds = brg.cmds /\ n.cfgs = brg.cfgs
    BY <1>3 DEF BridgeFields
  <1>5. Queued(n) /\ SessionT(n.s) /\ Like(brg.s, n.s)
    BY <1>4 DEF BridgeReady, BridgeT, Queued, Like
  <1>6. n.slot \in {"none", "me", "other"}
    BY <1>2, <1>3
  <1>7. Resembles(brg, n)
    BY <1>3, <1>4, <1>5, <1>6, ResemblesFacts, SameCommands DEF BridgeReady
  <1> QED BY <1>1, <1>7, QuietlyFacts DEF Stays, BridgeReady

\* A queue whose members change but for what SameCommand looks at.
LEMMA QueuesResemble ==
    ASSUME BridgeReady, NEW n, DOMAIN n = BridgeFields, SessionT(n.s), Like(brg.s, n.s),
           \A x \in BridgeFields \ {"s", "cmds", "cfgs"} : n[x] = brg[x],
           Queued(n), \A c \in Frames(n.cmds) : \E d \in Frames(brg.cmds) : SameCommand(c, d)
    PROVE  Resembles(brg, n)
PROOF
  <1>1. /\ n.slot \in {"none", "me", "other"} /\ n.deliveries \subseteq brg.deliveries
        /\ n.nonces = brg.nonces /\ n.cache = brg.cache /\ n.pub = brg.pub
    BY DEF BridgeReady, BridgeT, BridgeFields, Kept
  <1> QED BY <1>1, ResemblesFacts DEF BridgeReady

LEMMA GiveUpFacts ==
    ASSUME BridgeReady
    PROVE  /\ \A i \in DOMAIN brg.cmds :
                 IsQueue(Without(brg.cmds, i)) /\ Frames(Without(brg.cmds, i)) \subseteq Frames(brg.cmds)
           /\ \A i \in DOMAIN brg.cfgs :
                 IsQueue(Without(brg.cfgs, i)) /\ Frames(Without(brg.cfgs, i)) \subseteq Frames(brg.cfgs)
  BY QueueWithout DEF BridgeReady, BridgeT, Queued

LEMMA CommandRetryStays ==
    ASSUME BridgeReady, NEW i \in DOMAIN brg.cmds, NEW ok, CommandRetry(i, ok)
    PROVE  Stays
PROOF
  <1>1. /\ DOMAIN brg = BridgeFields /\ SessionT(brg.s) /\ Like(brg.s, brg.s) /\ Queued(brg)
        /\ IsQueue(brg.cmds)
    BY DEF BridgeReady, BridgeT, Like, Queued
  <1>2. CASE Reachable
    <2>1. PICK c : c = brg.cmds[i] /\ c \in Frames(brg.cmds) /\ CommandT(c)
      BY <1>1, QueueWith, ZenonT(60) DEF Queued
    <2>2. PICK d : d = [c EXCEPT !.retry = @ + 1]
      OBVIOUS
    <2>3. CommandT(d) /\ SameCommand(d, c)
      <3>1. c.retry \in Nat /\ c.retry < MaxCommandRetries /\ MaxCommandRetries \in Nat
        BY <2>1, BridgeAssumption DEF CommandRetry, CommandT
      <3>2. /\ DOMAIN d = {"id", "entity", "base", "retry"} /\ d.retry = c.retry + 1
            /\ d.id = c.id /\ d.entity = c.entity /\ d.base = c.base
        BY <2>1, <2>2 DEF CommandT
      <3> QED BY <2>1, <3>1, <3>2 DEF CommandT, SameCommand
    <2>4. PICK n : n = [brg EXCEPT !.cmds[i].retry = @ + 1]
      OBVIOUS
    <2>5. /\ DOMAIN n = BridgeFields /\ n.cmds = [brg.cmds EXCEPT ![i] = d]
          /\ \A x \in BridgeFields \ {"cmds"} : n[x] = brg[x]
      BY <1>1, <2>1, <2>2, <2>4 DEF BridgeFields
    <2>6. n.s = brg.s /\ n.cfgs = brg.cfgs
      BY <2>5 DEF BridgeFields
    <2>7. IsQueue(n.cmds) /\ Frames(n.cmds) \subseteq Frames(brg.cmds) \cup {d}
      BY <1>1, <2>5, QueueWith
    <2>8. Queued(n)
      BY <1>1, <2>3, <2>6, <2>7 DEF Queued
    <2>9. \A x \in Frames(n.cmds) : \E y \in Frames(brg.cmds) : SameCommand(x, y)
      BY <2>1, <2>3, <2>7 DEF SameCommand
    <2>10. Resembles(brg, n)
      BY <1>1, <2>5, <2>6, <2>8, <2>9, QueuesResemble
    <2>11. d \in Frames(n.cmds)
      <3>1. n.cmds[i] = d /\ i \in 1 .. Len(n.cmds)
        BY <1>1, <2>5 DEF IsQueue
      <3> QED BY <3>1 DEF Frames
    <2>12. Says(n, Command(brg.s, d))
      BY <1>1, <2>10, <2>11, SpeaksStill
    <2>13. Command(brg.s, d) = Command(brg.s, c)
      BY <2>3 DEF Command, SameCommand
    <2>14. Respond(n, Command(brg.s, c), ok)
      BY <1>2, <2>1, <2>4 DEF CommandRetry
    <2> QED BY <2>10, <2>12, <2>13, <2>14, RespondFacts DEF Stays, BridgeReady
  <1>3. CASE ~Reachable
    <2>1. PICK n : n = [brg EXCEPT !.cmds = Without(@, i)]
      OBVIOUS
    <2>2. /\ DOMAIN n = BridgeFields /\ n.cmds = Without(brg.cmds, i)
          /\ \A x \in BridgeFields \ {"cmds"} : n[x] = brg[x]
      BY <1>1, <2>1 DEF BridgeFields
    <2>3. n.s = brg.s /\ n.cfgs = brg.cfgs
      BY <2>2 DEF BridgeFields
    <2>4. IsQueue(n.cmds) /\ Frames(n.cmds) \subseteq Frames(brg.cmds)
      BY <2>2, GiveUpFacts
    <2>5. Queued(n) /\ \A x \in Frames(n.cmds) : \E y \in Frames(brg.cmds) : SameCommand(x, y)
      BY <1>1, <2>3, <2>4 DEF Queued, SameCommand
    <2>6. Resembles(brg, n)
      BY <1>1, <2>2, <2>3, <2>5, QueuesResemble
    <2>7. Quietly(n)
      BY <1>3, <2>1 DEF CommandRetry
    <2> QED BY <2>6, <2>7, QuietlyFacts DEF Stays, BridgeReady
  <1> QED BY <1>2, <1>3

LEMMA CommandGiveUpStays ==
    ASSUME BridgeReady, NEW i \in DOMAIN brg.cmds, CommandGiveUp(i)
    PROVE  Stays
PROOF
  <1>1. DOMAIN brg = BridgeFields /\ SessionT(brg.s) /\ Queued(brg)
    BY DEF BridgeReady, BridgeT
  <1>2. PICK s : s = [brg.s EXCEPT !.online = FALSE]
    OBVIOUS
  <1>3. DOMAIN s = SessionFields /\ \A x \in SessionFields \ {"online"} : s[x] = brg.s[x]
    BY <1>1, <1>2 DEF SessionT, SessionFields
  <1>4. SessionT(s) /\ Like(brg.s, s)
    BY <1>1, <1>3, LooseFacts DEF SessionFields, Loose, SessionT, Besides
  <1>5. PICK n : n = [brg EXCEPT !.cmds = Without(@, i), !.s.online = FALSE]
    OBVIOUS
  <1>6. /\ DOMAIN n = BridgeFields /\ n.cmds = Without(brg.cmds, i) /\ n.s = s
        /\ \A x \in BridgeFields \ {"cmds", "s"} : n[x] = brg[x]
    BY <1>1, <1>2, <1>5 DEF BridgeFields
  <1>7. n.cfgs = brg.cfgs
    BY <1>6 DEF BridgeFields
  <1>8. IsQueue(n.cmds) /\ Frames(n.cmds) \subseteq Frames(brg.cmds)
    BY <1>6, GiveUpFacts
  <1>9. Queued(n) /\ \A x \in Frames(n.cmds) : \E y \in Frames(brg.cmds) : SameCommand(x, y)
    BY <1>1, <1>7, <1>8 DEF Queued, SameCommand
  <1>10. Resembles(brg, n)
    BY <1>4, <1>6, <1>9, QueuesResemble
  <1>11. Quietly(n)
    BY <1>5 DEF CommandGiveUp
  <1> QED BY <1>10, <1>11, QuietlyFacts DEF Stays, BridgeReady

LEMMA ConfigRetryStays ==
    ASSUME BridgeReady, NEW i \in DOMAIN brg.cfgs, NEW ok, ConfigRetry(i, ok)
    PROVE  Stays
PROOF
  <1>1. /\ DOMAIN brg = BridgeFields /\ SessionT(brg.s) /\ Like(brg.s, brg.s) /\ Queued(brg)
        /\ IsQueue(brg.cfgs)
    BY DEF BridgeReady, BridgeT, Like, Queued
  <1>2. PICK c : c = brg.cfgs[i] /\ c \in Frames(brg.cfgs) /\ ConfigT(c)
    BY <1>1, QueueWith, ZenonT(60) DEF Queued
  <1>3. ASSUME NEW n, DOMAIN n = BridgeFields, IsQueue(n.cfgs),
               \A x \in Frames(n.cfgs) : ConfigT(x),
               \A x \in BridgeFields \ {"cfgs"} : n[x] = brg[x]
        PROVE  Resembles(brg, n)
    <2>1. n.s = brg.s /\ n.cmds = brg.cmds
      BY <1>3 DEF BridgeFields
    <2>2. Queued(n)
      BY <1>1, <1>3, <2>1 DEF Queued
    <2> QED BY <1>1, <1>3, <2>1, <2>2, QueuesResemble, SameCommands
  <1>4. CASE c.retry < MaxConfigRetries /\ Reachable
    <2>1. PICK d : d = [c EXCEPT !.retry = @ + 1]
      OBVIOUS
    <2>2. ConfigT(d)
      <3>1. c.retry \in Nat /\ MaxConfigRetries \in Nat
        BY <1>2, BridgeAssumption DEF ConfigT
      <3>2. DOMAIN d = {"command", "base", "retry"} /\ d.retry = c.retry + 1 /\ d.base = c.base
        BY <1>2, <2>1 DEF ConfigT
      <3> QED BY <1>2, <1>4, <3>1, <3>2 DEF ConfigT
    <2>3. PICK n : n = [brg EXCEPT !.cfgs[i].retry = @ + 1]
      OBVIOUS
    <2>4. /\ DOMAIN n = BridgeFields /\ n.cfgs = [brg.cfgs EXCEPT ![i] = d]
          /\ \A x \in BridgeFields \ {"cfgs"} : n[x] = brg[x]
      BY <1>1, <1>2, <2>1, <2>3 DEF BridgeFields
    <2>5. IsQueue(n.cfgs) /\ Frames(n.cfgs) \subseteq Frames(brg.cfgs) \cup {d}
      BY <1>1, <2>4, QueueWith
    <2>6. Resembles(brg, n)
      BY <1>1, <1>3, <2>2, <2>4, <2>5 DEF Queued
    <2>7. Says(n, Config(brg.s, c))
      BY <1>1, <1>2, <2>6, SpeaksStill
    <2>8. Respond(n, Config(brg.s, c), ok)
      BY <1>2, <1>4, <2>3 DEF ConfigRetry
    <2> QED BY <2>6, <2>7, <2>8, RespondFacts DEF Stays, BridgeReady
  <1>5. CASE ~(c.retry < MaxConfigRetries /\ Reachable)
    <2>1. PICK n : n = [brg EXCEPT !.cfgs = Without(@, i)]
      OBVIOUS
    <2>2. /\ DOMAIN n = BridgeFields /\ n.cfgs = Without(brg.cfgs, i)
          /\ \A x \in BridgeFields \ {"cfgs"} : n[x] = brg[x]
      BY <1>1, <2>1 DEF BridgeFields
    <2>3. IsQueue(n.cfgs) /\ Frames(n.cfgs) \subseteq Frames(brg.cfgs)
      BY <2>2, GiveUpFacts
    <2>4. Resembles(brg, n)
      BY <1>1, <1>3, <2>2, <2>3 DEF Queued
    <2>5. Quietly(n)
      BY <1>2, <1>5, <2>1 DEF ConfigRetry
    <2> QED BY <2>4, <2>5, QuietlyFacts DEF Stays, BridgeReady
  <1> QED BY <1>4, <1>5

LEMMA SendConfigStays ==
    ASSUME BridgeReady, NEW command, NEW ok, SendConfig(command, ok)
    PROVE  Stays
PROOF
  <1>1. /\ DOMAIN brg = BridgeFields /\ SessionT(brg.s) /\ Like(brg.s, brg.s) /\ Queued(brg)
        /\ IsQueue(brg.cfgs)
    BY DEF BridgeReady, BridgeT, Like, Queued
  <1>2. PICK c : c = [command |-> command, base |-> brg.s.tx, retry |-> 0]
    OBVIOUS
  <1>3. ConfigT(c)
    BY <1>1, <1>2, BridgeAssumption DEF ConfigT, SessionT, Besides, Positive
  <1>4. PICK u : u = Bump(brg.s) /\ SessionT(u) /\ Like(brg.s, u)
    BY <1>1, BumpFacts
  <1>5. PICK n : n = [brg EXCEPT !.s = Bump(@), !.cfgs = IF ok THEN Append(@, c) ELSE @]
    OBVIOUS
  <1>6. /\ DOMAIN n = BridgeFields /\ n.s = u
        /\ n.cfgs = (IF ok THEN Append(brg.cfgs, c) ELSE brg.cfgs)
        /\ \A x \in BridgeFields \ {"s", "cfgs"} : n[x] = brg[x]
    BY <1>1, <1>4, <1>5 DEF BridgeFields
  <1>7. IsQueue(n.cfgs) /\ Frames(n.cfgs) \subseteq Frames(brg.cfgs) \cup {c}
    BY <1>1, <1>6, AppendToQueue
  <1>8. n.cmds = brg.cmds
    BY <1>6 DEF BridgeFields
  <1>9. Queued(n)
    BY <1>1, <1>3, <1>7, <1>8 DEF Queued
  <1>10. Resembles(brg, n)
    BY <1>4, <1>6, <1>8, <1>9, QueuesResemble, SameCommands
  <1>11. Says(n, Config(brg.s, c))
    BY <1>1, <1>3, <1>10, SpeaksStill
  <1>12. Respond(n, Config(brg.s, c), ok)
    BY <1>2, <1>5 DEF SendConfig
  <1> QED BY <1>10, <1>11, <1>12, RespondFacts DEF Stays, BridgeReady

\* A JOIN that is not a repetition: the session is a new one, of a new nonce.
Renewed(f, s) ==
    /\ SessionT(s)
    /\ s.nonce = brg.nonces + 1 /\ s.key = <<brg.nonces + 1, f.nonce>> /\ s.hash = f.hash
    /\ s.lastState = 0 /\ s.want = 0
    /\ s.schema => \A e \in Entities : s.got[e] = s.hash
Renews(f, n) ==
    /\ BridgeT(n) /\ Renewed(f, n.s)
    /\ n.nonces = brg.nonces + 1 /\ n.cache = brg.cache /\ n.pub = brg.pub
    /\ n.deliveries \subseteq brg.deliveries
    /\ \A c \in Frames(n.cmds) : \E d \in Frames(brg.cmds) : SameCommand(c, d)

LEMMA RenewedLike ==
    ASSUME NEW f, NEW s, Renewed(f, s), NEW t, SessionT(t), Like(s, t)
    PROVE  Renewed(f, t)
  BY DEF Renewed, Like

LEMMA RenewsLike ==
    ASSUME NEW f, NEW b, Renews(f, b), NEW n, Resembles(b, n)
    PROVE  Renews(f, n)
PROOF
  <1>1. Renewed(f, n.s)
    BY RenewedLike DEF Renews, Resembles, BridgeT
  <1>2. \A c \in Frames(n.cmds) : \E d \in Frames(brg.cmds) : SameCommand(c, d)
    BY DEF Renews, Resembles, SameCommand
  <1> QED BY <1>1, <1>2 DEF Renews, Resembles

LEMMA RenewsFacts ==
    ASSUME BridgeReady, NEW f, NEW n, DOMAIN n = BridgeFields, Renewed(f, n.s),
           n.nonces = brg.nonces + 1, n.slot \in {"none", "me", "other"},
           \A x \in BridgeFields \ {"s", "nonces", "slot"} : n[x] = brg[x]
    PROVE  Renews(f, n)
PROOF
  <1>1. /\ n.cache = brg.cache /\ n.cmds = brg.cmds /\ n.cfgs = brg.cfgs
        /\ n.deliveries = brg.deliveries /\ n.pub = brg.pub
    BY DEF BridgeFields
  <1>2. SessionT(n.s) /\ Queued(n) /\ Kept(n)
    BY <1>1 DEF Renewed, BridgeReady, BridgeT, Queued, Kept
  <1> QED BY <1>1, <1>2, SameCommands DEF Renews, BridgeT

LEMMA FreshFacts ==
    ASSUME BridgeReady, NEW f, UpT(f), f.type = "JOIN"
    PROVE  LET u == FreshSession(brg, f)
           IN  /\ DOMAIN u = SessionFields /\ SessionT(u) /\ u.want = 0 /\ u.lastState = 0
               /\ u.nonce = brg.nonces + 1 /\ u.key = <<brg.nonces + 1, f.nonce>>
               /\ u.hash = f.hash
PROOF
  <1>1. PICK u : u = FreshSession(brg, f)
    OBVIOUS
  <1>2. brg.nonces \in Nat /\ f.nonce \in Nat /\ f.hash \in SomeHash /\ SessionT(brg.s)
    BY DEF BridgeReady, BridgeT, Kept, UpT, Positive, SomeHash
  <1>3. /\ DOMAIN u = SessionFields /\ u.want = 0 /\ u.lastState = 0
        /\ u.nonce = brg.nonces + 1 /\ u.key = <<brg.nonces + 1, f.nonce>>
        /\ u.hash = f.hash /\ u.jcRetry = 0 /\ u.reqRetry = 0 /\ u.state = "JOINED"
        /\ u.got = brg.s.got /\ u.tx = brg.s.tx
    BY <1>1, <1>2 DEF FreshSession, SessionT, SessionFields
  <1>4. 0 \in 0 .. NumEntities
    BY Bounds
  <1>5. About(u)
    BY <1>2, <1>3, <1>4 DEF About, SessionT, Key
  <1>6. Besides(u)
    BY <1>2, <1>3, Bounds DEF Besides, SessionT
  <1> QED BY <1>1, <1>3, <1>5, <1>6 DEF SessionT

LEMMA CachedRenews ==
    ASSUME BridgeReady, NEW f, UpT(f), f.type = "JOIN", CacheHit(brg, f), NEW ok,
           JoinCached([brg EXCEPT !.nonces = @ + 1], FreshSession(brg, f), f, ok)
    PROVE  Renews(f, brg') /\ Spoke(brg')
PROOF
  <1>1. PICK u : /\ u = FreshSession(brg, f)
                 /\ DOMAIN u = SessionFields /\ SessionT(u) /\ u.want = 0 /\ u.lastState = 0
                 /\ u.nonce = brg.nonces + 1 /\ u.key = <<brg.nonces + 1, f.nonce>>
                 /\ u.hash = f.hash
    BY FreshFacts
  <1>2. PICK b : b = [brg EXCEPT !.nonces = @ + 1]
    OBVIOUS
  <1>3. /\ DOMAIN b = BridgeFields /\ b.nonces = brg.nonces + 1
        /\ \A x \in BridgeFields \ {"nonces"} : b[x] = brg[x]
    BY <1>2 DEF BridgeReady, BridgeT, BridgeFields
  <1>4. /\ b.cache = brg.cache /\ b.cache.got \in [Entities -> SomeHash]
        /\ \A e \in Entities : b.cache.got[e] = f.hash
    <2>1. b.cache = brg.cache
      BY <1>3 DEF BridgeFields
    <2>2. f.hash \in Hashes /\ f.hash # NoHash
      BY SessionAssumption DEF UpT, NoHash
    <2>3. brg.cache.hash = f.hash
      BY DEF CacheHit
    <2> QED BY <2>1, <2>2, <2>3 DEF BridgeReady, BridgeT, Kept, SchemaFine
  <1>5. PICK h : h = [u EXCEPT !.named = TRUE, !.got = b.cache.got, !.schema = TRUE]
    OBVIOUS
  <1>6. /\ DOMAIN h = SessionFields /\ h.got = b.cache.got
        /\ \A x \in SessionFields \ {"named", "got", "schema"} : h[x] = u[x]
    BY <1>1, <1>5 DEF SessionFields
  <1>7. SessionT(h)
    BY <1>1, <1>4, <1>6 DEF SessionFields, SessionT, About, Besides
  <1>8. Renewed(f, h)
    BY <1>1, <1>4, <1>6, <1>7 DEF Renewed, SessionFields
  <1>9. PICK y : y = [h EXCEPT !.sync = TRUE, !.more = TRUE]
    OBVIOUS
  <1>10. /\ DOMAIN y = SessionFields
         /\ \A x \in SessionFields \ {"sync", "more"} : y[x] = h[x]
    BY <1>6, <1>9 DEF SessionFields
  <1>11. SessionT(y) /\ Like(h, y)
    BY <1>7, <1>10, LooseFacts DEF SessionFields, Loose, SessionT, Besides
  <1>12. Renewed(f, y)
    BY <1>8, <1>11, RenewedLike
  <1>13. CASE f.dirty = 0
    <2>1. PICK c : c = [b EXCEPT !.s = h]
      OBVIOUS
    <2>2. /\ DOMAIN c = BridgeFields /\ c.s = h
          /\ \A x \in BridgeFields \ {"s"} : c[x] = b[x]
      BY <1>3, <2>1 DEF BridgeFields
    <2>3. /\ c.nonces = brg.nonces + 1 /\ c.slot \in {"none", "me", "other"}
          /\ \A x \in BridgeFields \ {"s", "nonces", "slot"} : c[x] = brg[x]
      BY <1>3, <2>2 DEF BridgeFields, BridgeReady, BridgeT, Kept
    <2>4. Renews(f, c)
      BY <1>8, <2>2, <2>3, RenewsFacts
    <2>5. PICK n : n = Completed(c, TRUE) /\ Resembles(c, n)
      BY <2>4, CompletedFacts DEF Renews
    <2>6. Renews(f, n)
      BY <2>4, <2>5, RenewsLike
    <2>7. Says(n, JoinAck(h, TRUE, "COMPLETE"))
      <3>1. h.key = n.s.key /\ h.nonce = n.s.nonce /\ BridgeT(n)
        BY <2>2, <2>5 DEF Resembles, Like
      <3> QED BY <1>7, <3>1, Speaks
    <2>8. Respond(n, JoinAck(h, TRUE, "COMPLETE"), ok)
      BY <1>1, <1>2, <1>5, <1>13, <2>1, <2>5 DEF JoinCached
    <2> QED BY <2>6, <2>7, <2>8, RespondFacts DEF BridgeReady
  <1>14. CASE f.dirty # 0
    <2>1. PICK t : /\ t = IF ok THEN Accepted(y) ELSE Dropped(Accepted(y))
                   /\ SessionT(t) /\ Like(y, t)
      BY <1>11, AcceptedSession, DroppedSession, LikeChain
    <2>2. PICK n : n = [b EXCEPT !.slot = "none", !.s = t]
      OBVIOUS
    <2>3. /\ DOMAIN n = BridgeFields /\ n.s = t /\ n.slot = "none"
          /\ \A x \in BridgeFields \ {"s", "slot"} : n[x] = b[x]
      BY <1>3, <2>2 DEF BridgeFields
    <2>4. /\ n.nonces = brg.nonces + 1
          /\ \A x \in BridgeFields \ {"s", "nonces", "slot"} : n[x] = brg[x]
      BY <1>3, <2>3 DEF BridgeFields
    <2>5. Renews(f, n)
      BY <1>12, <2>1, <2>3, <2>4, RenewedLike, RenewsFacts
    <2>6. Says(n, JoinAck(y, TRUE, "SEND_STATE"))
      <3>1. y.key = n.s.key /\ y.nonce = n.s.nonce /\ BridgeT(n)
        BY <2>1, <2>3, <2>5 DEF Renews, Like
      <3> QED BY <1>11, <3>1, Speaks
    <2>7. Respond(n, JoinAck(y, TRUE, "SEND_STATE"), ok)
      BY <1>1, <1>2, <1>5, <1>9, <1>14, <2>1, <2>2 DEF JoinCached
    <2> QED BY <2>5, <2>6, <2>7, RespondFacts DEF BridgeReady
  <1> QED BY <1>13, <1>14

\* Two frames, of which the radio takes the first.
LEMMA TwoSpoke ==
    ASSUME AirOK, NEW n, NEW f, NEW g, NEW ok, NEW ok2, Says(n, f), Says(n, g),
           down' = Put(Put(down, f, ok), g, ok2)
    PROVE  Spoke(n)
PROOF
  <1>1. PICK q : /\ q = Put(down, f, ok) /\ Fits(q) /\ Frames(q) \subseteq Frames(down) \cup {f}
    BY PutFacts DEF AirOK
  <1>2. Fits(down') /\ Frames(down') \subseteq Frames(q) \cup {g}
    BY <1>1, PutFacts
  <1> QED BY <1>1, <1>2 DEF Spoke

LEMMA UncachedRenews ==
    ASSUME BridgeReady, NEW f, UpT(f), f.type = "JOIN", NEW ok, NEW ok2,
           JoinUncached([brg EXCEPT !.nonces = @ + 1], FreshSession(brg, f), ok, ok2)
    PROVE  Renews(f, brg') /\ Spoke(brg')
PROOF
  <1>1. PICK u : /\ u = FreshSession(brg, f)
                 /\ DOMAIN u = SessionFields /\ SessionT(u) /\ u.want = 0 /\ u.lastState = 0
                 /\ u.nonce = brg.nonces + 1 /\ u.key = <<brg.nonces + 1, f.nonce>>
                 /\ u.hash = f.hash
    BY FreshFacts
  <1>2. PICK b : b = [brg EXCEPT !.nonces = @ + 1]
    OBVIOUS
  <1>3. /\ DOMAIN b = BridgeFields /\ b.nonces = brg.nonces + 1
        /\ \A x \in BridgeFields \ {"nonces"} : b[x] = brg[x]
    BY <1>2 DEF BridgeReady, BridgeT, BridgeFields
  <1>4. PICK m : m = [u EXCEPT !.got = NoSchema, !.schema = FALSE]
    OBVIOUS
  <1>5. /\ DOMAIN m = SessionFields /\ m.got = NoSchema /\ m.schema = FALSE
        /\ \A x \in SessionFields \ {"got", "schema"} : m[x] = u[x]
    BY <1>1, <1>4 DEF SessionFields
  <1>6. NoSchema \in [Entities -> SomeHash]
    BY DEF NoSchema, SomeHash
  <1>7. SessionT(m)
    BY <1>1, <1>5, <1>6 DEF SessionFields, SessionT, About, Besides
  <1>8. Renewed(f, m)
    BY <1>1, <1>5, <1>7 DEF Renewed, SessionFields
  <1>9. PICK a : a = Accepted(m) /\ SessionT(a) /\ Like(m, a)
    BY <1>7, AcceptedSession
  <1>10. PICK v : v = Bump(a) /\ SessionT(v) /\ Like(m, v)
    BY <1>9, BumpFacts, LikeChain
  <1>11. PICK w : w = [v EXCEPT !.req = TRUE]
    OBVIOUS
  <1>12. DOMAIN w = SessionFields /\ \A x \in SessionFields \ {"req"} : w[x] = v[x]
    BY <1>10, <1>11 DEF SessionT, SessionFields
  <1>13. SessionT(w) /\ Like(m, w)
    <2>1. SessionT(w) /\ Like(v, w)
      BY <1>10, <1>12, LooseFacts DEF SessionFields, Loose, SessionT, Besides
    <2> QED BY <1>10, <2>1, LikeChain
  <1>14. /\ SessionT(Dropped(a)) /\ Like(m, Dropped(a))
         /\ SessionT(Dropped(v)) /\ Like(m, Dropped(v))
    BY <1>9, <1>10, DroppedSession, LikeChain
  <1>15. ASSUME NEW t, SessionT(t), Like(m, t), NEW n, n = [b EXCEPT !.slot = "none", !.s = t]
         PROVE  /\ Renews(f, n)
                /\ Says(n, JoinAck(m, TRUE, "SCHEMA_REFRESH")) /\ Says(n, SchemaRequest(a, 0))
    <2>1. /\ DOMAIN n = BridgeFields /\ n.s = t /\ n.slot = "none"
          /\ \A x \in BridgeFields \ {"s", "slot"} : n[x] = b[x]
      BY <1>3, <1>15 DEF BridgeFields
    <2>2. /\ n.nonces = brg.nonces + 1
          /\ \A x \in BridgeFields \ {"s", "nonces", "slot"} : n[x] = brg[x]
      BY <1>3, <2>1 DEF BridgeFields
    <2>3. Renews(f, n)
      BY <1>8, <1>15, <2>1, <2>2, RenewedLike, RenewsFacts
    <2>4. /\ m.key = n.s.key /\ m.nonce = n.s.nonce /\ BridgeT(n)
          /\ a.key = n.s.key /\ a.nonce = n.s.nonce
      BY <1>9, <1>15, <2>1, <2>3 DEF Renews, Like
    <2>5. 0 \in Nat /\ Upto(n.s, 0)
      BY Bounds DEF Upto
    <2> QED BY <1>7, <1>9, <2>3, <2>4, <2>5, Speaks
  <1>16. JoinUncached(b, u, ok, ok2)
    BY <1>1, <1>2
  <1>17. CASE ~ok
    <2>1. PICK n : n = [b EXCEPT !.slot = "none", !.s = Dropped(a)]
      OBVIOUS
    <2>2. Quietly(n)
      BY <1>4, <1>9, <1>16, <1>17, <2>1 DEF JoinUncached
    <2>3. Renews(f, n)
      BY <1>14, <1>15, <2>1
    <2> QED BY <2>2, <2>3, QuietlyFacts DEF BridgeReady
  <1>18. CASE ok
    <2>1. PICK t : /\ t = (IF ok2 THEN w ELSE Dropped(v)) /\ SessionT(t) /\ Like(m, t)
      BY <1>13, <1>14
    <2>2. PICK n : n = [b EXCEPT !.slot = "none", !.s = t]
      OBVIOUS
    <2>3. brg' = n
      BY <1>4, <1>9, <1>10, <1>11, <1>16, <1>18, <2>1, <2>2 DEF JoinUncached, Become
    <2>4. down' = Put(Put(down, JoinAck(m, TRUE, "SCHEMA_REFRESH"), TRUE), SchemaRequest(a, 0), ok2)
      BY <1>4, <1>9, <1>16, <1>18 DEF JoinUncached, Put
    <2>5. /\ Renews(f, n)
          /\ Says(n, JoinAck(m, TRUE, "SCHEMA_REFRESH")) /\ Says(n, SchemaRequest(a, 0))
      BY <1>15, <2>1, <2>2
    <2> QED BY <2>3, <2>4, <2>5, TwoSpoke DEF BridgeReady
  <1> QED BY <1>17, <1>18

LEMMA JoinMoves ==
    ASSUME BridgeReady, NEW f, UpT(f), f.type = "JOIN", NEW ok, NEW ok2, HandleJoin(f, ok, ok2)
    PROVE  Stays \/ (Renews(f, brg') /\ Spoke(brg'))
PROOF
  <1>1. PICK s : s = [brg.s EXCEPT !.exists = TRUE]
    OBVIOUS
  <1>2. DOMAIN s = SessionFields /\ \A x \in SessionFields \ {"exists"} : s[x] = brg.s[x]
    BY <1>1 DEF BridgeReady, BridgeT, SessionT, SessionFields
  <1>3. SessionT(s) /\ Like(brg.s, s)
    BY <1>2, LooseFacts DEF BridgeReady, BridgeT, SessionFields, Loose, SessionT, Besides
  <1>4. CASE SlotBusy(brg)
    <2>1. SessionT(Bump(s)) /\ Like(brg.s, Bump(s))
      BY <1>3, BumpFacts, LikeChain
    <2>2. Says(WithSession(Bump(s)), JoinAck(s, FALSE, "NONE"))
      BY <1>3, <2>1, WithSessionFacts, SpeaksStill DEF BridgeReady
    <2>3. Respond(WithSession(Bump(s)), JoinAck(s, FALSE, "NONE"), ok)
      BY <1>1, <1>4 DEF HandleJoin
    <2> QED BY <2>1, <2>2, <2>3, SpokenStays
  <1>5. CASE ~SlotBusy(brg) /\ s.jip /\ s.key[2] = f.nonce /\ s.hash = f.hash
    <2>1. PICK a : a = Accepted(s) /\ SessionT(a) /\ Like(brg.s, a)
      BY <1>3, AcceptedSession, LikeChain
    <2>2. PICK t : t = [a EXCEPT !.lastSeen = f.tx]
      OBVIOUS
    <2>3. DOMAIN t = SessionFields /\ \A x \in SessionFields \ {"lastSeen"} : t[x] = a[x]
      BY <2>1, <2>2 DEF SessionT, SessionFields
    <2>4. SessionT(t) /\ Like(brg.s, t)
      <3>1. SessionT(t) /\ Like(a, t)
        BY <2>1, <2>3, LooseFacts DEF SessionFields, Loose, SessionT, Besides
      <3> QED BY <2>1, <3>1, LikeChain
    <2>5. RetryStage(s) \in {"SCHEMA_REFRESH", "SEND_STATE", "COMPLETE"}
      BY DEF RetryStage
    <2>6. Says(WithSession(t), JoinAck(s, TRUE, RetryStage(s)))
      BY <1>3, <2>4, <2>5, WithSessionFacts, SpeaksStill DEF BridgeReady
    <2>7. Respond(WithSession(t), JoinAck(s, TRUE, RetryStage(s)), ok)
      BY <1>1, <1>5, <2>1, <2>2 DEF HandleJoin
    <2> QED BY <2>4, <2>6, <2>7, SpokenStays
  <1>6. CASE ~SlotBusy(brg) /\ ~(s.jip /\ s.key[2] = f.nonce /\ s.hash = f.hash)
    <2>1. CASE CacheHit(brg, f)
      <3>1. JoinCached([brg EXCEPT !.nonces = @ + 1], FreshSession(brg, f), f, ok)
        BY <1>1, <1>6, <2>1 DEF HandleJoin
      <3> QED BY <2>1, <3>1, CachedRenews
    <2>2. CASE ~CacheHit(brg, f)
      <3>1. JoinUncached([brg EXCEPT !.nonces = @ + 1], FreshSession(brg, f), ok, ok2)
        BY <1>1, <1>6, <2>2 DEF HandleJoin
      <3> QED BY <3>1, UncachedRenews
    <2> QED BY <2>1, <2>2
  <1> QED BY <1>4, <1>5, <1>6

\* The session goes on, with as much of the schema as it had.
Proceeds(n) ==
    /\ BridgeT(n) /\ SchemaFine(n) /\ n.nonces = brg.nonces
    /\ n.s.key = brg.s.key /\ n.s.nonce = brg.s.nonce /\ n.s.hash = brg.s.hash
    /\ \A e \in Entities : brg.s.got[e] = brg.s.hash => n.s.got[e] = n.s.hash
StatesKept(n) == n.pub = brg.pub /\ n.s.lastState = brg.s.lastState
OldCommands(n) == \A c \in Frames(n.cmds) : \E d \in Frames(brg.cmds) : SameCommand(c, d)

LEMMA StaysProceeds ==
    ASSUME BridgeReady, NEW n, Resembles(brg, n)
    PROVE  /\ Proceeds(n) /\ StatesKept(n) /\ OldCommands(n) /\ n.deliveries \subseteq brg.deliveries
  BY ResemblesFine DEF Resembles, Like, Proceeds, StatesKept, OldCommands, BridgeReady

\* A part of the schema is of the firmware, and no part before it is missing.
PushFine(f) == f.key = brg.s.key => f.of = brg.s.hash /\ Upto(brg.s, f.desc)

LEMMA SchemaDoneMoves ==
    ASSUME BridgeReady, NEW s, SessionT(s), Like(brg.s, s),
           NEW f, UpT(f), f.type = "SCHEMA_PUSH", f.of = brg.s.hash, Upto(brg.s, f.desc),
           f.desc = LastEntity, NEW ok, SchemaDone(s, f, ok)
    PROVE  /\ Proceeds(brg') /\ StatesKept(brg') /\ OldCommands(brg')
           /\ brg'.deliveries = brg.deliveries /\ Spoke(brg')
PROOF
  <1>1. PICK g : g = [s.got EXCEPT ![f.desc] = f.of]
    OBVIOUS
  <1>2. /\ f.desc \in Entities /\ NumEntities \in Nat /\ f.of = s.hash /\ s.hash \in SomeHash
        /\ s.got = brg.s.got /\ s.got \in [Entities -> SomeHash]
    BY Bounds DEF LastEntity, Entities, Like, SessionT, About
  <1>3. g \in [Entities -> SomeHash] /\ \A e \in Entities : g[e] = s.hash
    <2>1. \A e \in Entities : e < f.desc \/ e = f.desc
      BY <1>2 DEF LastEntity, Entities
    <2>2. \A e \in Entities : e < f.desc => s.got[e] = s.hash
      BY <1>2 DEF Upto, Like
    <2> QED BY <1>1, <1>2, <2>1, <2>2
  <1>4. PICK d : d = [s EXCEPT !.got[f.desc] = f.of, !.schema = TRUE, !.req = FALSE, !.want = 0,
                       !.reqRetry = 0, !.discOk = TRUE, !.sync = TRUE, !.more = TRUE]
    OBVIOUS
  <1>5. /\ DOMAIN d = SessionFields /\ d.got = g /\ d.want = 0 /\ d.reqRetry = 0
        /\ \A x \in SessionFields \ {"got", "schema", "req", "want", "reqRetry", "discOk",
                                     "sync", "more"} : d[x] = s[x]
    BY <1>1, <1>4 DEF SessionT, SessionFields
  <1>6. SessionT(d)
    <2>1. 0 \in 0 .. NumEntities /\ 0 \in 0 .. MaxRetries
      BY Bounds
    <2> QED BY <1>3, <1>5, <2>1 DEF SessionT, SessionFields, About, Besides
  <1>7. PICK a : a = Accepted(d) /\ SessionT(a) /\ Like(d, a)
    BY <1>6, AcceptedSession
  <1>8. PICK n : n = ClaimSlot([brg EXCEPT !.s = a, !.cache = [hash |-> s.hash, got |-> d.got]])
    OBVIOUS
  <1>9. /\ DOMAIN n = BridgeFields /\ n.s = a /\ n.slot \in {"none", "me", "other"}
        /\ n.cache = [hash |-> s.hash, got |-> g]
        /\ \A x \in BridgeFields \ {"s", "slot", "cache"} : n[x] = brg[x]
    BY <1>5, <1>8 DEF ClaimSlot, BridgeFields, BridgeReady, BridgeT, Kept
  <1>10. /\ n.nonces = brg.nonces /\ n.pub = brg.pub /\ n.cmds = brg.cmds
         /\ n.cfgs = brg.cfgs /\ n.deliveries = brg.deliveries
    BY <1>9 DEF BridgeFields
  <1>11. BridgeT(n)
    <2>1. Queued(n)
      BY <1>10 DEF Queued, BridgeReady, BridgeT
    <2>2. Kept(n)
      BY <1>2, <1>3, <1>9, <1>10 DEF Kept, BridgeReady, BridgeT
    <2> QED BY <1>7, <1>9, <2>1, <2>2 DEF BridgeT
  <1>12. /\ n.s.key = brg.s.key /\ n.s.nonce = brg.s.nonce /\ n.s.hash = brg.s.hash
         /\ n.s.lastState = brg.s.lastState /\ n.s.got = g /\ n.s.want = 0
    BY <1>5, <1>7, <1>9 DEF Like, SessionFields
  <1>13. SchemaFine(n)
    <2>1. n.s.hash = s.hash
      BY <1>12 DEF Like
    <2> QED BY <1>3, <1>9, <1>12, <2>1 DEF SchemaFine, Upto
  <1>14. Proceeds(n) /\ StatesKept(n) /\ OldCommands(n)
    <2>1. n.s.hash = s.hash
      BY <1>12 DEF Like
    <2> QED BY <1>3, <1>10, <1>11, <1>12, <1>13, <2>1, SameCommands
            DEF Proceeds, StatesKept, OldCommands
  <1>15. Says(n, JoinAck(d, TRUE, "SEND_STATE"))
    <2>1. d.key = n.s.key /\ d.nonce = n.s.nonce
      BY <1>7, <1>9 DEF Like
    <2> QED BY <1>6, <1>11, <2>1, Speaks
  <1>16. Respond(n, JoinAck(d, TRUE, "SEND_STATE"), ok)
    BY <1>4, <1>7, <1>8 DEF SchemaDone
  <1> QED BY <1>10, <1>14, <1>15, <1>16, RespondFacts DEF BridgeReady

LEMMA SchemaNextMoves ==
    ASSUME BridgeReady, NEW s, SessionT(s), Like(brg.s, s),
           NEW f, UpT(f), f.type = "SCHEMA_PUSH", f.of = brg.s.hash, Upto(brg.s, f.desc),
           f.desc # LastEntity, NEW ok, SchemaNext(s, f, ok)
    PROVE  /\ Proceeds(brg') /\ StatesKept(brg') /\ OldCommands(brg')
           /\ brg'.deliveries = brg.deliveries /\ Spoke(brg')
PROOF
  <1>1. PICK g : g = IF f.desc = 0 THEN s.got ELSE [s.got EXCEPT ![f.desc] = f.of]
    OBVIOUS
  <1>2. /\ f.desc \in 0 .. NumEntities /\ f.desc < NumEntities /\ NumEntities \in Nat
        /\ f.of = s.hash /\ s.hash \in SomeHash
        /\ s.got = brg.s.got /\ s.got \in [Entities -> SomeHash]
    BY Bounds DEF LastEntity, Like, SessionT, About, UpT
  <1>3. /\ g \in [Entities -> SomeHash]
        /\ \A e \in Entities : s.got[e] = s.hash => g[e] = s.hash
        /\ \A e \in Entities : e < f.desc + 1 => g[e] = s.hash
    <2>1. \A e \in Entities : e \in Nat /\ e > 0
      BY <1>2 DEF Entities
    <2>2. \A e \in Entities : e < f.desc => s.got[e] = s.hash
      BY <1>2 DEF Upto, Like
    <2>3. CASE f.desc = 0
      BY <1>1, <1>2, <2>1, <2>3
    <2>4. CASE f.desc # 0
      <3>1. f.desc \in Entities
        BY <1>2, <2>4 DEF Entities
      <3>2. \A e \in Entities : e < f.desc + 1 => e = f.desc \/ e < f.desc
        BY <1>2, <2>1
      <3>3. g \in [Entities -> SomeHash] /\ g[f.desc] = s.hash
        BY <1>1, <1>2, <2>4, <3>1
      <3>4. \A e \in Entities \ {f.desc} : g[e] = s.got[e]
        BY <1>1, <1>2, <2>4, <3>1
      <3> QED BY <2>2, <3>2, <3>3, <3>4
    <2> QED BY <2>3, <2>4
  <1>4. PICK w : w = Max({1, f.desc}) /\ w \in 0 .. NumEntities /\ w <= f.desc + 1
    <2>1. f.desc \in Nat /\ 1 \in Nat
      BY <1>2
    <2>2. Max({1, f.desc}) = IF 1 >= f.desc THEN 1 ELSE f.desc
      BY <2>1, MaxOfTwo
    <2> QED BY <1>2, <2>1, <2>2
  <1>5. PICK m : m = [s EXCEPT !.got = IF f.desc = 0 THEN @ ELSE [@ EXCEPT ![f.desc] = f.of],
                               !.named = @ \/ f.desc = 0,
                               !.reqRetry = IF f.desc = 0 THEN 0 ELSE 1]
    OBVIOUS
  <1>6. /\ DOMAIN m = SessionFields /\ m.got = g /\ m.reqRetry \in {0, 1}
        /\ \A x \in SessionFields \ {"got", "named", "reqRetry"} : m[x] = s[x]
    BY <1>1, <1>5 DEF SessionT, SessionFields
  <1>7. SessionT(m)
    <2>1. 0 \in 0 .. MaxRetries /\ 1 \in 0 .. MaxRetries
      BY Bounds
    <2> QED BY <1>3, <1>6, <2>1 DEF SessionT, SessionFields, About, Besides
  <1>8. PICK u : u = Bump(m) /\ SessionT(u) /\ Like(m, u)
    BY <1>7, BumpFacts
  <1>9. PICK t : t = [u EXCEPT !.req = ok, !.want = w]
    OBVIOUS
  <1>10. /\ DOMAIN t = SessionFields /\ t.want = w
         /\ \A x \in SessionFields \ {"req", "want"} : t[x] = u[x]
    BY <1>8, <1>9 DEF SessionT, SessionFields
  <1>11. SessionT(t)
    BY <1>4, <1>8, <1>10 DEF SessionT, SessionFields, About, Besides
  <1>12. PICK n : n = WithSession(t)
    OBVIOUS
  <1>13. /\ DOMAIN n = BridgeFields /\ n.s = t
         /\ \A x \in BridgeFields \ {"s"} : n[x] = brg[x]
    BY <1>12 DEF WithSession, BridgeFields, BridgeReady, BridgeT
  <1>14. /\ n.nonces = brg.nonces /\ n.pub = brg.pub /\ n.cmds = brg.cmds /\ n.slot = brg.slot
         /\ n.cfgs = brg.cfgs /\ n.deliveries = brg.deliveries /\ n.cache = brg.cache
    BY <1>13 DEF BridgeFields
  <1>15. BridgeT(n)
    BY <1>11, <1>13, <1>14 DEF BridgeT, BridgeReady, Queued, Kept
  <1>16. /\ n.s.key = brg.s.key /\ n.s.nonce = brg.s.nonce /\ n.s.hash = s.hash
         /\ n.s.lastState = brg.s.lastState /\ n.s.got = g /\ n.s.want = w
         /\ m.key = n.s.key /\ m.nonce = n.s.nonce
         /\ n.s.schema => brg.s.schema
    BY <1>6, <1>8, <1>10, <1>13 DEF Like, SessionFields
  <1>17. SchemaFine(n)
    <2>1. \A e \in Entities : e < w => e < f.desc + 1
      BY <1>2, <1>4 DEF Entities
    <2>2. brg.s.schema => \A e \in Entities : s.got[e] = s.hash
      BY DEF BridgeReady, SchemaFine, Like
    <2> QED BY <1>3, <1>14, <1>16, <2>1, <2>2 DEF SchemaFine, Upto, BridgeReady
  <1>18. Proceeds(n) /\ StatesKept(n) /\ OldCommands(n)
    BY <1>3, <1>14, <1>15, <1>16, <1>17, SameCommands DEF Proceeds, StatesKept, OldCommands, Like
  <1>19. Says(n, SchemaRequest(m, f.desc + 1))
    <2>1. f.desc + 1 \in Nat /\ Upto(n.s, f.desc + 1)
      BY <1>2, <1>3, <1>16 DEF Upto
    <2> QED BY <1>7, <1>15, <1>16, <2>1, Speaks
  <1>20. Respond(n, SchemaRequest(m, f.desc + 1), ok)
    BY <1>4, <1>5, <1>8, <1>9, <1>12 DEF SchemaNext
  <1> QED BY <1>14, <1>18, <1>19, <1>20, RespondFacts DEF BridgeReady

LEMMA PushMoves ==
    ASSUME BridgeReady, NEW f, UpT(f), f.type = "SCHEMA_PUSH", PushFine(f), NEW ok,
           HandleSchemaPush(f, ok)
    PROVE  /\ Proceeds(brg') /\ StatesKept(brg') /\ OldCommands(brg')
           /\ brg'.deliveries \subseteq brg.deliveries /\ Spoke(brg')
PROOF
  <1>1. CASE Authentic(f) /\ Newer(f.tx, brg.s.lastSeen)
    <2>1. PICK s : s = [brg.s EXCEPT !.lastSeen = f.tx]
      OBVIOUS
    <2>2. DOMAIN s = SessionFields /\ \A x \in SessionFields \ {"lastSeen"} : s[x] = brg.s[x]
      BY <2>1 DEF BridgeReady, BridgeT, SessionT, SessionFields
    <2>3. SessionT(s) /\ Like(brg.s, s)
      BY <2>2, LooseFacts DEF BridgeReady, BridgeT, SessionFields, Loose, SessionT, Besides
    <2>4. f.of = brg.s.hash /\ Upto(brg.s, f.desc)
      BY <1>1 DEF Authentic, PushFine
    <2>5. CASE f.desc = LastEntity
      BY <1>1, <2>1, <2>3, <2>4, <2>5, SchemaDoneMoves DEF HandleSchemaPush
    <2>6. CASE f.desc # LastEntity
      BY <1>1, <2>1, <2>3, <2>4, <2>6, SchemaNextMoves DEF HandleSchemaPush
    <2> QED BY <2>5, <2>6
  <1>2. CASE ~(Authentic(f) /\ Newer(f.tx, brg.s.lastSeen))
    BY <1>2, NothingStays, StaysProceeds DEF HandleSchemaPush, Stays
  <1> QED BY <1>1, <1>2

\* What confirming a STATE makes of bridge b: its counter is remembered, and
\* besides only what a step that goes on may change.
LEMMA ConfirmMoves ==
    ASSUME AirOK, NEW b, BridgeT(b), NEW base \in Nat, NEW ok, NEW ok2,
           Confirm(b, base, ok, ok2),
           Sinks = FALSE => b.s.exists /\ b.s.keyValid /\ Newer(base, b.s.lastState)
    PROVE  /\ \E c : /\ c = b \/ (c = [b EXCEPT !.s.lastState = base])
                     /\ Sinks = FALSE => c = [b EXCEPT !.s.lastState = base]
                     /\ BridgeT(c) /\ Resembles(c, brg')
           /\ Spoke(brg')
PROOF
  <1>1. PICK c : c = IF Newer(base, b.s.lastState) THEN [b EXCEPT !.s.lastState = base] ELSE b
    OBVIOUS
  <1>2. BridgeT(c) /\ c.s.exists = b.s.exists
    <2>1. CASE ~Newer(base, b.s.lastState)
      BY <1>1, <2>1
    <2>2. CASE Newer(base, b.s.lastState)
      <3>1. PICK t : t = [b.s EXCEPT !.lastState = base]
        OBVIOUS
      <3>2. /\ DOMAIN t = SessionFields /\ t.lastState = base
            /\ \A x \in SessionFields \ {"lastState"} : t[x] = b.s[x]
        BY <3>1 DEF BridgeT, SessionT, SessionFields
      <3>3. SessionT(t) /\ t.exists = b.s.exists
        BY <3>2 DEF BridgeT, SessionT, SessionFields, About, Besides
      <3>4. /\ DOMAIN c = BridgeFields /\ c.s = t
            /\ \A x \in BridgeFields \ {"s"} : c[x] = b[x]
        BY <1>1, <2>2, <3>1 DEF BridgeT, BridgeFields
      <3>5. /\ c.nonces = b.nonces /\ c.pub = b.pub /\ c.cmds = b.cmds /\ c.slot = b.slot
            /\ c.cfgs = b.cfgs /\ c.deliveries = b.deliveries /\ c.cache = b.cache
        BY <3>4 DEF BridgeFields
      <3> QED BY <3>3, <3>4, <3>5 DEF BridgeT, Queued, Kept
    <2> QED BY <2>1, <2>2
  <1>3. PICK over \in BOOLEAN : over = (Newer(base, b.s.lastState) /\ SyncOver(c.s))
    OBVIOUS
  <1>4. PICK e : e = [c EXCEPT !.s.sync = FALSE]
    OBVIOUS
  <1>5. Resembles(c, e)
    <2>1. PICK t : t = [c.s EXCEPT !.sync = FALSE]
      OBVIOUS
    <2>2. DOMAIN t = SessionFields /\ \A x \in SessionFields \ {"sync"} : t[x] = c.s[x]
      BY <1>2, <2>1 DEF BridgeT, SessionT, SessionFields
    <2>3. SessionT(t) /\ Like(c.s, t)
      BY <1>2, <2>2, LooseFacts DEF BridgeT, SessionFields, Loose, SessionT, Besides
    <2>4. /\ DOMAIN e = BridgeFields /\ e.s = t
          /\ \A x \in BridgeFields \ {"s"} : e[x] = c[x]
      BY <1>2, <1>4, <2>1 DEF BridgeT, BridgeFields
    <2>5. /\ e.nonces = c.nonces /\ e.pub = c.pub /\ e.cmds = c.cmds /\ e.slot = c.slot
          /\ e.cfgs = c.cfgs /\ e.deliveries = c.deliveries /\ e.cache = c.cache
      BY <2>4 DEF BridgeFields
    <2>6. Queued(e) /\ e.slot \in {"none", "me", "other"}
      BY <1>2, <2>5 DEF Queued, BridgeT, Kept
    <2> QED BY <1>2, <2>3, <2>4, <2>5, <2>6, ResemblesFacts, SameCommands
  <1>6. Resembles(c, c)
    BY <1>2 DEF Resembles, Like, SameCommand
  <1>7. PICK d : d = (IF over THEN Completed(e, TRUE) ELSE c) /\ Resembles(c, d)
    <2>1. Resembles(e, Completed(e, TRUE))
      <3>1. BridgeT(e)
        BY <1>5 DEF Resembles
      <3> QED BY <3>1, CompletedFacts
    <2>2. Resembles(c, Completed(e, TRUE))
      BY <1>5, <2>1, ResemblesChain
    <2> QED BY <1>6, <2>2
  <1>8. d.s.keyValid = b.s.keyValid
    <2>1. c.s.keyValid = b.s.keyValid
      BY <1>1 DEF BridgeT, SessionT, SessionFields, BridgeFields
    <2>2. e.s.keyValid = c.s.keyValid
      BY <1>2, <1>4 DEF BridgeT, SessionT, SessionFields, BridgeFields
    <2> QED BY <1>5, <1>7, <2>1, <2>2, CompletedFacts DEF Resembles
  <1>9. PICK q : q = IF over THEN Put(down, JoinAck(c.s, TRUE, "COMPLETE"), ok) ELSE down
    OBVIOUS
  <1>10. PICK n : n = [d EXCEPT !.s = Bump(@)]
    OBVIOUS
  <1>11. Resembles(d, n)
    <2>1. SessionT(Bump(d.s)) /\ Like(d.s, Bump(d.s))
      BY <1>7, BumpFacts DEF Resembles, BridgeT
    <2>2. /\ DOMAIN n = BridgeFields /\ n.s = Bump(d.s)
          /\ \A x \in BridgeFields \ {"s"} : n[x] = d[x]
      BY <1>7, <1>10 DEF Resembles, BridgeT, BridgeFields
    <2>3. /\ n.nonces = d.nonces /\ n.pub = d.pub /\ n.cmds = d.cmds /\ n.slot = d.slot
          /\ n.cfgs = d.cfgs /\ n.deliveries = d.deliveries /\ n.cache = d.cache
      BY <2>2 DEF BridgeFields
    <2>4. Queued(n) /\ n.slot \in {"none", "me", "other"}
      BY <1>7, <2>3 DEF Queued, BridgeT, Kept, Resembles
    <2>5. BridgeT(d)
      BY <1>7 DEF Resembles
    <2> QED BY <2>1, <2>2, <2>3, <2>4, <2>5, ResemblesFacts, SameCommands
  <1>12. Resembles(c, n)
    BY <1>7, <1>11, ResemblesChain
  <1>13. ASSUME NEW m, Resembles(c, m) PROVE Says(m, JoinAck(c.s, TRUE, "COMPLETE"))
    <2>1. BridgeT(m) /\ SessionT(c.s) /\ c.s.key = m.s.key /\ c.s.nonce = m.s.nonce
      BY <1>2, <1>13 DEF Resembles, Like, BridgeT
    <2> QED BY <2>1, Speaks
  <1>14. CASE ~b.s.exists
    <2>1. Sinks # FALSE /\ Quietly(b)
      BY <1>1, <1>14 DEF Confirm
    <2>2. Resembles(b, b)
      BY DEF Resembles, Like, SameCommand
    <2> QED BY <2>1, <2>2, QuietlyFacts
  <1>15. CASE b.s.exists /\ ~b.s.keyValid
    <2>1. Sinks # FALSE
      BY <1>15
    <2>2. brg' = d /\ down' = q
      BY <1>1, <1>3, <1>4, <1>7, <1>8, <1>9, <1>15 DEF Confirm, Become
    <2>3. Says(d, JoinAck(c.s, TRUE, "COMPLETE"))
      BY <1>7, <1>13
    <2>4. Spoke(d)
      <3>1. Fits(q) /\ Frames(q) \subseteq Frames(down) \cup {JoinAck(c.s, TRUE, "COMPLETE")}
        BY <1>9, PutFacts, ZenonT(60) DEF AirOK
      <3> QED BY <2>2, <2>3, <3>1 DEF Spoke
    <2> QED BY <1>1, <1>2, <1>7, <2>1, <2>2, <2>4
  <1>16. CASE b.s.exists /\ b.s.keyValid
    <2>1. brg' = n /\ down' = Put(q, StateAck(d.s, base), ok2)
      <3>1. CASE over
        <4>1. d = Completed([c EXCEPT !.s.sync = FALSE], TRUE)
          BY <1>4, <1>7, <3>1
        <4>2. q = Put(down, JoinAck(c.s, TRUE, "COMPLETE"), ok)
          BY <1>9, <3>1
        <4>3. brg' = [d EXCEPT !.s = Bump(@)]
          BY <1>1, <1>3, <1>8, <1>16, <3>1, <4>1 DEF Confirm, Become
        <4>4. down' = Put(q, StateAck(d.s, base), ok2)
          BY <1>1, <1>3, <1>8, <1>16, <3>1, <4>1, <4>2 DEF Confirm
        <4> QED BY <1>10, <4>3, <4>4
      <3>2. CASE ~over
        <4>1. d = c /\ q = down
          BY <1>7, <1>9, <3>2
        <4>2. brg' = [d EXCEPT !.s = Bump(@)]
          BY <1>1, <1>3, <1>8, <1>16, <3>2, <4>1 DEF Confirm, Become
        <4>3. down' = Put(q, StateAck(d.s, base), ok2)
          BY <1>1, <1>3, <1>8, <1>16, <3>2, <4>1 DEF Confirm
        <4> QED BY <1>10, <4>2, <4>3
      <3> QED BY <3>1, <3>2
    <2>2. Says(n, JoinAck(c.s, TRUE, "COMPLETE"))
      BY <1>12, <1>13
    <2>3. Says(n, StateAck(d.s, base))
      <3>1. BridgeT(n) /\ SessionT(d.s) /\ d.s.key = n.s.key /\ d.s.nonce = n.s.nonce
        BY <1>7, <1>11 DEF Resembles, Like, BridgeT
      <3>2. n.s.lastState = c.s.lastState
        BY <1>12 DEF Resembles, Like
      <3>3. Sinks = FALSE => base = c.s.lastState
        BY <1>1 DEF BridgeT, BridgeFields, SessionT, SessionFields
      <3> QED BY <3>1, <3>2, <3>3, Speaks
    <2>4. Fits(q) /\ Frames(q) \subseteq Frames(down) \cup {JoinAck(c.s, TRUE, "COMPLETE")}
      BY <1>9, PutFacts, ZenonT(60) DEF AirOK
    <2>5. Fits(down') /\ Frames(down') \subseteq Frames(q) \cup {StateAck(d.s, base)}
      BY <2>1, <2>4, PutFacts
    <2>6. Spoke(n)
      BY <2>2, <2>3, <2>4, <2>5 DEF Spoke
    <2>7. (c = b \/ (c = [b EXCEPT !.s.lastState = base]))
          /\ (Sinks = FALSE => c = [b EXCEPT !.s.lastState = base])
      BY <1>1
    <2> QED BY <1>2, <1>12, <2>1, <2>6, <2>7
  <1> QED BY <1>14, <1>15, <1>16

\* A STATE is published, and, with nobody to confirm it, remembered.
Publishes(f, n) ==
    /\ f.type = "STATE" /\ f.key = brg.s.key /\ f.tx > brg.s.lastState
    /\ n.pub = [brg.pub EXCEPT ![f.entity] = f.value] /\ n.s.lastState = f.tx

LEMMA StateMoves ==
    ASSUME BridgeReady, NEW f, UpT(f), f.type = "STATE", NEW ok, NEW ok2, HandleState(f, ok, ok2)
    PROVE  /\ Proceeds(brg') /\ OldCommands(brg') /\ Spoke(brg')
           /\ Sinks = FALSE => StatesKept(brg') \/ Publishes(f, brg')
           /\ Sinks = FALSE => brg'.deliveries \subseteq brg.deliveries
PROOF
  <1>1. CASE ~Authentic(f)
    BY <1>1, RejectStays, StaysProceeds DEF HandleState, Stays
  <1>2. CASE Authentic(f) /\ Repeated(brg.s, f)
    <2>1. CASE f.tx # brg.s.lastState
      BY <1>2, <2>1, NothingStays, StaysProceeds DEF HandleState, Stays
    <2>2. CASE f.tx = brg.s.lastState
      <3>1. SessionT(Bump(brg.s)) /\ Like(brg.s, Bump(brg.s)) /\ SessionT(brg.s)
            /\ Like(brg.s, brg.s)
        BY BumpFacts DEF BridgeReady, BridgeT, Like
      <3>2. Says(WithSession(Bump(brg.s)), StateAck(brg.s, f.tx))
        BY <2>2, <3>1, WithSessionFacts, SpeaksStill DEF BridgeReady
      <3>3. Respond(WithSession(Bump(brg.s)), StateAck(brg.s, f.tx), ok2)
        BY <1>2, <2>2 DEF HandleState
      <3> QED BY <3>1, <3>2, <3>3, SpokenStays, StaysProceeds DEF Stays
    <2> QED BY <2>1, <2>2
  <1>3. CASE Authentic(f) /\ ~Repeated(brg.s, f)
    <2>1. PICK s : s = [brg.s EXCEPT !.lastSeen = Max({@, f.tx}),
                                     !.more = IF brg.s.sync THEN f.more ELSE @]
      OBVIOUS
    <2>2. /\ DOMAIN s = SessionFields
          /\ \A x \in SessionFields \ {"lastSeen", "more"} : s[x] = brg.s[x]
      BY <2>1 DEF BridgeReady, BridgeT, SessionT, SessionFields
    <2>3. SessionT(s) /\ Like(brg.s, s) /\ s.keyValid = brg.s.keyValid /\ s.exists = brg.s.exists
      BY <2>2, LooseFacts DEF BridgeReady, BridgeT, SessionFields, Loose, SessionT, Besides
    <2>4. PICK o : /\ o = OnlineIfNormal(s, f.tx) /\ SessionT(o) /\ Like(brg.s, o)
                   /\ o.keyValid = brg.s.keyValid /\ o.exists = brg.s.exists
      BY <2>3, OnlineSession, LikeChain
    <2>5. PICK b : b = [brg EXCEPT !.s = o, !.pub[f.entity] = f.value]
      OBVIOUS
    <2>6. /\ DOMAIN b = BridgeFields /\ b.s = o
          /\ b.pub = [brg.pub EXCEPT ![f.entity] = f.value]
          /\ \A x \in BridgeFields \ {"s", "pub"} : b[x] = brg[x]
      BY <2>5 DEF BridgeFields, BridgeReady, BridgeT
    <2>7. /\ b.nonces = brg.nonces /\ b.cmds = brg.cmds /\ b.slot = brg.slot
          /\ b.cfgs = brg.cfgs /\ b.deliveries = brg.deliveries /\ b.cache = brg.cache
      BY <2>6 DEF BridgeFields
    <2>8. b.pub \in [Entities -> Nat] /\ f.tx \in Nat
      BY <2>6 DEF UpT, BridgeReady, BridgeT, Kept
    <2>9. BridgeT(b)
      BY <2>4, <2>6, <2>7, <2>8 DEF BridgeT, BridgeReady, Queued, Kept
    <2>10. /\ SchemaFine(b) /\ b.s.key = brg.s.key /\ b.s.nonce = brg.s.nonce
           /\ b.s.hash = brg.s.hash /\ b.s.got = brg.s.got /\ b.s.lastState = brg.s.lastState
      BY <2>4, <2>6, <2>7 DEF Like, SchemaFine, Upto, BridgeReady
    <2>11. OldCommands(b)
      BY <2>7, SameCommands DEF OldCommands
    <2>12. f.key = brg.s.key /\ f.tx > brg.s.lastState
      BY <1>3 DEF Authentic, Repeated, Newer
    <2>13. CASE Sinks = TRUE
      <3>1. PICK x : x = [entity |-> f.entity, base |-> f.tx]
        OBVIOUS
      <3>2. PICK n : n = [b EXCEPT !.deliveries = @ \cup {x}]
        OBVIOUS
      <3>3. /\ DOMAIN n = BridgeFields /\ n.deliveries = b.deliveries \cup {x}
            /\ n.s = b.s /\ n.nonces = b.nonces /\ n.cmds = b.cmds /\ n.slot = b.slot
            /\ n.cfgs = b.cfgs /\ n.cache = b.cache /\ n.pub = b.pub
        BY <2>9, <3>2 DEF BridgeT, BridgeFields
      <3>4. BridgeT(n)
        BY <2>8, <2>9, <3>1, <3>3 DEF BridgeT, Queued, Kept
      <3>5. Proceeds(n) /\ OldCommands(n)
        BY <2>7, <2>10, <2>11, <3>3, <3>4 DEF Proceeds, OldCommands, SchemaFine, Upto
      <3>6. Quietly(n)
        BY <1>3, <2>1, <2>4, <2>5, <2>13, <3>1, <3>2 DEF HandleState
      <3> QED BY <2>13, <3>5, <3>6, QuietlyFacts DEF BridgeReady
    <2>14. CASE Sinks = FALSE
      <3>1. Confirm(b, f.tx, ok, ok2)
        BY <1>3, <2>1, <2>4, <2>5, <2>14 DEF HandleState
      <3>2. b.s.exists /\ b.s.keyValid /\ Newer(f.tx, b.s.lastState)
        BY <1>3, <2>4, <2>6, <2>10, <2>12 DEF Authentic, Known, Newer
      <3>3. PICK c : c = [b EXCEPT !.s.lastState = f.tx] /\ BridgeT(c) /\ Resembles(c, brg')
        BY <2>8, <2>9, <2>14, <3>1, <3>2, ConfirmMoves DEF BridgeReady
      <3>4. Spoke(brg')
        BY <2>8, <2>9, <2>14, <3>1, <3>2, ConfirmMoves DEF BridgeReady
      <3>5. /\ c.s.key = b.s.key /\ c.s.nonce = b.s.nonce /\ c.s.hash = b.s.hash
            /\ c.s.got = b.s.got /\ c.s.want = b.s.want /\ c.s.schema = b.s.schema
            /\ c.s.lastState = f.tx
        BY <2>9, <3>3 DEF BridgeT, BridgeFields, SessionT, SessionFields
      <3>6. /\ c.nonces = b.nonces /\ c.cmds = b.cmds /\ c.deliveries = b.deliveries
            /\ c.cache = b.cache /\ c.pub = b.pub
        BY <2>9, <3>3 DEF BridgeT, BridgeFields
      <3>7. SchemaFine(c)
        BY <2>10, <3>5, <3>6 DEF SchemaFine, Upto
      <3>8. SchemaFine(brg')
        BY <3>3, <3>7, ResemblesFine
      <3>9. Proceeds(brg')
        BY <2>7, <2>10, <3>3, <3>5, <3>6, <3>8 DEF Proceeds, Resembles, Like
      <3>10. OldCommands(brg') /\ brg'.deliveries \subseteq brg.deliveries
        BY <2>7, <3>3, <3>6 DEF OldCommands, Resembles
      <3>11. Publishes(f, brg')
        BY <2>6, <2>12, <3>3, <3>5, <3>6 DEF Publishes, Resembles, Like
      <3> QED BY <3>4, <3>9, <3>10, <3>11
    <2> QED BY <2>13, <2>14, BridgeAssumption
  <1> QED BY <1>1, <1>2, <1>3

LEMMA DeliveredMoves ==
    ASSUME BridgeReady, Sinks # FALSE, NEW d, NEW ok, NEW ok2, Delivered(d, ok, ok2)
    PROVE  Proceeds(brg') /\ OldCommands(brg') /\ Spoke(brg')
PROOF
  <1>1. PICK b : b = [brg EXCEPT !.deliveries = @ \ {d}]
    OBVIOUS
  <1>2. /\ DOMAIN b = BridgeFields /\ b.deliveries = brg.deliveries \ {d}
        /\ \A x \in BridgeFields \ {"deliveries"} : b[x] = brg[x]
    BY <1>1 DEF BridgeFields, BridgeReady, BridgeT
  <1>3. /\ b.nonces = brg.nonces /\ b.cmds = brg.cmds /\ b.slot = brg.slot /\ b.s = brg.s
        /\ b.cfgs = brg.cfgs /\ b.pub = brg.pub /\ b.cache = brg.cache
    BY <1>2 DEF BridgeFields
  <1>4. BridgeT(b) /\ SchemaFine(b) /\ d.base \in Nat
    BY <1>2, <1>3 DEF BridgeT, BridgeReady, Queued, Kept, SchemaFine, Upto, Delivered
  <1>5. Confirm(b, d.base, ok, ok2)
    BY <1>1 DEF Delivered
  <1>6. /\ \E c : /\ c = b \/ (c = [b EXCEPT !.s.lastState = d.base])
                  /\ Sinks = FALSE => c = [b EXCEPT !.s.lastState = d.base]
                  /\ BridgeT(c) /\ Resembles(c, brg')
        /\ Spoke(brg')
    BY <1>4, <1>5, ConfirmMoves DEF BridgeReady
  <1>7. PICK c : /\ c = b \/ (c = [b EXCEPT !.s.lastState = d.base])
                 /\ BridgeT(c) /\ Resembles(c, brg')
    BY <1>6
  <1>8. /\ c.s.key = b.s.key /\ c.s.nonce = b.s.nonce /\ c.s.hash = b.s.hash
        /\ c.s.got = b.s.got /\ c.s.want = b.s.want /\ c.s.schema = b.s.schema
        /\ c.nonces = b.nonces /\ c.cmds = b.cmds /\ c.cache = b.cache
    <2>1. CASE c = b
      BY <2>1
    <2>2. CASE c = [b EXCEPT !.s.lastState = d.base]
      BY <1>4, <2>2 DEF BridgeT, BridgeFields, SessionT, SessionFields
    <2> QED BY <1>7, <2>1, <2>2
  <1>9. SchemaFine(c)
    BY <1>4, <1>8 DEF SchemaFine, Upto
  <1>10. SchemaFine(brg')
    BY <1>7, <1>9, ResemblesFine
  <1>11. Proceeds(brg') /\ OldCommands(brg')
    BY <1>3, <1>7, <1>8, <1>10 DEF Proceeds, OldCommands, Resembles, Like
  <1> QED BY <1>6, <1>11

\* The session is forgotten, or all of the bridge's memory.
Clears(n) ==
    /\ BridgeT(n) /\ SchemaFine(n) /\ n.s = NoSession
    /\ n.nonces = brg.nonces /\ n.pub = brg.pub

LEMMA NoSessionFacts == SessionT(NoSession) /\ ~NoSession.schema /\ NoSession.want = 0
PROOF
  <1>1. DOMAIN NoSession = SessionFields
    BY DEF NoSession, SessionFields
  <1>2. About(NoSession)
    BY Bounds DEF NoSession, About, NoKey, Key, NoSchema, SomeHash
  <1>3. Besides(NoSession)
    BY Bounds DEF NoSession, Besides, Positive
  <1> QED BY <1>1, <1>2, <1>3 DEF SessionT, NoSession

LEMMA NoCacheFacts ==
    NoCache.hash \in SomeHash /\ NoCache.got \in [Entities -> SomeHash] /\ NoCache.hash = NoHash
  BY DEF NoCache, NoSchema, SomeHash

LEMMA ClearsMoves ==
    ASSUME BridgeReady, Evict \/ BridgeRestart
    PROVE  Clears(brg') /\ OldCommands(brg') /\ Spoke(brg') /\ brg'.deliveries \subseteq brg.deliveries
PROOF
  <1>1. \A e \in Entities : e \in Nat /\ ~(e < 0)
    BY Bounds DEF Entities
  <1>2. CASE Evict
    <2>1. PICK n : n = [brg EXCEPT !.s = NoSession, !.cache = IF brg.s.named THEN NoCache ELSE @]
      OBVIOUS
    <2>2. /\ DOMAIN n = BridgeFields /\ n.s = NoSession
          /\ n.cache = NoCache \/ n.cache = brg.cache
          /\ \A x \in BridgeFields \ {"s", "cache"} : n[x] = brg[x]
      BY <2>1 DEF BridgeFields, BridgeReady, BridgeT
    <2>3. /\ n.nonces = brg.nonces /\ n.cmds = brg.cmds /\ n.slot = brg.slot
          /\ n.cfgs = brg.cfgs /\ n.pub = brg.pub /\ n.deliveries = brg.deliveries
      BY <2>2 DEF BridgeFields
    <2>4. BridgeT(n)
      BY <2>2, <2>3, NoSessionFacts, NoCacheFacts DEF BridgeT, BridgeReady, Queued, Kept
    <2>5. SchemaFine(n)
      BY <1>1, <2>2, NoSessionFacts, NoCacheFacts DEF SchemaFine, Upto, BridgeReady
    <2>6. brg' = n /\ Spoke(n)
      BY <1>2, <2>1, QuietlyFacts DEF Evict, BridgeReady
    <2> QED BY <2>2, <2>3, <2>4, <2>5, <2>6, SameCommands DEF Clears, OldCommands
  <1>3. CASE BridgeRestart
    <2>1. PICK n : n = [brg EXCEPT !.s = NoSession, !.slot = "none", !.cache = NoCache,
                            !.cmds = <<>>, !.cfgs = <<>>, !.deliveries = {}]
      OBVIOUS
    <2>2. /\ DOMAIN n = BridgeFields /\ n.s = NoSession /\ n.cache = NoCache /\ n.slot = "none"
          /\ n.cmds = <<>> /\ n.cfgs = <<>> /\ n.deliveries = {}
          /\ n.nonces = brg.nonces /\ n.pub = brg.pub
      BY <2>1 DEF BridgeFields, BridgeReady, BridgeT
    <2>3. BridgeT(n)
      BY <2>2, NoSessionFacts, NoCacheFacts, EmptyQueue DEF BridgeT, BridgeReady, Queued, Kept
    <2>4. SchemaFine(n)
      BY <1>1, <2>2, NoSessionFacts, NoCacheFacts DEF SchemaFine, Upto, BridgeReady
    <2>5. brg' = n /\ Spoke(n)
      BY <1>3, <2>1, QuietlyFacts DEF BridgeRestart, BridgeReady
    <2>6. OldCommands(n)
      BY <2>2, EmptyQueue DEF OldCommands
    <2> QED BY <2>2, <2>3, <2>4, <2>5, <2>6 DEF Clears, OldCommands
  <1> QED BY <1>2, <1>3

\* A command of Home Assistant is sent, and kept until it is answered.
LEMMA SendCommandMoves ==
    ASSUME BridgeReady, NEW id \in Positive, NEW e \in Entities, NEW ok, SendCommand(id, e, ok)
    PROVE  /\ Proceeds(brg') /\ StatesKept(brg') /\ Spoke(brg')
           /\ brg'.deliveries \subseteq brg.deliveries
           /\ \E k : /\ k.id = id
                     /\ \A c \in Frames(brg'.cmds) :
                           SameCommand(c, k) \/ \E d \in Frames(brg.cmds) : SameCommand(c, d)
PROOF
  <1>1. /\ DOMAIN brg = BridgeFields /\ SessionT(brg.s) /\ Like(brg.s, brg.s) /\ Queued(brg)
        /\ IsQueue(brg.cmds)
    BY DEF BridgeReady, BridgeT, Like, Queued
  <1>2. PICK c : c = [id |-> id, entity |-> e, base |-> brg.s.tx, retry |-> 0]
    OBVIOUS
  <1>3. CommandT(c) /\ c.id = id
    BY <1>1, <1>2, BridgeAssumption DEF CommandT, SessionT, Besides, Positive
  <1>4. PICK u : u = Bump(brg.s) /\ SessionT(u) /\ Like(brg.s, u)
    BY <1>1, BumpFacts
  <1>5. PICK n : n = [brg EXCEPT !.s = Bump(@), !.cmds = IF ok THEN Append(@, c) ELSE @]
    OBVIOUS
  <1>6. /\ DOMAIN n = BridgeFields /\ n.s = u
        /\ n.cmds = (IF ok THEN Append(brg.cmds, c) ELSE brg.cmds)
        /\ \A x \in BridgeFields \ {"s", "cmds"} : n[x] = brg[x]
    BY <1>1, <1>4, <1>5 DEF BridgeFields
  <1>7. /\ n.nonces = brg.nonces /\ n.cache = brg.cache /\ n.slot = brg.slot
        /\ n.cfgs = brg.cfgs /\ n.pub = brg.pub /\ n.deliveries = brg.deliveries
    BY <1>6 DEF BridgeFields
  <1>8. /\ IsQueue(n.cmds) /\ Frames(n.cmds) \subseteq Frames(brg.cmds) \cup {c}
        /\ ok => c \in Frames(n.cmds)
    BY <1>1, <1>6, AppendToQueue
  <1>9. BridgeT(n)
    BY <1>1, <1>3, <1>4, <1>6, <1>7, <1>8 DEF BridgeT, BridgeReady, Queued, Kept
  <1>10. Proceeds(n) /\ StatesKept(n)
    BY <1>4, <1>6, <1>7, <1>9 DEF Proceeds, StatesKept, SchemaFine, Upto, Like, BridgeReady
  <1>11. Become(n) /\ down' = Put(down, Command(brg.s, c), ok)
    BY <1>2, <1>5 DEF SendCommand, Respond
  <1>12. Spoke(n)
    <2>1. CASE ok
      <3>1. brg.s.key = n.s.key /\ brg.s.nonce = n.s.nonce
        BY <1>4, <1>6 DEF Like
      <3>2. Says(n, Command(brg.s, c))
        BY <1>1, <1>8, <1>9, <2>1, <3>1, Speaks
      <3> QED BY <1>11, <3>2, RespondFacts DEF Respond, BridgeReady
    <2>2. CASE ~ok
      <3>1. Fits(down) /\ down' = down
        BY <1>11, <2>2, PutFacts DEF BridgeReady, AirOK
      <3> QED BY <3>1 DEF Spoke
    <2> QED BY <2>1, <2>2
  <1>13. \A k \in Frames(n.cmds) :
            SameCommand(k, c) \/ \E d \in Frames(brg.cmds) : SameCommand(k, d)
    BY <1>8 DEF SameCommand
  <1> QED BY <1>3, <1>7, <1>10, <1>11, <1>12, <1>13 DEF Become

-----------------------------------------------------------------------------
(* Every step of the bridge is one of these.                               *)

\* It is commanded what it was, but for one command that is new.
Commanded ==
    /\ DOMAIN hist' = HistFields
    /\ hist'.applied = hist.applied /\ hist'.acked = hist.acked
    /\ \/ hist'.issued = hist.issued /\ OldCommands(brg')
       \/ /\ hist'.issued = hist.issued + 1
          /\ \E k : /\ k.id = hist.issued + 1
                    /\ \A c \in Frames(brg'.cmds) :
                          SameCommand(c, k) \/ \E d \in Frames(brg.cmds) : SameCommand(c, d)

BridgeActs ==
    /\ BridgeT(brg') /\ SchemaFine(brg') /\ Spoke(brg')
    /\ Sinks = FALSE => brg'.deliveries \subseteq brg.deliveries
    /\ \/ /\ Proceeds(brg')
          /\ Sinks = FALSE => StatesKept(brg') \/ \E f \in Frames(up) : Publishes(f, brg')
       \/ \E f \in Frames(up) : f.type = "JOIN" /\ Renews(f, brg')
       \/ Clears(brg')

\* A step of the bridge.
BridgeMoves ==
    /\ BridgeActs /\ Commanded
    /\ leaf' = leaf /\ tuned' = tuned /\ Fits(up') /\ Frames(up') \subseteq Frames(up)
    /\ faults' \in 0 .. MaxFaults

LEMMA StaysActs ==
    ASSUME BridgeReady, Stays
    PROVE  BridgeActs /\ OldCommands(brg')
  BY StaysProceeds DEF Stays, BridgeActs, Proceeds, Resembles

LEMMA HeardMoves ==
    ASSUME BridgeReady, HistT,
           \A f \in Frames(up) : f.type = "SCHEMA_PUSH" => PushFine(f),
           NEW ok \in BOOLEAN, NEW ok2 \in BOOLEAN, BridgeReceive(ok, ok2)
    PROVE  BridgeMoves
PROOF
  <1>1. PICK f : f = Head(up)
    OBVIOUS
  <1>2. /\ f \in Frames(up) /\ Fits(up') /\ Frames(up') \subseteq Frames(up) /\ UpT(f)
    BY <1>1, TailFits DEF BridgeReceive, BridgeReady, AirOK
  <1>3. leaf' = leaf /\ tuned' = tuned /\ hist' = hist /\ faults' \in 0 .. MaxFaults
    BY PaidFacts, PaidBounds DEF BridgeReceive, BridgeReady
  <1>4. BridgeActs /\ OldCommands(brg')
    <2>1. CASE f.type = "DISCOVER" /\ HandleDiscover
      BY <2>1, DiscoverStays, StaysActs
    <2>2. CASE f.type = "JOIN" /\ HandleJoin(f, ok, ok2)
      <3>1. Stays \/ (Renews(f, brg') /\ Spoke(brg'))
        BY <1>2, <2>2, JoinMoves
      <3>2. CASE Stays
        BY <3>2, StaysActs
      <3>3. CASE Renews(f, brg') /\ Spoke(brg')
        <4>1. SchemaFine(brg')
          <5>1. \A e \in Entities : e \in Nat /\ ~(e < 0)
            BY Bounds DEF Entities
          <5> QED BY <3>3, <5>1 DEF Renews, Renewed, SchemaFine, Upto, BridgeReady
        <4> QED BY <1>2, <2>2, <3>3, <4>1 DEF BridgeActs, Renews, OldCommands
      <3> QED BY <3>1, <3>2, <3>3
    <2>3. CASE f.type = "SCHEMA_PUSH" /\ HandleSchemaPush(f, ok)
      <3>1. PushFine(f)
        BY <1>2, <2>3
      <3> QED BY <1>2, <2>3, <3>1, PushMoves DEF BridgeActs, Proceeds
    <2>4. CASE f.type = "HEARTBEAT" /\ HandleHeartbeat(f, ok)
      BY <2>4, HeartbeatStays, StaysActs
    <2>5. CASE f.type = "STATE" /\ HandleState(f, ok, ok2)
      BY <1>2, <2>5, StateMoves DEF BridgeActs, Proceeds
    <2>6. CASE f.type = "ACK" /\ HandleLeafAck(f, ok)
      BY <2>6, LeafAckStays, StaysActs
    <2> QED BY <1>1, <2>1, <2>2, <2>3, <2>4, <2>5, <2>6 DEF BridgeReceive
  <1> QED BY <1>2, <1>3, <1>4 DEF BridgeMoves, Commanded, HistT

LEMMA LoopActs ==
    ASSUME BridgeReady, BridgeLoop
    PROVE  BridgeActs /\ OldCommands(brg') /\ Paid
PROOF
  <1>1. ASSUME NEW ok \in BOOLEAN,
               \/ Sends(ok) /\ SendAnnounce(ok)
               \/ TimerSends(ok) /\ SchemaRetry(ok)
               \/ TimerSends(ok) /\ CompleteRetry(ok)
               \/ TimerSends(ok) /\ \E i \in DOMAIN brg.cmds : CommandRetry(i, ok)
               \/ TimerSends(ok) /\ \E i \in DOMAIN brg.cfgs : ConfigRetry(i, ok)
        PROVE  Stays /\ Paid
    <2>1. Paid
      BY <1>1, PaidFacts
    <2>2. Stays
      BY <1>1, AnnounceStays, SchemaRetryStays, CompleteRetryStays, CommandRetryStays,
         ConfigRetryStays
    <2> QED BY <2>1, <2>2
  <1>2. CASE \/ Timer /\ SchemaGiveUp
             \/ Timer /\ CompleteGiveUp
             \/ LongTimer /\ SyncTimeout
             \/ Idle /\ Free /\ SlotTimeout
             \/ Free /\ \E i \in DOMAIN brg.cmds : CommandGiveUp(i)
             \/ (IF InTouch THEN Fault("offline") ELSE LongTimer) /\ OfflineTimeout
    <2>1. Paid
      BY <1>2, PaidFacts
    <2>2. Stays
      BY <1>2, FlagsStay, SlotStays, CommandGiveUpStays
    <2> QED BY <2>1, <2>2, StaysActs
  <1>3. CASE \E ok \in BOOLEAN :
               \/ Sends(ok) /\ SendAnnounce(ok)
               \/ TimerSends(ok) /\ SchemaRetry(ok)
               \/ TimerSends(ok) /\ CompleteRetry(ok)
               \/ TimerSends(ok) /\ \E i \in DOMAIN brg.cmds : CommandRetry(i, ok)
               \/ TimerSends(ok) /\ \E i \in DOMAIN brg.cfgs : ConfigRetry(i, ok)
    BY <1>1, <1>3, StaysActs
  <1> QED BY <1>2, <1>3 DEF BridgeLoop

LEMMA ChanceActs ==
    ASSUME BridgeReady, BridgeChance
    PROVE  BridgeActs /\ OldCommands(brg') /\ Paid
PROOF
  <1>1. CASE \/ Fault("early") /\ \E d \in brg.deliveries : DeliveryExpired(d)
             \/ Fault("rejoin") /\ ForceRejoin
             \/ Fault("other") /\ OtherJoins
             \/ Free /\ OtherJoined
    <2>1. Stays
      BY <1>1, SlotStays, FlagsStay
    <2> QED BY <1>1, <2>1, StaysActs, PaidFacts
  <1>2. CASE (Fault("evict") /\ Evict) \/ (Fault("bridge") /\ BridgeRestart)
    <2>1. Clears(brg') /\ OldCommands(brg') /\ Spoke(brg') /\ brg'.deliveries \subseteq brg.deliveries
      BY <1>2, ClearsMoves
    <2> QED BY <1>2, <2>1, PaidFacts DEF BridgeActs, Clears
  <1> QED BY <1>1, <1>2 DEF BridgeChance

LEMMA BridgeSteps ==
    ASSUME BridgeReady, HistT,
           \A f \in Frames(up) : f.type = "SCHEMA_PUSH" => PushFine(f),
           Sinks = FALSE => brg.deliveries = {},
           \/ \E ok, ok2 \in BOOLEAN : BridgeReceive(ok, ok2)
           \/ BridgeLoop
           \/ \E d \in brg.deliveries : Confirmed(d)
           \/ BridgeChance
           \/ \E e \in Entities, ok \in BOOLEAN : IssueCommand(e, ok)
           \/ \E c \in ConfigCommands, ok \in BOOLEAN : IssueConfig(c, ok)
    PROVE  BridgeMoves
PROOF
  <1>1. CASE \E ok, ok2 \in BOOLEAN : BridgeReceive(ok, ok2)
    BY <1>1, HeardMoves
  <1>2. ASSUME BridgeOnly, Unseen, BridgeActs, OldCommands(brg'), Paid
        PROVE  BridgeMoves
    BY <1>2, PaidBounds DEF BridgeOnly, Unseen, BridgeMoves, Commanded, HistT, BridgeReady, AirOK
  <1>3. CASE BridgeLoop
    BY <1>2, <1>3, LoopActs DEF BridgeLoop
  <1>4. CASE BridgeChance
    BY <1>2, <1>4, ChanceActs DEF BridgeChance
  <1>5. CASE \E d \in brg.deliveries : Confirmed(d)
    <2>1. PICK d \in brg.deliveries : Confirmed(d)
      BY <1>5
    <2>2. Sinks # FALSE
      BY <2>1
    <2>3. PICK ok \in BOOLEAN, ok2 \in BOOLEAN : Sends(ok /\ ok2) /\ Delivered(d, ok, ok2)
      BY <2>1 DEF Confirmed
    <2>4. Proceeds(brg') /\ OldCommands(brg') /\ Spoke(brg')
      BY <2>2, <2>3, DeliveredMoves
    <2>5. BridgeActs
      BY <2>2, <2>4 DEF BridgeActs, Proceeds
    <2>6. Paid
      <3>1. (ok /\ ok2) \in BOOLEAN
        OBVIOUS
      <3> QED BY <2>3, <3>1, PaidFacts
    <2> QED BY <1>2, <2>1, <2>4, <2>5, <2>6 DEF Confirmed
  <1>6. CASE \E e \in Entities, ok \in BOOLEAN : IssueCommand(e, ok)
    <2>1. PICK e \in Entities, ok \in BOOLEAN : IssueCommand(e, ok)
      BY <1>6
    <2>2. hist.issued + 1 \in Positive
      BY DEF HistT, Positive
    <2>3. SendCommand(hist.issued + 1, e, ok) /\ Paid /\ BridgeOnly
      BY <2>1, PaidFacts DEF IssueCommand
    <2>4. /\ Proceeds(brg') /\ StatesKept(brg') /\ Spoke(brg')
          /\ brg'.deliveries \subseteq brg.deliveries
          /\ \E k : /\ k.id = hist.issued + 1
                    /\ \A c \in Frames(brg'.cmds) :
                          SameCommand(c, k) \/ \E d \in Frames(brg.cmds) : SameCommand(c, d)
      BY <2>2, <2>3, SendCommandMoves
    <2>5. BridgeActs
      BY <2>4 DEF BridgeActs, Proceeds
    <2>6. /\ DOMAIN hist' = HistFields /\ hist'.issued = hist.issued + 1
          /\ hist'.applied = hist.applied /\ hist'.acked = hist.acked
      BY <2>1 DEF IssueCommand, HistT, HistFields
    <2>7. Commanded
      BY <2>4, <2>6 DEF Commanded
    <2> QED BY <2>3, <2>5, <2>7, PaidBounds DEF BridgeOnly, BridgeMoves, BridgeReady, AirOK
  <1>7. CASE \E c \in ConfigCommands, ok \in BOOLEAN : IssueConfig(c, ok)
    <2>1. PICK c \in ConfigCommands, ok \in BOOLEAN : IssueConfig(c, ok)
      BY <1>7
    <2>2. SendConfig(c, ok) /\ Paid /\ BridgeOnly
      BY <2>1, PaidFacts DEF IssueConfig
    <2>3. BridgeActs /\ OldCommands(brg')
      BY <2>2, SendConfigStays, StaysActs
    <2>4. /\ DOMAIN hist' = HistFields /\ hist'.issued = hist.issued
          /\ hist'.applied = hist.applied /\ hist'.acked = hist.acked
      BY <2>1 DEF IssueConfig, HistT, HistFields
    <2>5. Commanded
      BY <2>3, <2>4 DEF Commanded
    <2> QED BY <2>2, <2>3, <2>5, PaidBounds DEF BridgeOnly, BridgeMoves, BridgeReady, AirOK
  <1> QED BY <1>1, <1>3, <1>4, <1>5, <1>6, <1>7

-----------------------------------------------------------------------------
(* Keys: nobody has one of a nonce that is still to come, and a leaf that  *)
(* is joined has one of its nonce.                                         *)

KeysOK ==
    /\ leaf.key[1] <= brg.nonces /\ leaf.key[2] <= leaf.nonce
    /\ leaf.joined => leaf.key[2] = leaf.nonce
    /\ brg.s.nonce <= brg.nonces /\ brg.s.key[1] <= brg.nonces /\ brg.s.key[2] <= leaf.nonce
    /\ \A f \in Frames(up) : f.type \in {"STATE", "SCHEMA_PUSH"} =>
          f.key[1] <= brg.nonces /\ f.key[2] > 0 /\ f.key[2] <= leaf.nonce
    /\ \A f \in Frames(down) : f.type \in {"ACK", "SCHEMA_REQUEST"} =>
          f.key[1] <= brg.nonces /\ f.key[2] <= leaf.nonce
    /\ \A f \in Frames(down) : f.type = "JOIN_ACK" => f.nonce <= brg.nonces
    /\ \A f \in Frames(up) : f.type = "JOIN" =>
          f.nonce <= leaf.nonce /\ (f.nonce = leaf.nonce => f.hash = leaf.hash)

Typed == LeafOK(leaf) /\ AirOK /\ BridgeT(brg) /\ SchemaFine(brg) /\ HistT

LEMMA TypedNumbers ==
    ASSUME Typed
    PROVE  /\ leaf.nonce \in Nat /\ leaf.nonce > 0 /\ leaf.tx \in Nat /\ leaf.tx > 0
           /\ leaf.key \in Key /\ leaf.key[1] \in Nat /\ leaf.key[2] \in Nat
           /\ brg.nonces \in Nat /\ brg.s.nonce \in Nat
           /\ brg.s.key \in Key /\ brg.s.key[1] \in Nat /\ brg.s.key[2] \in Nat
           /\ brg.s.lastState \in Nat /\ hist.issued \in Nat
           /\ \A f \in Frames(up) : f.type \in {"STATE", "SCHEMA_PUSH"} =>
                 f.key \in Key /\ f.key[1] \in Nat /\ f.key[2] \in Nat /\ f.tx \in Nat
           /\ \A f \in Frames(down) : f.type \in {"ACK", "SCHEMA_REQUEST"} =>
                 f.key \in Key /\ f.key[1] \in Nat /\ f.key[2] \in Nat
           /\ \A f \in Frames(down) : f.type = "ACK" => f.ref \in Nat
           /\ \A f \in Frames(down) : f.type = "JOIN_ACK" => f.nonce \in Nat
           /\ \A f \in Frames(up) : f.type = "JOIN" => f.nonce \in Nat
PROOF
  <1>1. /\ leaf.nonce \in Positive /\ leaf.tx \in Positive /\ leaf.key \in Key
        /\ brg.nonces \in Nat /\ brg.s.nonce \in Nat /\ brg.s.key \in Key
        /\ brg.s.lastState \in Nat /\ hist.issued \in Nat
    BY DEF Typed, LeafOK, LeafT, Shaped, Numbered, BridgeT, SessionT, About, Kept, HistT
  <1>2. \A k \in Key : k[1] \in Nat /\ k[2] \in Nat
    BY DEF Key
  <1>3. \A f \in Frames(up) : UpT(f)
    BY DEF Typed, AirOK
  <1>4. \A f \in Frames(down) : DownT(f)
    BY DEF Typed, AirOK
  <1>5. \A f \in Frames(up) : f.type \in {"STATE", "SCHEMA_PUSH"} => f.key \in Key /\ f.tx \in Nat
    BY <1>3 DEF UpT
  <1>6. \A f \in Frames(down) : f.type \in {"ACK", "SCHEMA_REQUEST"} => f.key \in Key
    BY <1>4 DEF DownT
  <1>7. \A f \in Frames(down) : f.type = "ACK" => f.ref \in Nat
    BY <1>4 DEF DownT
  <1>8. \A f \in Frames(down) : f.type = "JOIN_ACK" => f.nonce \in Nat
    BY <1>4 DEF DownT
  <1>9. \A f \in Frames(up) : f.type = "JOIN" => f.nonce \in Nat
    BY <1>3 DEF UpT, Positive
  <1> QED BY <1>1, <1>2, <1>5, <1>6, <1>7, <1>8, <1>9 DEF Positive

\* Types after a step.
LEMMA LeafTyped ==
    ASSUME Typed, LeafMoves
    PROVE  Typed'
PROOF
  <1>1. LeafOK(leaf')
    BY DEF LeafMoves, LeafStep, GoesOn, StartsOver
  <1>2. AirOK'
    <2>1. \A f \in Frames(up') : UpT(f)
      BY DEF LeafMoves, LeafStep, MaySend, Typed, AirOK
    <2>2. \A f \in Frames(down') : DownT(f)
      BY DEF LeafMoves, Typed, AirOK
    <2> QED BY <2>1, <2>2 DEF LeafMoves, LeafStep, AirOK
  <1>3. BridgeT(brg') /\ SchemaFine(brg')
    BY DEF LeafMoves, Typed
  <1>4. HistT'
    <2>1. DOMAIN hist' = HistFields /\ hist'.issued \in Nat
      BY DEF LeafMoves, Records, Typed, HistT
    <2>2. IsQueue(hist'.applied)
      <3>1. IsQueue(hist.applied)
        BY DEF Typed, HistT
      <3>2. \/ hist'.applied = <<>> \/ hist'.applied = hist.applied
            \/ \E f \in Frames(down) : hist'.applied = Append(hist.applied, f.id)
        BY DEF LeafMoves, Records, Applies
      <3>3. \A f : IsQueue(Append(hist.applied, f))
        BY <3>1, AppendToQueue
      <3> QED BY <3>1, <3>2, <3>3, EmptyQueue
    <2>3. hist'.acked \in [Entities -> Nat]
      <3>1. leaf.pval \in Nat /\ leaf.field \in Entities
        BY DEF Typed, LeafOK, LeafT, Shaped, Pending
      <3> QED BY <3>1 DEF LeafMoves, Records, Confirms, Typed, HistT
    <2> QED BY <2>1, <2>2, <2>3 DEF HistT
  <1> QED BY <1>1, <1>2, <1>3, <1>4 DEF Typed

LEMMA BridgeTyped ==
    ASSUME Typed, BridgeMoves
    PROVE  Typed'
PROOF
  <1>1. LeafOK(leaf') /\ BridgeT(brg') /\ SchemaFine(brg')
    BY DEF Typed, BridgeMoves, BridgeActs
  <1>2. AirOK'
    <2>1. \A f \in Frames(up') : UpT(f)
      BY DEF BridgeMoves, Typed, AirOK
    <2>2. \A f \in Frames(down') : DownT(f)
      BY DEF BridgeMoves, BridgeActs, Spoke, Says, Typed, AirOK
    <2> QED BY <2>1, <2>2 DEF BridgeMoves, BridgeActs, Spoke, Typed, AirOK
  <1>3. HistT'
    <2>1. DOMAIN hist' = HistFields /\ hist'.issued \in Nat
      BY DEF BridgeMoves, Commanded, Typed, HistT
    <2>2. hist'.applied = hist.applied /\ hist'.acked = hist.acked
      BY DEF BridgeMoves, Commanded
    <2> QED BY <2>1, <2>2 DEF Typed, HistT
  <1> QED BY <1>1, <1>2, <1>3 DEF Typed

\* What the radio does to what it carries.
Mixes ==
    /\ leaf' = leaf /\ brg' = brg /\ hist' = hist
    /\ tuned' \in 1 .. NumChannels /\ faults' \in 0 .. MaxFaults
    /\ Fits(up') /\ Frames(up') \subseteq Frames(up)
    /\ Fits(down') /\ Frames(down') \subseteq Frames(down)

LEMMA RadioMixes ==
    ASSUME Typed, RadioFault
    PROVE  Mixes
PROOF
  <1>1. faults' \in 0 .. MaxFaults
    <2>1. Paid
      BY DEF RadioFault, Lose, Overtake, Paid
    <2> QED BY <2>1, PaidBounds DEF Typed
  <1>2. Fits(up') /\ Frames(up') \subseteq Frames(up)
    BY TailFits, SwapFits DEF RadioFault, Lose, Overtake, Typed, AirOK
  <1>3. Fits(down') /\ Frames(down') \subseteq Frames(down)
    BY TailFits, SwapFits DEF RadioFault, Lose, Overtake, Typed, AirOK
  <1>4. tuned' = tuned
    BY DEF RadioFault, Lose, Overtake
  <1> QED BY <1>1, <1>2, <1>3, <1>4 DEF Mixes, RadioFault, Typed, AirOK

LEMMA MixesTyped ==
    ASSUME Typed, Mixes
    PROVE  Typed'
  BY DEF Typed, Mixes, AirOK, HistT

\* Every step is a step of the leaf, of the bridge or of the radio.
LEMMA Steps ==
    ASSUME Typed, \A f \in Frames(up) : f.type = "SCHEMA_PUSH" => PushFine(f),
           Sinks = FALSE => brg.deliveries = {}, [Next]_vars
    PROVE  LeafMoves \/ BridgeMoves \/ Mixes
PROOF
  <1>1. CASE UNCHANGED vars
    BY <1>1 DEF vars, radioVars, Mixes, Typed, AirOK
  <1>2. CASE RadioFault
    BY <1>2, RadioMixes
  <1>3. CASE \/ \E ok \in BOOLEAN : LeafReceive(ok)
             \/ LeafLoop
             \/ \E ok \in BOOLEAN : LeafHeartbeat(ok)
             \/ LeafChance
             \/ \E e \in Entities : Change(e)
    BY <1>3, LeafSteps DEF Typed, LeafReady
  <1>4. CASE \/ \E ok, ok2 \in BOOLEAN : BridgeReceive(ok, ok2)
             \/ BridgeLoop
             \/ \E d \in brg.deliveries : Confirmed(d)
             \/ BridgeChance
             \/ \E e \in Entities, ok \in BOOLEAN : IssueCommand(e, ok)
             \/ \E c \in ConfigCommands, ok \in BOOLEAN : IssueConfig(c, ok)
    BY <1>4, BridgeSteps DEF Typed, BridgeReady
  <1> QED BY <1>1, <1>2, <1>3, <1>4 DEF Next, Receive

LEMMA LeafKeys ==
    ASSUME Typed, LeafMoves, KeysOK
    PROVE  KeysOK'
PROOF
  <1>1. Typed'
    BY LeafTyped
  <1>2. /\ leaf'.nonce >= leaf.nonce /\ leaf.nonce \in Nat /\ leaf'.nonce \in Nat /\ brg' = brg
        /\ leaf'.nonce = leaf.nonce => leaf'.hash = leaf.hash
    <2>1. leaf.nonce \in Nat /\ leaf'.nonce \in Nat
      BY <1>1, TypedNumbers DEF Typed, LeafOK, LeafT, Shaped, Numbered, Positive
    <2> QED BY <2>1 DEF LeafMoves, LeafStep, GoesOn, StartsOver
  <1>3. /\ leaf'.key[1] <= brg'.nonces /\ leaf'.key[2] <= leaf'.nonce
        /\ leaf'.joined => leaf'.key[2] = leaf'.nonce
    <2>1. CASE GoesOn(leaf, leaf')
      <3>1. CASE leaf'.key = leaf.key /\ (leaf'.joined => leaf.joined)
        BY <1>2, <2>1, <3>1 DEF KeysOK, GoesOn
      <3>2. CASE \E f \in Frames(down) : f.type = "JOIN_ACK" /\ leaf'.key = <<f.nonce, leaf.nonce>>
        BY <1>2, <2>1, <3>2 DEF KeysOK, GoesOn
      <3> QED BY <2>1, <3>1, <3>2 DEF GoesOn, KeyOf
    <2>2. CASE StartsOver(leaf, leaf')
      <3>1. leaf'.key = leaf.key \/ leaf'.key = <<0, 0>>
        BY <2>2 DEF StartsOver, NoKey
      <3>2. ~leaf'.joined /\ leaf'.nonce > leaf.nonce
        BY <2>2 DEF StartsOver
      <3> QED BY <1>2, <3>1, <3>2, TypedNumbers DEF KeysOK
    <2> QED BY <2>1, <2>2 DEF LeafMoves, LeafStep
  <1>4. /\ brg'.s.nonce <= brg'.nonces /\ brg'.s.key[1] <= brg'.nonces
        /\ brg'.s.key[2] <= leaf'.nonce
    BY <1>2, TypedNumbers DEF KeysOK
  <1>5. \A f \in Frames(up') : f.type \in {"STATE", "SCHEMA_PUSH"} =>
           f.key[1] <= brg'.nonces /\ f.key[2] > 0 /\ f.key[2] <= leaf'.nonce
    <2>1. SUFFICES ASSUME NEW f \in Frames(up'), f.type \in {"STATE", "SCHEMA_PUSH"}
                   PROVE  f.key[1] <= brg'.nonces /\ f.key[2] > 0 /\ f.key[2] <= leaf'.nonce
      OBVIOUS
    <2>2. CASE f \in Frames(up)
      BY <1>2, <2>1, <2>2, TypedNumbers DEF KeysOK
    <2>3. CASE MaySend(f)
      <3>1. leaf.joined /\ f.key = leaf.key
        BY <2>1, <2>3 DEF MaySend, Asked, Awaited
      <3> QED BY <1>2, <3>1, TypedNumbers DEF KeysOK
    <2> QED BY <2>2, <2>3 DEF LeafMoves, LeafStep
  <1>6. \A f \in Frames(down') : f.type \in {"ACK", "SCHEMA_REQUEST"} =>
           f.key[1] <= brg'.nonces /\ f.key[2] <= leaf'.nonce
    BY <1>2, TypedNumbers DEF KeysOK, LeafMoves
  <1>7. \A f \in Frames(down') : f.type = "JOIN_ACK" => f.nonce <= brg'.nonces
    BY <1>2 DEF KeysOK, LeafMoves
  <1>8. \A f \in Frames(up') : f.type = "JOIN" =>
           f.nonce <= leaf'.nonce /\ (f.nonce = leaf'.nonce => f.hash = leaf'.hash)
    <2>1. SUFFICES ASSUME NEW f \in Frames(up'), f.type = "JOIN"
                   PROVE  f.nonce <= leaf'.nonce /\ (f.nonce = leaf'.nonce => f.hash = leaf'.hash)
      OBVIOUS
    <2>2. CASE f \in Frames(up)
      <3>1. /\ f.nonce \in Nat /\ f.nonce <= leaf.nonce
            /\ f.nonce = leaf.nonce => f.hash = leaf.hash
        BY <2>1, <2>2, TypedNumbers DEF KeysOK
      <3>2. f.nonce = leaf'.nonce => leaf'.nonce = leaf.nonce
        BY <1>2, <3>1
      <3> QED BY <1>2, <3>1, <3>2
    <2>3. CASE MaySend(f)
      BY <1>2, <2>1, <2>3 DEF MaySend
    <2> QED BY <2>2, <2>3 DEF LeafMoves, LeafStep
  <1> QED BY <1>3, <1>4, <1>5, <1>6, <1>7, <1>8 DEF KeysOK

\* The bridge's nonces after a step, and the key it has then.
LEMMA BridgeNonces ==
    ASSUME Typed, BridgeActs, KeysOK
    PROVE  /\ brg'.nonces \in Nat /\ brg'.nonces >= brg.nonces
           /\ brg'.s.nonce <= brg'.nonces /\ brg'.s.key[1] <= brg'.nonces
           /\ brg'.s.key[2] <= leaf.nonce
           /\ brg'.s.key[1] \in Nat /\ brg'.s.key[2] \in Nat /\ brg'.s.nonce \in Nat
PROOF
  <1>1. /\ brg'.nonces \in Nat /\ brg'.s.key \in Key /\ brg'.s.nonce \in Nat
        /\ brg'.s.key[1] \in Nat /\ brg'.s.key[2] \in Nat
    BY DEF BridgeActs, BridgeT, Kept, SessionT, About, Key
  <1>2. CASE Proceeds(brg')
    BY <1>1, <1>2, TypedNumbers DEF Proceeds, KeysOK
  <1>3. CASE \E f \in Frames(up) : f.type = "JOIN" /\ Renews(f, brg')
    <2>1. PICK f \in Frames(up) : f.type = "JOIN" /\ Renews(f, brg')
      BY <1>3
    <2>2. /\ brg'.nonces = brg.nonces + 1 /\ brg'.s.nonce = brg.nonces + 1
          /\ brg'.s.key[1] = brg.nonces + 1 /\ brg'.s.key[2] = f.nonce
      BY <2>1 DEF Renews, Renewed
    <2>3. f.nonce <= leaf.nonce
      BY <2>1 DEF KeysOK
    <2> QED BY <1>1, <2>2, <2>3, TypedNumbers
  <1>4. CASE Clears(brg')
    <2>1. /\ brg'.nonces = brg.nonces /\ brg'.s.nonce = 0
          /\ brg'.s.key[1] = 0 /\ brg'.s.key[2] = 0
      BY <1>4 DEF Clears, NoSession, NoKey
    <2> QED BY <1>1, <2>1, TypedNumbers
  <1> QED BY <1>2, <1>3, <1>4 DEF BridgeActs

LEMMA BridgeKeys ==
    ASSUME Typed, BridgeMoves, KeysOK
    PROVE  KeysOK'
PROOF
  <1>1. /\ brg'.nonces \in Nat /\ brg'.nonces >= brg.nonces /\ leaf' = leaf
        /\ brg'.s.nonce <= brg'.nonces /\ brg'.s.key[1] <= brg'.nonces
        /\ brg'.s.key[2] <= leaf.nonce
        /\ brg'.s.key[1] \in Nat /\ brg'.s.key[2] \in Nat /\ brg'.s.nonce \in Nat
    BY BridgeNonces DEF BridgeMoves
  <1>2. \A n \in Nat : n <= brg.nonces => n <= brg'.nonces
    BY <1>1, TypedNumbers
  <1>3. /\ leaf'.key[1] <= brg'.nonces /\ leaf'.key[2] <= leaf'.nonce
        /\ leaf'.joined => leaf'.key[2] = leaf'.nonce
    BY <1>1, <1>2, TypedNumbers DEF KeysOK
  <1>4. \A f \in Frames(up') : f.type \in {"STATE", "SCHEMA_PUSH"} =>
           f.key[1] <= brg'.nonces /\ f.key[2] > 0 /\ f.key[2] <= leaf'.nonce
    BY <1>1, <1>2, TypedNumbers DEF KeysOK, BridgeMoves
  <1>5. \A f \in Frames(down') : f.type \in {"ACK", "SCHEMA_REQUEST"} =>
           f.key[1] <= brg'.nonces /\ f.key[2] <= leaf'.nonce
    <2>1. SUFFICES ASSUME NEW f \in Frames(down'), f.type \in {"ACK", "SCHEMA_REQUEST"}
                   PROVE  f.key[1] <= brg'.nonces /\ f.key[2] <= leaf'.nonce
      OBVIOUS
    <2>2. CASE f \in Frames(down)
      BY <1>1, <1>2, <2>1, <2>2, TypedNumbers DEF KeysOK
    <2>3. CASE Says(brg', f)
      <3>1. f.key = brg'.s.key
        BY <2>1, <2>3 DEF Says
      <3> QED BY <1>1, <3>1
    <2> QED BY <2>2, <2>3 DEF BridgeMoves, BridgeActs, Spoke
  <1>6. \A f \in Frames(down') : f.type = "JOIN_ACK" => f.nonce <= brg'.nonces
    <2>1. SUFFICES ASSUME NEW f \in Frames(down'), f.type = "JOIN_ACK"
                   PROVE  f.nonce <= brg'.nonces
      OBVIOUS
    <2>2. CASE f \in Frames(down)
      BY <1>1, <1>2, <2>1, <2>2, TypedNumbers DEF KeysOK
    <2>3. CASE Says(brg', f)
      BY <1>1, <2>1, <2>3 DEF Says
    <2> QED BY <2>2, <2>3 DEF BridgeMoves, BridgeActs, Spoke
  <1>7. \A f \in Frames(up') : f.type = "JOIN" =>
           f.nonce <= leaf'.nonce /\ (f.nonce = leaf'.nonce => f.hash = leaf'.hash)
    BY <1>1 DEF KeysOK, BridgeMoves
  <1> QED BY <1>1, <1>3, <1>4, <1>5, <1>6, <1>7 DEF KeysOK

-----------------------------------------------------------------------------
(* The schema.  What a bridge has a key for it takes for the firmware that *)
(* key is of, and so is every part of the schema that is on its way; one   *)
(* that is asked for has nothing missing before it.                        *)

SchemaOK ==
    /\ brg.s.key[2] = leaf.nonce => brg.s.hash = leaf.hash
    /\ \A f \in Frames(up) : f.type = "SCHEMA_PUSH" => PushFine(f)
    /\ \A f \in Frames(down) : f.type = "SCHEMA_REQUEST" /\ f.key = brg.s.key => Upto(brg.s, f.desc)

LEMMA LeafSchema ==
    ASSUME Typed, LeafMoves, KeysOK, SchemaOK
    PROVE  SchemaOK'
PROOF
  <1>1. brg' = brg /\ leaf.nonce \in Nat /\ leaf'.nonce \in Nat
    BY LeafTyped, TypedNumbers
       DEF LeafMoves, Typed, LeafOK, LeafT, Shaped, Numbered, Positive
  <1>2. brg'.s.key[2] = leaf'.nonce => brg'.s.hash = leaf'.hash
    <2>1. CASE GoesOn(leaf, leaf')
      BY <1>1, <2>1 DEF GoesOn, SchemaOK
    <2>2. CASE StartsOver(leaf, leaf')
      <3>1. leaf'.nonce > leaf.nonce
        BY <2>2 DEF StartsOver
      <3> QED BY <1>1, <3>1, TypedNumbers DEF KeysOK
    <2> QED BY <2>1, <2>2 DEF LeafMoves, LeafStep
  <1>3. \A f \in Frames(up') : f.type = "SCHEMA_PUSH" => PushFine(f)
    <2>1. SUFFICES ASSUME NEW f \in Frames(up'), f.type = "SCHEMA_PUSH"
                   PROVE  PushFine(f)
      OBVIOUS
    <2>2. CASE f \in Frames(up)
      BY <2>1, <2>2 DEF SchemaOK
    <2>3. CASE MaySend(f)
      <3>1. Asked(f)
        BY <2>1, <2>3 DEF MaySend
      <3>2. SUFFICES ASSUME f.key = brg.s.key PROVE f.of = brg.s.hash /\ Upto(brg.s, f.desc)
        BY DEF PushFine
      <3>3. leaf.joined /\ f.key = leaf.key /\ f.of = leaf.hash
        BY <3>1 DEF Asked
      <3>4. brg.s.key[2] = leaf.nonce
        BY <3>2, <3>3 DEF KeysOK
      <3>5. PICK g \in Frames(down) : g.type = "SCHEMA_REQUEST" /\ g.key = f.key /\ g.desc = f.desc
        BY <3>1 DEF Asked
      <3> QED BY <3>2, <3>3, <3>4, <3>5 DEF SchemaOK
    <2> QED BY <2>2, <2>3 DEF LeafMoves, LeafStep
  <1>4. \A f : PushFine(f) => PushFine(f)'
    BY <1>1 DEF PushFine, Upto
  <1>5. \A f \in Frames(down') : f.type = "SCHEMA_REQUEST" /\ f.key = brg.s.key => Upto(brg.s, f.desc)
    BY DEF SchemaOK, LeafMoves
  <1> QED BY <1>1, <1>2, <1>3, <1>4, <1>5 DEF SchemaOK, Upto

\* A schema part of before counts as it did.
LEMMA ProceedsUpto ==
    ASSUME NEW n, Proceeds(n), NEW d, Upto(brg.s, d)
    PROVE  Upto(n.s, d)
  BY DEF Proceeds, Upto

LEMMA BridgeSchema ==
    ASSUME Typed, BridgeMoves, KeysOK, SchemaOK
    PROVE  SchemaOK'
PROOF
  <1>1. leaf' = leaf /\ Frames(up') \subseteq Frames(up)
        /\ \A f \in Frames(down') : f \in Frames(down) \/ Says(brg', f)
    BY DEF BridgeMoves, BridgeActs, Spoke
  <1>2. \A f \in Frames(down') : f.type = "SCHEMA_REQUEST" /\ Says(brg', f) => Upto(brg'.s, f.desc)
    BY DEF Says
  <1>3. CASE Proceeds(brg')
    <2>1. brg'.s.key[2] = leaf'.nonce => brg'.s.hash = leaf'.hash
      BY <1>1, <1>3 DEF Proceeds, SchemaOK
    <2>2. \A f \in Frames(up') : f.type = "SCHEMA_PUSH" /\ f.key = brg'.s.key =>
             f.of = brg'.s.hash /\ Upto(brg'.s, f.desc)
      <3>1. \A f \in Frames(up') : f.type = "SCHEMA_PUSH" /\ f.key = brg.s.key =>
               f.of = brg.s.hash /\ Upto(brg.s, f.desc)
        BY <1>1 DEF SchemaOK, PushFine
      <3>2. brg'.s.key = brg.s.key /\ brg'.s.hash = brg.s.hash
        BY <1>3 DEF Proceeds
      <3> QED BY <1>3, <3>1, <3>2, ProceedsUpto
    <2>3. \A f \in Frames(down') : f.type = "SCHEMA_REQUEST" /\ f.key = brg'.s.key => Upto(brg'.s, f.desc)
      <3>1. brg'.s.key = brg.s.key
        BY <1>3 DEF Proceeds
      <3>2. \A f \in Frames(down) : f.type = "SCHEMA_REQUEST" /\ f.key = brg.s.key => Upto(brg'.s, f.desc)
        BY <1>3, ProceedsUpto DEF SchemaOK
      <3> QED BY <1>1, <1>2, <3>1, <3>2
    <2> QED BY <2>1, <2>2, <2>3 DEF SchemaOK, PushFine
  <1>4. CASE \E f \in Frames(up) : f.type = "JOIN" /\ Renews(f, brg')
    <2>1. PICK j \in Frames(up) : j.type = "JOIN" /\ Renews(j, brg')
      BY <1>4
    <2>2. /\ brg'.s.key[1] = brg.nonces + 1 /\ brg'.s.key[2] = j.nonce /\ brg'.s.hash = j.hash
      BY <2>1 DEF Renews, Renewed
    <2>3. brg'.s.key[2] = leaf'.nonce => brg'.s.hash = leaf'.hash
      BY <1>1, <2>1, <2>2 DEF KeysOK
    <2>4. \A k : k = brg'.s.key => ~(k[1] <= brg.nonces)
      BY <2>2, TypedNumbers
    <2>5. \A f \in Frames(up') : f.type = "SCHEMA_PUSH" => f.key # brg'.s.key
      BY <1>1, <2>4 DEF KeysOK
    <2>6. \A f \in Frames(down) : f.type = "SCHEMA_REQUEST" => f.key # brg'.s.key
      BY <2>4 DEF KeysOK
    <2> QED BY <1>1, <1>2, <2>3, <2>5, <2>6 DEF SchemaOK, PushFine
  <1>5. CASE Clears(brg')
    <2>1. brg'.s = NoSession /\ brg'.s.key[2] = 0
      BY <1>5 DEF Clears, NoSession, NoKey
    <2>2. brg'.s.key[2] # leaf'.nonce
      BY <1>1, <2>1, TypedNumbers
    <2>3. \A f \in Frames(up') : f.type = "SCHEMA_PUSH" => f.key # brg'.s.key
      <3>1. \A f \in Frames(up) : f.type = "SCHEMA_PUSH" => f.key[2] > 0
        BY DEF KeysOK
      <3> QED BY <1>1, <2>1, <3>1
    <2>4. \A d : Upto(brg'.s, d)
      BY <2>1 DEF Upto, NoSession, NoSchema
    <2> QED BY <2>2, <2>3, <2>4 DEF SchemaOK, PushFine
  <1> QED BY <1>3, <1>4, <1>5 DEF BridgeMoves, BridgeActs

-----------------------------------------------------------------------------
(* Commands.  A number stands for one command, on its way or kept for a    *)
(* retry, and one that was carried out is not newer than the last one of   *)
(* its entity.                                                             *)

Ordered ==
    {<<f.id, f.entity, f.tx>> : f \in {g \in Frames(down) : g.type = "COMMAND"}}
    \cup {<<c.id, c.entity, c.base>> : c \in Frames(brg.cmds)}

CommandsOK ==
    /\ \A p, q \in Ordered : p[1] = q[1] => p = q
    /\ \A p \in Ordered : p[1] \in 1 .. hist.issued
    /\ \A p \in Ordered : p[1] \in Frames(hist.applied) => p[3] <= leaf.cmd[p[2]]
    /\ Frames(hist.applied) \subseteq 1 .. hist.issued
    /\ \A i, j \in 1 .. Len(hist.applied) : hist.applied[i] = hist.applied[j] => i = j

LEMMA OrderedTypes ==
    ASSUME Typed
    PROVE  Ordered \subseteq Positive \X Entities \X Nat
PROOF
  <1>1. \A f \in Frames(down) : f.type = "COMMAND" =>
           f.id \in Positive /\ f.entity \in Entities /\ f.tx \in Nat
    BY DEF Typed, AirOK, DownT
  <1>2. \A c \in Frames(brg.cmds) : c.id \in Positive /\ c.entity \in Entities /\ c.base \in Nat
    BY DEF Typed, BridgeT, Queued, CommandT
  <1> QED BY <1>1, <1>2 DEF Ordered

LEMMA OrderedShrinks ==
    ASSUME Frames(down') \subseteq Frames(down), brg' = brg
    PROVE  Ordered' \subseteq Ordered
  BY DEF Ordered

\* A queue that has no member twice, and one member more.
LEMMA AppendOnce ==
    ASSUME NEW q, IsQueue(q), NEW x, x \notin Frames(q),
           \A i, j \in 1 .. Len(q) : q[i] = q[j] => i = j
    PROVE  LET r == Append(q, x)
           IN  \A i, j \in 1 .. Len(r) : r[i] = r[j] => i = j
PROOF
  <1>1. PICK r : r = Append(q, x)
    OBVIOUS
  <1>2. /\ Len(q) \in Nat /\ Len(r) = Len(q) + 1 /\ r[Len(q) + 1] = x
        /\ \A i \in 1 .. Len(q) : r[i] = q[i]
    BY <1>1 DEF IsQueue
  <1>3. \A i \in 1 .. Len(q) : q[i] # x
    BY DEF Frames
  <1>4. \A i \in 1 .. Len(r) : i \in 1 .. Len(q) \/ i = Len(q) + 1
    BY <1>2
  <1>5. \A i, j \in 1 .. Len(r) : r[i] = r[j] => i = j
    BY <1>2, <1>3, <1>4
  <1> QED BY <1>1, <1>5

LEMMA LeafCommands ==
    ASSUME Typed, LeafMoves, CommandsOK
    PROVE  CommandsOK'
PROOF
  <1>1. Ordered' \subseteq Ordered /\ hist'.issued = hist.issued
    BY OrderedShrinks DEF LeafMoves, Records
  <1>2. /\ \A p, q \in Ordered' : p[1] = q[1] => p = q
        /\ \A p \in Ordered' : p[1] \in 1 .. hist'.issued
    BY <1>1 DEF CommandsOK
  <1>3. CASE hist'.applied = <<>>
    <2>1. Frames(hist'.applied) = {} /\ Len(hist'.applied) = 0
      BY <1>3, EmptyQueue
    <2> QED BY <1>2, <2>1 DEF CommandsOK
  <1>4. \A p \in Ordered : p[2] \in Entities /\ p[3] \in Nat
    BY OrderedTypes
  <1>5. \A e \in Entities : leaf.cmd[e] \in Nat /\ leaf'.cmd[e] \in Nat
    BY LeafTyped DEF Typed, LeafOK, LeafT, Shaped, Holding
  <1>6. CASE Remembers /\ hist'.applied = hist.applied
    <2>1. \A p \in Ordered' : p[1] \in Frames(hist'.applied) => p[3] <= leaf'.cmd[p[2]]
      <3>1. SUFFICES ASSUME NEW p \in Ordered', p[1] \in Frames(hist'.applied)
                     PROVE  p[3] <= leaf'.cmd[p[2]]
        OBVIOUS
      <3>2. p[2] \in Entities /\ p[3] \in Nat /\ p[3] <= leaf.cmd[p[2]]
        BY <1>1, <1>4, <1>6, <3>1 DEF CommandsOK
      <3>3. leaf'.cmd[p[2]] >= leaf.cmd[p[2]]
        BY <1>6, <3>2 DEF Remembers
      <3> QED BY <1>5, <3>2, <3>3
    <2> QED BY <1>1, <1>2, <1>6, <2>1 DEF CommandsOK
  <1>7. CASE Remembers /\ \E f \in Frames(down) : Applies(f)
    <2>1. PICK f \in Frames(down) : Applies(f)
      BY <1>7
    <2>2. PICK t : t = <<f.id, f.entity, f.tx>>
      OBVIOUS
    <2>3. t \in Ordered
      BY <2>1, <2>2 DEF Ordered, Applies
    <2>4. f.id \notin Frames(hist.applied)
      <3>1. f.id \in Frames(hist.applied) => f.tx <= leaf.cmd[f.entity]
        BY <2>2, <2>3 DEF CommandsOK
      <3>2. f.tx > leaf.cmd[f.entity] /\ f.tx \in Nat /\ leaf.cmd[f.entity] \in Nat
        BY <1>4, <1>5, <2>1, <2>2, <2>3 DEF Applies
      <3> QED BY <3>1, <3>2
    <2>5. /\ hist'.applied = Append(hist.applied, f.id)
          /\ Frames(hist'.applied) = Frames(hist.applied) \cup {f.id}
      BY <2>1, AppendToQueue DEF Applies, Typed, HistT
    <2>6. \A p \in Ordered' : p[1] \in Frames(hist'.applied) => p[3] <= leaf'.cmd[p[2]]
      <3>1. SUFFICES ASSUME NEW p \in Ordered', p[1] \in Frames(hist'.applied)
                     PROVE  p[3] <= leaf'.cmd[p[2]]
        OBVIOUS
      <3>2. p \in Ordered /\ p[2] \in Entities /\ p[3] \in Nat
        BY <1>1, <1>4, <3>1
      <3>3. CASE p[1] \in Frames(hist.applied)
        <4>1. p[3] <= leaf.cmd[p[2]]
          BY <3>2, <3>3 DEF CommandsOK
        <4>2. leaf'.cmd[p[2]] >= leaf.cmd[p[2]]
          BY <1>7, <3>2 DEF Remembers
        <4> QED BY <1>5, <3>2, <4>1, <4>2
      <3>4. CASE p[1] = f.id
        <4>1. p = t
          BY <2>2, <2>3, <3>2, <3>4 DEF CommandsOK
        <4>2. p[2] = f.entity /\ p[3] = f.tx
          BY <2>2, <4>1
        <4>3. leaf'.cmd[f.entity] = f.tx
          BY <2>1 DEF Applies
        <4> QED BY <3>2, <4>2, <4>3
      <3> QED BY <2>5, <3>1, <3>3, <3>4
    <2>7. Frames(hist'.applied) \subseteq 1 .. hist'.issued
      <3>1. f.id \in 1 .. hist.issued
        BY <2>2, <2>3 DEF CommandsOK
      <3> QED BY <1>1, <2>5, <3>1 DEF CommandsOK
    <2>8. \A i, j \in 1 .. Len(hist'.applied) : hist'.applied[i] = hist'.applied[j] => i = j
      BY <2>4, <2>5, AppendOnce DEF Typed, HistT, CommandsOK
    <2> QED BY <1>2, <2>6, <2>7, <2>8 DEF CommandsOK
  <1> QED BY <1>3, <1>6, <1>7 DEF LeafMoves, Records

\* A command on its way or kept after a step was so before, or is one that is new.
LEMMA BridgeOrdered ==
    ASSUME Typed, BridgeMoves
    PROVE  \E t : /\ Ordered' \subseteq Ordered \cup {t}
                  /\ \/ hist'.issued = hist.issued /\ Ordered' \subseteq Ordered
                     \/ hist'.issued = hist.issued + 1 /\ t[1] = hist.issued + 1
PROOF
  <1>1. \A f \in Frames(down') : f.type = "COMMAND" =>
           f \in Frames(down) \/ \E c \in Frames(brg'.cmds) : c.id = f.id /\ c.entity = f.entity /\ c.base = f.tx
    BY DEF BridgeMoves, BridgeActs, Spoke, Says
  <1>2. \A p \in Ordered' : p \in Ordered \/ \E c \in Frames(brg'.cmds) : p = <<c.id, c.entity, c.base>>
    <2>1. SUFFICES ASSUME NEW p \in Ordered'
                   PROVE  p \in Ordered \/ \E c \in Frames(brg'.cmds) : p = <<c.id, c.entity, c.base>>
      OBVIOUS
    <2>2. CASE \E f \in Frames(down') : f.type = "COMMAND" /\ p = <<f.id, f.entity, f.tx>>
      BY <1>1, <2>2 DEF Ordered
    <2>3. CASE \E c \in Frames(brg'.cmds) : p = <<c.id, c.entity, c.base>>
      BY <2>3
    <2> QED BY <2>1, <2>2, <2>3 DEF Ordered
  <1>3. \A c \in Frames(brg'.cmds), d \in Frames(brg.cmds) :
           SameCommand(c, d) => <<c.id, c.entity, c.base>> \in Ordered
    BY DEF SameCommand, Ordered
  <1>4. CASE hist'.issued = hist.issued /\ OldCommands(brg')
    BY <1>2, <1>3, <1>4 DEF OldCommands
  <1>5. CASE /\ hist'.issued = hist.issued + 1
             /\ \E k : /\ k.id = hist.issued + 1
                       /\ \A c \in Frames(brg'.cmds) :
                             SameCommand(c, k) \/ \E d \in Frames(brg.cmds) : SameCommand(c, d)
    <2>1. PICK k : /\ k.id = hist.issued + 1
                   /\ \A c \in Frames(brg'.cmds) :
                         SameCommand(c, k) \/ \E d \in Frames(brg.cmds) : SameCommand(c, d)
      BY <1>5
    <2>2. PICK t : t = <<k.id, k.entity, k.base>>
      OBVIOUS
    <2>3. \A c : SameCommand(c, k) => <<c.id, c.entity, c.base>> = t
      BY <2>2 DEF SameCommand
    <2>4. Ordered' \subseteq Ordered \cup {t}
      BY <1>2, <1>3, <2>1, <2>3
    <2> QED BY <1>5, <2>1, <2>2, <2>4
  <1> QED BY <1>4, <1>5 DEF BridgeMoves, Commanded

LEMMA BridgeCommands ==
    ASSUME Typed, BridgeMoves, CommandsOK
    PROVE  CommandsOK'
PROOF
  <1>1. PICK t : /\ Ordered' \subseteq Ordered \cup {t}
                 /\ \/ hist'.issued = hist.issued /\ Ordered' \subseteq Ordered
                    \/ hist'.issued = hist.issued + 1 /\ t[1] = hist.issued + 1
    BY BridgeOrdered
  <1>2. leaf' = leaf /\ hist'.applied = hist.applied
    BY DEF BridgeMoves, Commanded
  <1>3. hist.issued \in Nat
    BY TypedNumbers
  <1>4. CASE hist'.issued = hist.issued /\ Ordered' \subseteq Ordered
    BY <1>2, <1>4 DEF CommandsOK
  <1>5. CASE hist'.issued = hist.issued + 1 /\ t[1] = hist.issued + 1
    <2>1. \A n \in 1 .. hist.issued : n \in 1 .. hist'.issued /\ n # t[1]
      BY <1>3, <1>5
    <2>2. t[1] \in 1 .. hist'.issued
      BY <1>3, <1>5
    <2>3. \A p \in Ordered : p[1] # t[1]
      BY <2>1 DEF CommandsOK
    <2>4. t[1] \notin Frames(hist.applied)
      BY <2>1 DEF CommandsOK
    <2>5. \A p, q \in Ordered' : p[1] = q[1] => p = q
      BY <1>1, <2>3 DEF CommandsOK
    <2>6. \A p \in Ordered' : p[1] \in 1 .. hist'.issued
      BY <1>1, <2>1, <2>2 DEF CommandsOK
    <2>7. \A p \in Ordered' : p[1] \in Frames(hist'.applied) => p[3] <= leaf'.cmd[p[2]]
      BY <1>1, <1>2, <2>4 DEF CommandsOK
    <2>8. Frames(hist'.applied) \subseteq 1 .. hist'.issued
      BY <1>2, <2>1 DEF CommandsOK
    <2> QED BY <1>2, <2>5, <2>6, <2>7, <2>8 DEF CommandsOK
  <1> QED BY <1>1, <1>4, <1>5

-----------------------------------------------------------------------------
(* States, while nobody defers their acks.                                 *)

States == {f \in Frames(up) : f.type = "STATE"}
Acks == {f \in Frames(down) : f.type = "ACK"}

\* Nothing published or on its way is ahead of the entity, or of the counter.
ValuesOK ==
    /\ \A e \in Entities : brg.pub[e] <= leaf.val[e]
    /\ \A f \in States : f.value <= leaf.val[f.entity]
    /\ \A f \in States : f.key[2] = leaf.nonce => f.tx < leaf.tx
    /\ brg.s.key[2] = leaf.nonce => brg.s.lastState < leaf.tx
    /\ leaf.waiting =>
         leaf.base > 0 /\ leaf.base < leaf.tx /\ leaf.pval <= leaf.val[leaf.field]

\* The STATE waited for is the newest of its entity, and of two STATEs the
\* later one has the newer value.
OrderOK ==
    /\ leaf.waiting =>
         /\ brg.pub[leaf.field] <= leaf.pval
         /\ \A f \in States : f.entity = leaf.field => f.value <= leaf.pval
         /\ \A f \in States : f.key[2] = leaf.nonce /\ f.tx = leaf.base =>
               f.entity = leaf.field /\ f.value = leaf.pval
    /\ \A f, g \in States :
          f.key[2] = g.key[2] /\ f.entity = g.entity /\ f.tx > g.tx => f.value >= g.value
    /\ \A f \in States : f.key = brg.s.key /\ f.tx > brg.s.lastState => f.value >= brg.pub[f.entity]

\* An ack is of a STATE that was published.
AcksOK ==
    /\ \A e \in Entities : hist.acked[e] <= brg.pub[e]
    /\ \A f \in Acks : f.key[2] = leaf.nonce =>
          /\ f.ref < leaf.tx
          /\ leaf.waiting /\ f.ref = leaf.base => brg.pub[leaf.field] >= leaf.pval
    /\ brg.s.key[2] = leaf.nonce /\ leaf.waiting /\ brg.s.lastState = leaf.base =>
          brg.pub[leaf.field] >= leaf.pval

StatesOK == brg.deliveries = {} /\ ValuesOK /\ OrderOK /\ AcksOK

LEMMA StateTypes ==
    ASSUME Typed
    PROVE  /\ \A f \in States : /\ f.key \in Key /\ f.key[1] \in Nat /\ f.key[2] \in Nat
                                /\ f.tx \in Nat /\ f.entity \in Entities /\ f.value \in Nat
           /\ \A f \in Acks : f.key[2] \in Nat /\ f.ref \in Nat
           /\ leaf.field \in Entities /\ leaf.pval \in Nat /\ leaf.base \in Nat
           /\ leaf.tx \in Nat /\ leaf.tx > 0 /\ leaf.nonce \in Nat /\ leaf.nonce > 0
           /\ leaf.val \in [Entities -> Nat] /\ brg.pub \in [Entities -> Nat]
           /\ hist.acked \in [Entities -> Nat]
           /\ brg.s.lastState \in Nat
PROOF
  <1>1. \A f \in States : f.key \in Key /\ f.key[1] \in Nat /\ f.key[2] \in Nat /\ f.tx \in Nat
    BY TypedNumbers DEF States
  <1>2. \A f \in States : f.entity \in Entities /\ f.value \in Nat
    BY DEF States, Typed, AirOK, UpT
  <1>3. \A f \in Acks : f.key[2] \in Nat /\ f.ref \in Nat
    BY TypedNumbers DEF Acks
  <1>4. leaf.field \in Entities /\ leaf.pval \in Nat /\ leaf.base \in Nat
    BY DEF Typed, LeafOK, LeafT, Shaped, Pending
  <1>5. leaf.val \in [Entities -> Nat]
    BY DEF Typed, LeafOK, LeafT, Shaped, Holding, Positive
  <1>6. brg.pub \in [Entities -> Nat] /\ hist.acked \in [Entities -> Nat]
    BY DEF Typed, BridgeT, Kept, HistT
  <1> QED BY <1>1, <1>2, <1>3, <1>4, <1>5, <1>6, TypedNumbers

LEMMA GrowsFacts ==
    ASSUME NEW v \in [Entities -> Nat], NEW w, Grows(v, w)
    PROVE  \A e \in Entities : w[e] >= v[e]
  BY DEF Grows

\* What is on its way to the bridge and what the leaf waits for, after a step
\* in which its session went on.
LEMMA WaitFacts ==
    ASSUME Typed, LeafMoves, KeysOK, StatesOK, GoesOn(leaf, leaf')
    PROVE  /\ leaf'.nonce = leaf.nonce /\ leaf'.tx \in Nat /\ leaf'.tx >= leaf.tx
           /\ leaf'.field \in Entities /\ leaf'.pval \in Nat /\ leaf'.base \in Nat
           /\ \A e \in Entities : leaf'.val[e] \in Nat /\ leaf'.val[e] >= leaf.val[e]
           /\ leaf'.waiting =>
                \/ leaf.waiting /\ SameTraffic(leaf, leaf')
                \/ /\ leaf'.base >= leaf.tx /\ leaf'.base < leaf'.tx
                   /\ \/ leaf'.pval = leaf.val[leaf'.field]
                      \/ leaf.waiting /\ leaf'.field = leaf.field /\ leaf'.pval = leaf.pval
           /\ \A f \in States' : f \in States \/
                 /\ f.key[2] = leaf.nonce /\ f.tx = leaf'.base
                 /\ leaf'.waiting /\ leaf'.base >= leaf.tx /\ leaf'.base < leaf'.tx
                 /\ f.entity = leaf'.field /\ f.value = leaf'.pval
PROOF
  <1>1. Typed'
    BY LeafTyped
  <1>2. /\ leaf'.field \in Entities /\ leaf'.pval \in Nat /\ leaf'.base \in Nat
        /\ leaf'.tx \in Nat /\ leaf'.nonce = leaf.nonce /\ leaf'.tx >= leaf.tx
    <2>1. leaf'.field \in Entities /\ leaf'.pval \in Nat /\ leaf'.base \in Nat /\ leaf'.tx \in Nat
      BY <1>1 DEF Typed, LeafOK, LeafT, Shaped, Pending, Numbered, Positive
    <2> QED BY <2>1 DEF GoesOn
  <1>3. \A e \in Entities : leaf'.val[e] \in Nat /\ leaf'.val[e] >= leaf.val[e]
    <2>1. leaf'.val \in [Entities -> Nat] /\ leaf.val \in [Entities -> Nat]
      BY <1>1 DEF Typed, LeafOK, LeafT, Shaped, Holding, Positive
    <2>2. Grows(leaf.val, leaf'.val)
      BY DEF GoesOn
    <2>3. \A e \in Entities : leaf'.val[e] >= leaf.val[e]
      BY <2>1, <2>2, GrowsFacts
    <2> QED BY <2>1, <2>3
  <1>4. leaf'.waiting =>
           \/ leaf.waiting /\ SameTraffic(leaf, leaf')
           \/ /\ leaf'.base >= leaf.tx /\ leaf'.base < leaf'.tx
              /\ \/ leaf'.pval = leaf.val[leaf'.field]
                 \/ leaf.waiting /\ leaf'.field = leaf.field /\ leaf'.pval = leaf.pval
    BY DEF GoesOn, WaitsOn
  <1>5. ASSUME NEW f \in States', f \notin States
        PROVE  /\ f.key[2] = leaf.nonce /\ f.tx = leaf'.base
               /\ leaf'.waiting /\ leaf'.base >= leaf.tx /\ leaf'.base < leaf'.tx
               /\ f.entity = leaf'.field /\ f.value = leaf'.pval
    <2>1. f \in Frames(up') /\ f.type = "STATE" /\ f \notin Frames(up)
      BY <1>5 DEF States
    <2>2. Awaited(f)
      BY <2>1 DEF LeafMoves, LeafStep, MaySend
    <2>3. f.key[2] = leaf.nonce /\ leaf'.waiting /\ f.tx = leaf'.base /\ f.tx >= leaf.tx
      BY <2>2 DEF Awaited, KeysOK
    <2>4. ~SameTraffic(leaf, leaf') \/ ~leaf.waiting
      <3>1. SUFFICES ASSUME leaf.waiting, SameTraffic(leaf, leaf') PROVE FALSE
        OBVIOUS
      <3>2. leaf.base < leaf.tx /\ leaf'.base = leaf.base /\ leaf.base \in Nat /\ leaf.tx \in Nat
        BY <3>1, StateTypes DEF StatesOK, ValuesOK, SameTraffic
      <3> QED BY <2>3, <3>2
    <2> QED BY <1>4, <2>2, <2>3, <2>4 DEF Awaited
  <1> QED BY <1>2, <1>3, <1>4, <1>5

\* The value waited for is no older than any that is published or on its way.
LEMMA WaitNewest ==
    ASSUME Typed, LeafMoves, KeysOK, StatesOK, GoesOn(leaf, leaf'), leaf'.waiting
    PROVE  /\ leaf'.base > 0 /\ leaf'.base < leaf'.tx
           /\ leaf'.pval <= leaf'.val[leaf'.field]
           /\ brg.pub[leaf'.field] <= leaf'.pval
           /\ \A f \in States : f.entity = leaf'.field => f.value <= leaf'.pval
PROOF
  <1>1. leaf'.base > 0 /\ leaf'.base < leaf'.tx
    <2>1. CASE leaf.waiting /\ SameTraffic(leaf, leaf')
      <3>1. leaf'.base = leaf.base /\ leaf.base > 0 /\ leaf.base < leaf.tx
        BY <2>1 DEF SameTraffic, StatesOK, ValuesOK
      <3> QED BY <3>1, WaitFacts, StateTypes
    <2>2. CASE leaf'.base >= leaf.tx /\ leaf'.base < leaf'.tx
      BY <2>2, WaitFacts, StateTypes
    <2> QED BY <2>1, <2>2, WaitFacts
  <1>2. \/ leaf.waiting /\ leaf'.field = leaf.field /\ leaf'.pval = leaf.pval
        \/ leaf'.pval = leaf.val[leaf'.field]
    BY WaitFacts DEF SameTraffic
  <1>3. CASE leaf.waiting /\ leaf'.field = leaf.field /\ leaf'.pval = leaf.pval
    <2>1. leaf.pval <= leaf.val[leaf.field] /\ leaf.val[leaf.field] \in Nat /\ leaf.pval \in Nat
      BY <1>3, StateTypes DEF StatesOK, ValuesOK
    <2>2. leaf'.val[leaf.field] \in Nat /\ leaf'.val[leaf.field] >= leaf.val[leaf.field]
      BY WaitFacts, StateTypes
    <2>3. leaf'.pval <= leaf'.val[leaf'.field]
      BY <1>3, <2>1, <2>2
    <2>4. /\ brg.pub[leaf'.field] <= leaf'.pval
          /\ \A f \in States : f.entity = leaf'.field => f.value <= leaf'.pval
      BY <1>3 DEF StatesOK, OrderOK
    <2> QED BY <1>1, <2>3, <2>4
  <1>4. CASE leaf'.pval = leaf.val[leaf'.field]
    <2>1. leaf'.pval <= leaf'.val[leaf'.field]
      BY <1>4, WaitFacts, StateTypes
    <2>2. /\ brg.pub[leaf'.field] <= leaf'.pval
          /\ \A f \in States : f.entity = leaf'.field => f.value <= leaf'.pval
      BY <1>4, WaitFacts DEF StatesOK, ValuesOK
    <2> QED BY <1>1, <2>1, <2>2
  <1> QED BY <1>2, <1>3, <1>4

LEMMA LeafValues ==
    ASSUME Typed, LeafMoves, KeysOK, StatesOK, GoesOn(leaf, leaf')
    PROVE  ValuesOK'
PROOF
  <1>0. brg' = brg
    BY DEF LeafMoves
  <1>1. \A e \in Entities : brg.pub[e] \in Nat /\ leaf.val[e] \in Nat
    BY StateTypes
  <1>2. \A e \in Entities : brg'.pub[e] <= leaf'.val[e]
    BY <1>0, <1>1, WaitFacts DEF StatesOK, ValuesOK
  <1>3. \A f \in States' : f.value <= leaf'.val[f.entity]
    <2>1. \A f \in States : f.value <= leaf.val[f.entity] /\ f.value \in Nat /\ f.entity \in Entities
      BY StateTypes DEF StatesOK, ValuesOK
    <2>2. \A f \in States : f.value <= leaf'.val[f.entity]
      BY <1>1, <2>1, WaitFacts
    <2>3. \A f \in States' : f \in States \/
             (leaf'.waiting /\ f.entity = leaf'.field /\ f.value = leaf'.pval)
      BY WaitFacts
    <2> QED BY <2>2, <2>3, WaitNewest
  <1>4. \A f \in States' : f.key[2] = leaf'.nonce => f.tx < leaf'.tx
    <2>1. \A f \in States : f.key[2] = leaf'.nonce => f.tx < leaf'.tx
      BY WaitFacts, StateTypes DEF StatesOK, ValuesOK
    <2>2. \A f \in States' : f \in States \/ (f.tx = leaf'.base /\ leaf'.base < leaf'.tx)
      BY WaitFacts
    <2> QED BY <2>1, <2>2
  <1>5. brg'.s.key[2] = leaf'.nonce => brg'.s.lastState < leaf'.tx
    BY <1>0, WaitFacts, StateTypes DEF StatesOK, ValuesOK
  <1>6. leaf'.waiting =>
           leaf'.base > 0 /\ leaf'.base < leaf'.tx /\ leaf'.pval <= leaf'.val[leaf'.field]
    BY WaitNewest
  <1> QED BY <1>2, <1>3, <1>4, <1>5, <1>6 DEF ValuesOK

LEMMA LeafOrder ==
    ASSUME Typed, LeafMoves, KeysOK, StatesOK, GoesOn(leaf, leaf')
    PROVE  OrderOK'
PROOF
  <1>0. brg' = brg
    BY DEF LeafMoves
  <1>1. \A f \in States : f.tx \in Nat /\ f.value \in Nat
    BY StateTypes
  <1>2. \A f \in States' : f \in States \/
           /\ f.key[2] = leaf.nonce /\ f.tx = leaf'.base
           /\ leaf'.waiting /\ leaf'.base >= leaf.tx /\ leaf'.base < leaf'.tx
           /\ f.entity = leaf'.field /\ f.value = leaf'.pval
    BY WaitFacts
  <1>3. \A f \in States : f.key[2] = leaf.nonce => f.tx < leaf.tx
    BY DEF StatesOK, ValuesOK
  <1>4. leaf'.waiting =>
           /\ brg'.pub[leaf'.field] <= leaf'.pval
           /\ \A f \in States' : f.entity = leaf'.field => f.value <= leaf'.pval
    <2>1. SUFFICES ASSUME leaf'.waiting
                   PROVE  /\ brg'.pub[leaf'.field] <= leaf'.pval
                          /\ \A f \in States' : f.entity = leaf'.field => f.value <= leaf'.pval
      OBVIOUS
    <2>2. /\ brg'.pub[leaf'.field] <= leaf'.pval
          /\ \A f \in States : f.entity = leaf'.field => f.value <= leaf'.pval
      BY <1>0, <2>1, WaitNewest
    <2>3. leaf'.pval <= leaf'.pval
      BY WaitFacts
    <2>4. \A f \in States' : f \in States \/ f.value = leaf'.pval
      BY <1>2
    <2> QED BY <2>2, <2>3, <2>4
  <1>5. leaf'.waiting =>
           \A f \in States' : f.key[2] = leaf'.nonce /\ f.tx = leaf'.base =>
              f.entity = leaf'.field /\ f.value = leaf'.pval
    <2>1. SUFFICES ASSUME leaf'.waiting, NEW f \in States', f.key[2] = leaf'.nonce, f.tx = leaf'.base
                   PROVE  f.entity = leaf'.field /\ f.value = leaf'.pval
      OBVIOUS
    <2>2. CASE f \in States
      <3>1. f.tx < leaf.tx /\ f.tx \in Nat /\ leaf.tx \in Nat
        BY <1>1, <1>3, <2>1, <2>2, WaitFacts, StateTypes
      <3>2. leaf.waiting /\ SameTraffic(leaf, leaf')
        BY <2>1, <3>1, WaitFacts
      <3> QED BY <2>1, <2>2, <3>2, WaitFacts DEF SameTraffic, StatesOK, OrderOK
    <2> QED BY <1>2, <2>2
  <1>6. \A f, g \in States' :
           f.key[2] = g.key[2] /\ f.entity = g.entity /\ f.tx > g.tx => f.value >= g.value
    <2>1. SUFFICES ASSUME NEW f \in States', NEW g \in States',
                          f.key[2] = g.key[2], f.entity = g.entity, f.tx > g.tx
                   PROVE  f.value >= g.value
      OBVIOUS
    <2>2. CASE f \in States /\ g \in States
      BY <2>1, <2>2 DEF StatesOK, OrderOK
    <2>3. CASE f \notin States /\ g \in States
      <3>1. leaf'.waiting /\ f.entity = leaf'.field /\ f.value = leaf'.pval
        BY <1>2, <2>3
      <3>2. g.value <= leaf'.pval
        BY <2>1, <2>3, <3>1, WaitNewest
      <3> QED BY <1>1, <2>3, <3>1, <3>2, WaitFacts
    <2>4. CASE f \in States /\ g \notin States
      <3>1. g.key[2] = leaf.nonce /\ g.tx >= leaf.tx
        BY <1>2, <2>4
      <3>2. f.tx < leaf.tx
        BY <1>3, <2>1, <2>4, <3>1
      <3>3. g.tx \in Nat /\ f.tx \in Nat /\ leaf.tx \in Nat
        BY <1>1, <1>2, <2>4, WaitFacts, StateTypes
      <3> QED BY <2>1, <3>1, <3>2, <3>3
    <2>5. CASE f \notin States /\ g \notin States
      <3>1. f.tx = leaf'.base /\ g.tx = leaf'.base /\ leaf'.base \in Nat
        BY <1>2, <2>5, WaitFacts
      <3> QED BY <2>1, <3>1
    <2> QED BY <2>2, <2>3, <2>4, <2>5
  <1>7. \A f \in States' : f.key = brg'.s.key /\ f.tx > brg'.s.lastState =>
           f.value >= brg'.pub[f.entity]
    <2>1. SUFFICES ASSUME NEW f \in States', f.key = brg'.s.key, f.tx > brg'.s.lastState
                   PROVE  f.value >= brg'.pub[f.entity]
      OBVIOUS
    <2>2. CASE f \in States
      BY <1>0, <2>1, <2>2 DEF StatesOK, OrderOK
    <2>3. CASE f \notin States
      <3>1. leaf'.waiting /\ f.entity = leaf'.field /\ f.value = leaf'.pval
        BY <1>2, <2>3
      <3>2. brg'.pub[leaf'.field] <= leaf'.pval
        BY <1>4, <3>1
      <3>3. brg'.pub[leaf'.field] \in Nat /\ leaf'.pval \in Nat
        BY <1>0, WaitFacts, StateTypes
      <3> QED BY <3>1, <3>2, <3>3
    <2> QED BY <2>2, <2>3
  <1> QED BY <1>4, <1>5, <1>6, <1>7 DEF OrderOK

\* What the leaf counts as acknowledged was published.
LEMMA LeafAcked ==
    ASSUME Typed, LeafMoves, KeysOK, StatesOK
    PROVE  \A e \in Entities : hist'.acked[e] <= brg'.pub[e]
PROOF
  <1>0. brg' = brg
    BY DEF LeafMoves
  <1>1. CASE hist'.acked = hist.acked
    BY <1>0, <1>1 DEF StatesOK, AcksOK
  <1>2. CASE \E f \in Frames(down) : Confirms(f)
    <2>1. PICK f \in Frames(down) : Confirms(f)
      BY <1>2
    <2>2. /\ f \in Acks /\ f.key = leaf.key /\ leaf.joined /\ leaf.waiting /\ f.ref = leaf.base
          /\ hist'.acked = [hist.acked EXCEPT ![leaf.field] = leaf.pval]
      BY <2>1 DEF Confirms, Acks
    <2>3. f.key[2] = leaf.nonce
      BY <2>2 DEF KeysOK
    <2>4. leaf.pval <= brg.pub[leaf.field]
      BY <2>2, <2>3, StateTypes DEF StatesOK, AcksOK
    <2>5. \A e \in Entities : hist.acked[e] <= brg.pub[e]
      BY DEF StatesOK, AcksOK
    <2>6. hist.acked \in [Entities -> Nat]
      BY StateTypes
    <2> QED BY <1>0, <2>2, <2>4, <2>5, <2>6
  <1> QED BY <1>1, <1>2 DEF LeafMoves, Records

LEMMA LeafAcks ==
    ASSUME Typed, LeafMoves, KeysOK, StatesOK, GoesOn(leaf, leaf')
    PROVE  AcksOK'
PROOF
  <1>0. brg' = brg /\ Acks' \subseteq Acks
    BY DEF LeafMoves, Acks
  <1>1. \A f \in Acks : f.key[2] = leaf.nonce => f.ref < leaf.tx /\ f.ref \in Nat
    BY StateTypes DEF StatesOK, AcksOK
  <1>2. leaf'.waiting =>
           \/ leaf'.base >= leaf.tx
           \/ leaf.waiting /\ leaf'.base = leaf.base /\ leaf'.field = leaf.field /\ leaf'.pval = leaf.pval
    BY WaitFacts DEF SameTraffic
  <1>3. \A f \in Acks' : f.key[2] = leaf'.nonce =>
           /\ f.ref < leaf'.tx
           /\ leaf'.waiting /\ f.ref = leaf'.base => brg'.pub[leaf'.field] >= leaf'.pval
    <2>1. SUFFICES ASSUME NEW f \in Acks, f.key[2] = leaf.nonce
                   PROVE  /\ f.ref < leaf'.tx
                          /\ leaf'.waiting /\ f.ref = leaf'.base => brg.pub[leaf'.field] >= leaf'.pval
      BY <1>0, WaitFacts
    <2>2. f.ref < leaf.tx /\ f.ref \in Nat
      BY <1>1, <2>1
    <2>3. f.ref < leaf'.tx
      BY <2>2, WaitFacts, StateTypes
    <2>4. ASSUME leaf'.waiting, f.ref = leaf'.base
          PROVE  brg.pub[leaf'.field] >= leaf'.pval
      <3>1. ~(leaf'.base >= leaf.tx)
        BY <2>2, <2>4, StateTypes
      <3>2. leaf.waiting /\ leaf'.base = leaf.base /\ leaf'.field = leaf.field /\ leaf'.pval = leaf.pval
        BY <1>2, <2>4, <3>1
      <3> QED BY <2>1, <2>4, <3>2 DEF StatesOK, AcksOK
    <2> QED BY <2>3, <2>4
  <1>4. ASSUME brg'.s.key[2] = leaf'.nonce, leaf'.waiting, brg'.s.lastState = leaf'.base
        PROVE  brg'.pub[leaf'.field] >= leaf'.pval
    <2>1. brg.s.key[2] = leaf.nonce /\ brg.s.lastState < leaf.tx
      BY <1>0, <1>4, WaitFacts DEF StatesOK, ValuesOK
    <2>2. ~(leaf'.base >= leaf.tx)
      BY <1>0, <1>4, <2>1, StateTypes
    <2>3. leaf.waiting /\ leaf'.base = leaf.base /\ leaf'.field = leaf.field /\ leaf'.pval = leaf.pval
      BY <1>2, <1>4, <2>2
    <2> QED BY <1>0, <1>4, <2>1, <2>3 DEF StatesOK, AcksOK
  <1> QED BY <1>3, <1>4, LeafAcked DEF AcksOK

\* A leaf that starts over has a nonce no STATE and no ack is of.
LEMMA LeafRenewed ==
    ASSUME Typed, LeafMoves, KeysOK, StatesOK, StartsOver(leaf, leaf')
    PROVE  StatesOK'
PROOF
  <1>1. /\ brg' = brg /\ Acks' \subseteq Acks /\ ~leaf'.waiting /\ leaf'.val = leaf.val
        /\ leaf'.nonce > leaf.nonce /\ leaf'.nonce \in Nat
    <2>1. leaf'.nonce \in Nat
      BY LeafTyped DEF Typed, LeafOK, LeafT, Shaped, Numbered, Positive
    <2> QED BY <2>1 DEF LeafMoves, Acks, StartsOver
  <1>2. States' \subseteq States
    BY <1>1 DEF States, LeafMoves, LeafStep, MaySend, Awaited
  <1>3. \A f \in States : f.key[2] # leaf'.nonce
    BY <1>1, TypedNumbers DEF KeysOK, States
  <1>4. \A f \in Acks : f.key[2] # leaf'.nonce
    BY <1>1, TypedNumbers DEF KeysOK, Acks
  <1>5. brg'.s.key[2] # leaf'.nonce
    BY <1>1, TypedNumbers DEF KeysOK
  <1>6. ValuesOK'
    BY <1>1, <1>2, <1>3, <1>5 DEF StatesOK, ValuesOK
  <1>7. OrderOK'
    BY <1>1, <1>2 DEF StatesOK, OrderOK
  <1>8. AcksOK'
    BY <1>1, <1>4, <1>5, LeafAcked DEF AcksOK
  <1> QED BY <1>1, <1>6, <1>7, <1>8 DEF StatesOK

LEMMA LeafStates ==
    ASSUME Typed, LeafMoves, KeysOK, StatesOK
    PROVE  StatesOK'
PROOF
  <1>1. brg'.deliveries = {}
    BY DEF StatesOK, LeafMoves
  <1>2. CASE GoesOn(leaf, leaf')
    BY <1>1, <1>2, LeafValues, LeafOrder, LeafAcks DEF StatesOK
  <1>3. CASE StartsOver(leaf, leaf')
    BY <1>3, LeafRenewed
  <1> QED BY <1>2, <1>3 DEF LeafMoves, LeafStep

\* What the bridge has on its way after a step.
LEMMA BridgeAir ==
    ASSUME Typed, BridgeMoves, StatesOK, Sinks = FALSE
    PROVE  /\ leaf' = leaf /\ hist'.acked = hist.acked /\ States' \subseteq States
           /\ brg'.deliveries = {} /\ brg'.s.lastState \in Nat
           /\ \A f \in Acks' : f \in Acks \/ (f.key = brg'.s.key /\ f.ref = brg'.s.lastState)
           /\ \A e \in Entities : brg'.pub[e] \in Nat
PROOF
  <1>1. leaf' = leaf /\ hist'.acked = hist.acked /\ States' \subseteq States /\ brg'.deliveries = {}
    BY DEF BridgeMoves, BridgeActs, Commanded, StatesOK, States
  <1>2. brg'.s.lastState \in Nat /\ (\A e \in Entities : brg'.pub[e] \in Nat)
    BY DEF BridgeMoves, BridgeActs, BridgeT, SessionT, About, Kept
  <1>3. \A f \in Acks' : f \in Acks \/ (f.key = brg'.s.key /\ f.ref = brg'.s.lastState)
    BY DEF Acks, BridgeMoves, BridgeActs, Spoke, Says
  <1> QED BY <1>1, <1>2, <1>3

\* An ack is of the last STATE, which is no newer than the counter and, when
\* it is the one waited for, was published.
LEMMA BridgeAcks ==
    ASSUME Typed, BridgeMoves, StatesOK, Sinks = FALSE,
           \A e \in Entities : brg'.pub[e] >= brg.pub[e],
           brg'.s.key[2] = leaf.nonce => brg'.s.lastState < leaf.tx,
           brg'.s.key[2] = leaf.nonce /\ leaf.waiting /\ brg'.s.lastState = leaf.base =>
              brg'.pub[leaf.field] >= leaf.pval
    PROVE  AcksOK'
PROOF
  <1>1. leaf' = leaf /\ hist'.acked = hist.acked
    BY BridgeAir
  <1>2. \A e \in Entities : hist'.acked[e] <= brg'.pub[e]
    <2>1. \A e \in Entities :
             hist.acked[e] \in Nat /\ brg.pub[e] \in Nat /\ brg'.pub[e] \in Nat
      BY BridgeAir, StateTypes
    <2>2. \A e \in Entities : hist.acked[e] <= brg.pub[e]
      BY DEF StatesOK, AcksOK
    <2> QED BY <1>1, <2>1, <2>2
  <1>3. \A f \in Acks : f.key[2] = leaf.nonce =>
           /\ f.ref < leaf.tx
           /\ leaf.waiting /\ f.ref = leaf.base => brg'.pub[leaf.field] >= leaf.pval
    <2>1. leaf.field \in Entities /\ leaf.pval \in Nat
          /\ brg.pub[leaf.field] \in Nat /\ brg'.pub[leaf.field] \in Nat
      BY BridgeAir, StateTypes
    <2>2. brg.pub[leaf.field] >= leaf.pval => brg'.pub[leaf.field] >= leaf.pval
      BY <2>1
    <2> QED BY <2>2 DEF StatesOK, AcksOK
  <1>4. \A f \in Acks' : f.key[2] = leaf.nonce =>
           /\ f.ref < leaf.tx
           /\ leaf.waiting /\ f.ref = leaf.base => brg'.pub[leaf.field] >= leaf.pval
    BY <1>3, BridgeAir
  <1> QED BY <1>1, <1>2, <1>4 DEF AcksOK

LEMMA KeptStates ==
    ASSUME Typed, BridgeMoves, StatesOK, Sinks = FALSE, Proceeds(brg'), StatesKept(brg')
    PROVE  StatesOK'
PROOF
  <1>1. /\ leaf' = leaf /\ States' \subseteq States /\ brg'.deliveries = {}
        /\ brg'.pub = brg.pub /\ brg'.s.lastState = brg.s.lastState /\ brg'.s.key = brg.s.key
    BY BridgeAir DEF Proceeds, StatesKept
  <1>2. ValuesOK'
    BY <1>1 DEF StatesOK, ValuesOK
  <1>3. OrderOK'
    BY <1>1 DEF StatesOK, OrderOK
  <1>4. AcksOK'
    <2>1. \A e \in Entities : brg'.pub[e] >= brg.pub[e]
      BY <1>1, StateTypes
    <2> QED BY <1>1, <2>1, BridgeAcks DEF StatesOK, ValuesOK, AcksOK
  <1> QED BY <1>1, <1>2, <1>3, <1>4 DEF StatesOK

LEMMA PublishedStates ==
    ASSUME Typed, BridgeMoves, KeysOK, StatesOK, Sinks = FALSE, Proceeds(brg'),
           NEW f \in States, Publishes(f, brg')
    PROVE  StatesOK'
PROOF
  <1>1. /\ leaf' = leaf /\ States' \subseteq States /\ brg'.deliveries = {}
        /\ brg'.s.key = brg.s.key /\ f.key = brg.s.key /\ f.tx > brg.s.lastState
        /\ brg'.s.lastState = f.tx /\ brg'.pub = [brg.pub EXCEPT ![f.entity] = f.value]
    BY BridgeAir DEF Proceeds, Publishes
  <1>2. /\ f.tx \in Nat /\ f.entity \in Entities /\ f.value \in Nat /\ brg.s.lastState \in Nat
        /\ brg.pub \in [Entities -> Nat]
    BY StateTypes
  <1>3. /\ brg'.pub[f.entity] = f.value
        /\ \A e \in Entities : e # f.entity => brg'.pub[e] = brg.pub[e]
    BY <1>1, <1>2
  <1>4. f.value >= brg.pub[f.entity]
    BY <1>1 DEF StatesOK, OrderOK
  <1>5. \A e \in Entities : brg'.pub[e] >= brg.pub[e]
    BY <1>2, <1>3, <1>4
  <1>6. brg'.s.key[2] = leaf.nonce => brg'.s.lastState < leaf.tx
    BY <1>1 DEF StatesOK, ValuesOK
  <1>7. ValuesOK'
    <2>1. \A e \in Entities : brg'.pub[e] <= leaf'.val[e]
      BY <1>1, <1>3 DEF StatesOK, ValuesOK
    <2> QED BY <1>1, <1>6, <2>1 DEF StatesOK, ValuesOK
  <1>8. OrderOK'
    <2>1. leaf.waiting => brg'.pub[leaf.field] <= leaf.pval
      BY <1>3, StateTypes DEF StatesOK, OrderOK
    <2>2. \A g \in States : g.key = brg'.s.key /\ g.tx > brg'.s.lastState => g.value >= brg'.pub[g.entity]
      <3>1. SUFFICES ASSUME NEW g \in States, g.key = brg.s.key, g.tx > f.tx
                     PROVE  g.value >= brg'.pub[g.entity]
        BY <1>1
      <3>2. CASE g.entity = f.entity
        BY <1>1, <1>3, <3>1, <3>2 DEF StatesOK, OrderOK
      <3>3. CASE g.entity # f.entity
        <4>1. g.tx > brg.s.lastState /\ g.entity \in Entities
          BY <1>1, <1>2, <3>1, StateTypes
        <4> QED BY <1>3, <3>1, <3>3, <4>1 DEF StatesOK, OrderOK
      <3> QED BY <3>2, <3>3
    <2> QED BY <1>1, <2>1, <2>2 DEF StatesOK, OrderOK
  <1>9. ASSUME brg'.s.key[2] = leaf.nonce, leaf.waiting, brg'.s.lastState = leaf.base
        PROVE  brg'.pub[leaf.field] >= leaf.pval
    <2>1. f.key[2] = leaf.nonce /\ f.tx = leaf.base
      BY <1>1, <1>9
    <2>2. f.entity = leaf.field /\ f.value = leaf.pval
      BY <1>9, <2>1 DEF StatesOK, OrderOK
    <2> QED BY <1>3, <2>2, StateTypes
  <1>10. AcksOK'
    BY <1>5, <1>6, <1>9, BridgeAcks
  <1> QED BY <1>1, <1>7, <1>8, <1>10 DEF StatesOK

\* A session that is new or gone has remembered no STATE, and none is of its key.
LEMMA NewSessionStates ==
    ASSUME Typed, BridgeMoves, StatesOK, Sinks = FALSE,
           brg'.pub = brg.pub, brg'.s.lastState = 0,
           \A f \in States : f.key # brg'.s.key
    PROVE  StatesOK'
PROOF
  <1>1. leaf' = leaf /\ States' \subseteq States /\ brg'.deliveries = {}
    BY BridgeAir
  <1>2. brg'.s.lastState < leaf.tx
    BY StateTypes
  <1>3. ValuesOK'
    BY <1>1, <1>2 DEF StatesOK, ValuesOK
  <1>4. OrderOK'
    BY <1>1 DEF StatesOK, OrderOK
  <1>5. AcksOK'
    <2>1. \A e \in Entities : brg'.pub[e] >= brg.pub[e]
      BY StateTypes
    <2>2. leaf.waiting => brg'.s.lastState # leaf.base
      BY StateTypes DEF StatesOK, ValuesOK
    <2> QED BY <1>2, <2>1, <2>2, BridgeAcks
  <1> QED BY <1>1, <1>3, <1>4, <1>5 DEF StatesOK

LEMMA BridgeStates ==
    ASSUME Typed, BridgeMoves, KeysOK, StatesOK, Sinks = FALSE
    PROVE  StatesOK'
PROOF
  <1>1. CASE Proceeds(brg') /\ StatesKept(brg')
    BY <1>1, KeptStates
  <1>2. CASE Proceeds(brg') /\ \E f \in Frames(up) : Publishes(f, brg')
    <2>1. PICK f \in States : Publishes(f, brg')
      BY <1>2 DEF States, Publishes
    <2> QED BY <1>2, <2>1, PublishedStates
  <1>3. CASE \E f \in Frames(up) : f.type = "JOIN" /\ Renews(f, brg')
    <2>1. PICK j \in Frames(up) : j.type = "JOIN" /\ Renews(j, brg')
      BY <1>3
    <2>2. /\ brg'.s.key[1] = brg.nonces + 1 /\ brg'.s.lastState = 0 /\ brg'.pub = brg.pub
      BY <2>1 DEF Renews, Renewed
    <2>3. \A k : k = brg'.s.key => ~(k[1] <= brg.nonces)
      BY <2>2, TypedNumbers
    <2>4. \A f \in States : f.key # brg'.s.key
      BY <2>3 DEF KeysOK, States
    <2> QED BY <2>2, <2>4, NewSessionStates
  <1>4. CASE Clears(brg')
    <2>1. brg'.s.lastState = 0 /\ brg'.s.key[2] = 0 /\ brg'.pub = brg.pub
      BY <1>4 DEF Clears, NoSession, NoKey
    <2>2. \A f \in States : f.key # brg'.s.key
      <3>1. \A f \in States : f.key[2] > 0
        BY DEF KeysOK, States
      <3> QED BY <2>1, <3>1
    <2> QED BY <2>1, <2>2, NewSessionStates
  <1> QED BY <1>1, <1>2, <1>3, <1>4 DEF BridgeMoves, BridgeActs

-----------------------------------------------------------------------------
(* The radio only loses and swaps what it carries.                         *)

LEMMA MixesRest ==
    ASSUME Typed, Mixes, KeysOK, SchemaOK, CommandsOK
    PROVE  KeysOK' /\ SchemaOK' /\ CommandsOK'
PROOF
  <1>1. KeysOK'
    BY DEF Mixes, KeysOK
  <1>2. SchemaOK'
    BY DEF Mixes, SchemaOK, PushFine, Upto
  <1>3. CommandsOK'
    <2>1. Ordered' \subseteq Ordered
      BY OrderedShrinks DEF Mixes
    <2> QED BY <2>1 DEF Mixes, CommandsOK
  <1> QED BY <1>1, <1>2, <1>3

LEMMA MixesStates ==
    ASSUME Typed, Mixes, StatesOK
    PROVE  StatesOK'
PROOF
  <1>1. /\ leaf' = leaf /\ brg' = brg /\ hist' = hist
        /\ States' \subseteq States /\ Acks' \subseteq Acks
    BY DEF Mixes, States, Acks
  <1> QED BY <1>1 DEF StatesOK, ValuesOK, OrderOK, AcksOK

-----------------------------------------------------------------------------
(* The invariant.                                                          *)

SessionInv ==
    /\ Typed /\ KeysOK /\ SchemaOK /\ CommandsOK
    /\ Sinks = FALSE => StatesOK

LEMMA InitTyped ==
    ASSUME Init
    PROVE  Typed
PROOF
  <1>1. LeafOK(leaf)
    <2>1. [e \in Entities |-> 1] \in [Entities -> Positive] /\ 1 \in Positive /\ 0 \in Hashes
      BY SessionAssumption DEF Positive
    <2> QED BY <2>1, BootedFacts DEF Init, LeafInit
  <1>2. AirOK
    <2>1. tuned = 1 /\ faults = 0 /\ up = <<>> /\ down = <<>>
      BY DEF Init, RadioInit
    <2>2. 1 \in 1 .. NumChannels /\ 0 \in 0 .. MaxFaults
      BY RadioAssumption
    <2>3. Fits(<<>>) /\ Frames(<<>>) = {}
      BY EmptyQueue, RadioAssumption DEF Fits
    <2> QED BY <2>1, <2>2, <2>3 DEF AirOK
  <1>3. PICK b : b = brg
    OBVIOUS
  <1>4. /\ DOMAIN b = BridgeFields /\ b.s = NoSession /\ b.nonces = 0 /\ b.slot = "none"
        /\ b.cache = NoCache /\ b.cmds = <<>> /\ b.cfgs = <<>> /\ b.deliveries = {}
        /\ b.pub = [e \in Entities |-> 0]
    BY <1>3 DEF Init, BridgeInit, BridgeFields
  <1>5. BridgeT(b)
    <2>1. SessionT(b.s)
      BY <1>4, NoSessionFacts
    <2>2. Queued(b)
      BY <1>4, EmptyQueue DEF Queued
    <2>3. Kept(b)
      BY <1>4, NoCacheFacts DEF Kept
    <2> QED BY <1>4, <2>1, <2>2, <2>3 DEF BridgeT
  <1>6. SchemaFine(b)
    <2>1. \A e \in Entities : ~(e < 0)
      BY DEF Entities
    <2> QED BY <1>4, <2>1, NoSessionFacts, NoCacheFacts DEF SchemaFine, Upto
  <1>7. HistT
    <2>1. /\ DOMAIN hist = HistFields /\ hist.issued = 0 /\ hist.applied = <<>>
          /\ hist.acked = [e \in Entities |-> 0]
      BY DEF Init, HistFields
    <2> QED BY <2>1, EmptyQueue DEF HistT
  <1> QED BY <1>1, <1>2, <1>3, <1>5, <1>6, <1>7 DEF Typed

LEMMA InitInv ==
    ASSUME Init
    PROVE  SessionInv
PROOF
  <1>1. Typed
    BY InitTyped
  <1>2. /\ Frames(up) = {} /\ Frames(down) = {} /\ Frames(hist.applied) = {}
        /\ Len(hist.applied) = 0
    BY EmptyQueue DEF Init, RadioInit
  <1>3. /\ leaf.nonce = 1 /\ leaf.tx = 1 /\ leaf.key = NoKey /\ ~leaf.joined /\ ~leaf.waiting
        /\ leaf.val = [e \in Entities |-> 1]
    BY DEF Init, LeafInit, Booted
  <1>4. /\ brg.s = NoSession /\ brg.nonces = 0 /\ brg.cmds = <<>> /\ brg.deliveries = {}
        /\ brg.pub = [e \in Entities |-> 0]
    BY DEF Init, BridgeInit
  <1>5. /\ brg.s.nonce = 0 /\ brg.s.key = NoKey /\ brg.s.lastState = 0
    BY <1>4 DEF NoSession
  <1>6. NoKey[1] = 0 /\ NoKey[2] = 0
    BY DEF NoKey
  <1>7. KeysOK
    BY <1>2, <1>3, <1>4, <1>5, <1>6 DEF KeysOK
  <1>8. SchemaOK
    BY <1>2, <1>3, <1>5, <1>6 DEF SchemaOK
  <1>9. CommandsOK
    <2>1. Ordered = {}
      BY <1>2, <1>4, EmptyQueue DEF Ordered
    <2> QED BY <1>2, <2>1 DEF CommandsOK
  <1>10. StatesOK
    <2>1. States = {} /\ Acks = {}
      BY <1>2 DEF States, Acks
    <2>2. hist.acked = [e \in Entities |-> 0]
      BY DEF Init
    <2>3. ValuesOK
      BY <1>3, <1>4, <1>5, <1>6, <2>1 DEF ValuesOK
    <2>4. OrderOK
      BY <1>3, <2>1 DEF OrderOK
    <2>5. AcksOK
      BY <1>3, <1>4, <2>1, <2>2 DEF AcksOK
    <2> QED BY <1>4, <2>3, <2>4, <2>5 DEF StatesOK
  <1> QED BY <1>1, <1>7, <1>8, <1>9, <1>10 DEF SessionInv

LEMMA InvSteps ==
    ASSUME SessionInv, [Next]_vars
    PROVE  LeafMoves \/ BridgeMoves \/ Mixes
  BY Steps DEF SessionInv, SchemaOK, StatesOK

LEMMA StepInv ==
    ASSUME SessionInv, [Next]_vars
    PROVE  SessionInv'
PROOF
  <1>1. Typed /\ KeysOK /\ SchemaOK /\ CommandsOK /\ (Sinks = FALSE => StatesOK)
    BY DEF SessionInv
  <1>2. CASE LeafMoves
    BY <1>1, <1>2, LeafTyped, LeafKeys, LeafSchema, LeafCommands, LeafStates DEF SessionInv
  <1>3. CASE BridgeMoves
    BY <1>1, <1>3, BridgeTyped, BridgeKeys, BridgeSchema, BridgeCommands, BridgeStates
       DEF SessionInv
  <1>4. CASE Mixes
    BY <1>1, <1>4, MixesTyped, MixesRest, MixesStates DEF SessionInv
  <1> QED BY <1>2, <1>3, <1>4, InvSteps

\* What is true of a leaf and its bridge at all times.
THEOREM SessionInvariant == Spec => []SessionInv
PROOF
  <1>1. Init => SessionInv
    BY InitInv
  <1>2. SessionInv /\ [Next]_vars => SessionInv'
    BY StepInv
  <1> QED BY <1>1, <1>2, PTL DEF Spec

\* The counters of both sides stay within their limits: the retries of a JOIN,
\* a STATE, a schema request, a COMPLETE and a command, the send failures, the
\* index of the entity waited for, and the receive queues.
THEOREM SessionTypes == Spec => []TypeOK
PROOF
  <1>1. SessionInv => TypeOK
    <2> SUFFICES ASSUME SessionInv PROVE TypeOK
      OBVIOUS
    <2>1. LeafT(leaf) /\ BridgeT(brg) /\ AirOK
      BY DEF SessionInv, Typed, LeafOK
    <2>2. /\ tuned \in 1 .. NumChannels /\ faults \in 0 .. MaxFaults
          /\ Len(up) <= QueueLimit /\ Len(down) <= QueueLimit
      BY <2>1 DEF AirOK, Fits
    <2>3. /\ leaf.parent \in {"none", "bridge", "zero"}
          /\ leaf.best \in 0 .. NumChannels /\ leaf.lastChan \in 1 .. NumChannels
          /\ leaf.chIdx \in 0 .. NumChannels
          /\ leaf.joinRetry \in 0 .. MaxRetries /\ leaf.waitRejects \in 0 .. MaxRetries - 1
          /\ leaf.retry \in 0 .. MaxRetries /\ leaf.fails \in 0 .. MaxRetries
      BY <2>1 DEF LeafT, Shaped, Routed, Counting
    <2>4. /\ leaf.key \in Nat \X Nat /\ leaf.field \in Entities
          /\ leaf.val \in [Entities -> Nat \ {0}] /\ leaf.dirty \in [Entities -> BOOLEAN]
          /\ leaf.cmd \in [Entities -> Nat]
      BY <2>1 DEF LeafT, Shaped, Numbered, Pending, Holding, Key, Positive
    <2>5. /\ brg.slot \in {"none", "me", "other"} /\ brg.pub \in [Entities -> Nat]
          /\ brg.s.got \in [Entities -> Hashes \cup {NoHash}] /\ brg.s.want \in 0 .. NumEntities
          /\ brg.s.reqRetry \in 0 .. MaxRetries /\ brg.s.jcRetry \in 0 .. MaxRetries
          /\ brg.s.state \in {"NONE", "JOINED", "NORMAL"}
      BY <2>1 DEF BridgeT, Kept, SessionT, About, Besides, SomeHash
    <2>6. \A i \in DOMAIN brg.cmds : brg.cmds[i].retry \in 0 .. MaxCommandRetries
      <3>1. DOMAIN brg.cmds = 1 .. Len(brg.cmds)
        BY <2>1 DEF BridgeT, Queued, IsQueue
      <3>2. \A i \in 1 .. Len(brg.cmds) : brg.cmds[i] \in Frames(brg.cmds)
        BY DEF Frames
      <3> QED BY <2>1, <3>1, <3>2 DEF BridgeT, Queued, CommandT
    <2>7. \A i \in DOMAIN brg.cfgs : brg.cfgs[i].retry \in 0 .. MaxConfigRetries
      <3>1. DOMAIN brg.cfgs = 1 .. Len(brg.cfgs)
        BY <2>1 DEF BridgeT, Queued, IsQueue
      <3>2. \A i \in 1 .. Len(brg.cfgs) : brg.cfgs[i] \in Frames(brg.cfgs)
        BY DEF Frames
      <3> QED BY <2>1, <3>1, <3>2 DEF BridgeT, Queued, ConfigT
    <2> QED BY <2>2, <2>3, <2>4, <2>5, <2>6, <2>7 DEF TypeOK
  <1> QED BY <1>1, SessionInvariant, PTL

\* handle_join_'s look into the schema cache and the parts handle_schema_push_
\* takes, whatever is lost, late, of another session or of a firmware of before:
\* a schema the bridge counts as whole is, to the last entity, that of the
\* firmware of the leaf it shares a key with.
THEOREM SchemaIsCurrent == Spec => []SchemaCurrent
PROOF
  <1>1. SessionInv => SchemaCurrent
    <2> SUFFICES ASSUME SessionInv, brg.s.schema, leaf.joined, leaf.key = brg.s.key
                 PROVE  brg.s.got = [e \in Entities |-> leaf.hash]
      BY DEF SchemaCurrent
    <2>1. brg.s.key[2] = leaf.nonce
      BY DEF SessionInv, KeysOK
    <2>2. brg.s.hash = leaf.hash
      BY <2>1 DEF SessionInv, SchemaOK
    <2>3. brg.s.got \in [Entities -> SomeHash]
      BY DEF SessionInv, Typed, BridgeT, SessionT, About
    <2>4. \A e \in Entities : brg.s.got[e] = brg.s.hash
      BY DEF SessionInv, Typed, SchemaFine
    <2> QED BY <2>2, <2>3, <2>4
  <1> QED BY <1>1, SessionInvariant, PTL

\* The leaf's counter per entity against the repetitions of
\* drain_pending_commands_: a command is carried out at most once between two
\* boots, under whichever key and however often it comes.
THEOREM CommandRunsOnce == Spec => []CommandOnce
PROOF
  <1>1. SessionInv => CommandOnce
    <2> SUFFICES ASSUME SessionInv PROVE CommandOnce
      OBVIOUS
    <2>1. DOMAIN hist.applied = 1 .. Len(hist.applied)
      BY DEF SessionInv, Typed, HistT, IsQueue
    <2> QED BY <2>1 DEF CommandOnce, SessionInv, CommandsOK
  <1> QED BY <1>1, SessionInvariant, PTL

\* handle_ack_ of the leaf: the STATE it stops sending again was published, so
\* long as nobody defers the bridge's acks (confirm_state_delivery_ at once).
THEOREM AckedWasPublished ==
    ASSUME Sinks = FALSE
    PROVE  Spec => []AckedIsPublished
PROOF
  <1>1. SessionInv => AckedIsPublished
    <2> SUFFICES ASSUME SessionInv PROVE AckedIsPublished
      OBVIOUS
    <2>1. \A e \in Entities : hist.acked[e] <= brg.pub[e]
      BY DEF SessionInv, StatesOK, AcksOK
    <2>2. \A e \in Entities : hist.acked[e] \in Nat /\ brg.pub[e] \in Nat
      BY StateTypes DEF SessionInv
    <2> QED BY <2>1, <2>2 DEF AckedIsPublished
  <1> QED BY <1>1, SessionInvariant, PTL

-----------------------------------------------------------------------------
(* Mirror, step by step.                                                   *)

LEMMA InitMirrors ==
    ASSUME Init
    PROVE  M!Init
  BY DEF Init, LeafInit, BridgeInit, Booted, M!Init

LEMMA LeafMirrors ==
    ASSUME Typed, LeafMoves
    PROVE  M!Next \/ UNCHANGED <<leaf.val, brg.pub>>
PROOF
  <1>1. brg' = brg
    BY DEF LeafMoves
  <1>2. leaf'.val = leaf.val \/ \E e \in Entities : leaf'.val = [leaf.val EXCEPT ![e] = @ + 1]
    BY DEF LeafMoves, LeafStep, GoesOn, StartsOver, Grows
  <1>3. ASSUME NEW e \in Entities, leaf'.val = [leaf.val EXCEPT ![e] = @ + 1]
        PROVE  M!Next
    <2>1. M!Change(e)
      BY <1>1, <1>3 DEF M!Change
    <2> QED BY <2>1 DEF M!Next
  <1> QED BY <1>1, <1>2, <1>3

LEMMA BridgeMirrors ==
    ASSUME Typed, StatesOK, BridgeMoves, Sinks = FALSE
    PROVE  M!Next \/ UNCHANGED <<leaf.val, brg.pub>>
PROOF
  <1>1. leaf' = leaf
    BY DEF BridgeMoves
  <1>2. brg'.pub = brg.pub \/ \E f \in Frames(up) : Publishes(f, brg')
    BY DEF BridgeMoves, BridgeActs, StatesKept, Renews, Clears
  <1>3. ASSUME NEW f \in Frames(up), Publishes(f, brg')
        PROVE  M!Next \/ UNCHANGED <<leaf.val, brg.pub>>
    <2>1. f \in States /\ f.entity \in Entities /\ f.value \in Nat
      BY <1>3, StateTypes DEF States, Publishes
    <2>2. brg'.pub = [brg.pub EXCEPT ![f.entity] = f.value]
      BY <1>3 DEF Publishes
    <2>3. f.value >= brg.pub[f.entity] /\ f.value <= leaf.val[f.entity]
      BY <1>3, <2>1 DEF Publishes, StatesOK, OrderOK, ValuesOK
    <2>4. brg.pub \in [Entities -> Nat] /\ leaf.val \in [Entities -> Nat]
      BY StateTypes
    <2>5. CASE f.value = brg.pub[f.entity]
      <3>1. brg'.pub = brg.pub
        BY <2>2, <2>4, <2>5
      <3> QED BY <1>1, <3>1
    <2>6. CASE f.value # brg.pub[f.entity]
      <3>1. f.value \in brg.pub[f.entity] + 1 .. leaf.val[f.entity]
        BY <2>1, <2>3, <2>4, <2>6
      <3>2. M!Publish(f.entity)
        BY <1>1, <2>2, <3>1 DEF M!Publish
      <3> QED BY <2>1, <3>2 DEF M!Next
    <2> QED BY <2>5, <2>6
  <1> QED BY <1>1, <1>2, <1>3

\* PushDirty, StateRetry, the radio, handle_state_ and every restart between
\* them: what Home Assistant shows is a value the entity had, and never goes
\* back to one of before, as long as nobody defers the acks.
THEOREM StatesMirror ==
    ASSUME Sinks = FALSE
    PROVE  Spec => Mirrors
PROOF
  <1>1. Init => M!Init
    BY InitMirrors
  <1>2. SessionInv /\ [Next]_vars => [M!Next]_<<leaf.val, brg.pub>>
    <2> SUFFICES ASSUME SessionInv, [Next]_vars
                 PROVE  M!Next \/ UNCHANGED <<leaf.val, brg.pub>>
      OBVIOUS
    <2>1. Typed /\ StatesOK
      BY DEF SessionInv
    <2>2. CASE LeafMoves
      BY <2>1, <2>2, LeafMirrors
    <2>3. CASE BridgeMoves
      BY <2>1, <2>3, BridgeMirrors
    <2>4. CASE Mixes
      BY <2>4 DEF Mixes
    <2> QED BY <2>2, <2>3, <2>4, InvSteps
  <1> QED BY <1>1, <1>2, SessionInvariant, PTL DEF Spec, Mirrors, M!Spec

=============================================================================
