-------------------------- MODULE FlashQueueProofs --------------------------
(***************************************************************************)
(* That worker, handlers and bridge events, in whatever order they touch   *)
(* the job table, keep rows and firmware files together, the queue's order *)
(* usable and the bridge client's handlers with the job they belong to:    *)
(* for every number of devices and jobs.                                   *)
(***************************************************************************)
EXTENDS FlashQueue, FiniteSetTheorems, WellFoundedInduction, TLAPS

Row   == [dev : Devices \cup {"none"}, status : Statuses \cup {"none", "deleted"},
          order : 0..MaxJobs, path : Paths]
Store == [row : [Ids -> Row], disk : [Ids -> Paths]]

-----------------------------------------------------------------------------
(* The inductive invariant.                                                *)

FilesThere(s) == \A j \in Ids : s.row[j].path # NoPath => s.disk[j] = s.row[j].path

FilesOwned(s) ==
    \A j \in Ids : s.disk[j] = ActivePath =>
      s.row[j].path = ActivePath /\ ~IsTerminal(s, j)

\* Numbers of the queue stay below the rows ever used, and only one is 0.
OrdersOK(s) ==
    /\ \A j \in Queued(s) : s.row[j].order <= Cardinality(Used(s))
    /\ \A j, k \in Queued(s) : s.row[j].order = 0 /\ s.row[k].order = 0 => j = k

StoreOK(s) == s \in Store /\ FilesThere(s) /\ FilesOwned(s) /\ OrdersOK(s)

Pcs == {"pick", "sleep", "dequeue", "connect", "start", "wait", "giveup", "rejoin", "lookup"}

WorkerOK ==
    /\ paused \in BOOLEAN
    /\ retries \in [Ids -> 0..StartRetries]
    /\ dqFails \in [Ids -> 0..DequeueAttempts]
    /\ pc \in Pcs
    /\ cur \in Ids \cup {NoId}
    /\ pc \notin {"pick", "sleep"} => cur # NoId
    /\ seen \in Statuses \cup {"none"}
    /\ term \in {"none", "end", "rejoin"}
    /\ handlers \in Ids \cup {NoId}

\* What is suspended keeps ids, and ota_abort a path, read before its await.
SuspendedOK ==
    /\ sending \in [job : Ids \cup {NoId}, late : BOOLEAN]
    /\ sending.late => sending.job # NoId
    /\ aborting \in [job : Ids \cup {NoId}, path : Paths]
    /\ aborting.job # NoId =>
         /\ aborting.job \in Used(store)
         /\ store.disk[aborting.job] = ActivePath => aborting.path = ActivePath
    /\ uploads \in [Devices -> 0..MaxJobs]

BridgeOK ==
    /\ bridge \in Ids \cup {NoId, Ended}
    /\ answer \in {"none", "asked", "accepted", "refused"}
    /\ answer # "none" => pc = "start"
    /\ faults \in 0..MaxFaults

IInv == StoreOK(store) /\ WorkerOK /\ SuspendedOK /\ BridgeOK /\ HandlersFollowWorker

-----------------------------------------------------------------------------
(* Choices: what CHOOSE picks is there.                                    *)

LEMMA LeastNat ==
    ASSUME NEW T \in SUBSET Nat, T # {}
    PROVE  \E x \in T : \A y \in T : x <= y
PROOF
  <1> DEFINE Lower == {p \in Nat \X Nat : p[1] < p[2]}
  <1>1. Lower = OpToRel(<, Nat)
    BY Zenon DEF OpToRel
  <1>2. IsWellFoundedOn(Lower, Nat)
    BY <1>1, NatLessThanWellFounded
  <1> HIDE DEF Lower
  <1>3. PICK x \in T : \A y \in T : <<y, x>> \notin Lower
    BY <1>2, WFMin
  <1>4. ASSUME NEW y \in T PROVE x <= y
    <2>1. x \in Nat /\ y \in Nat /\ <<y, x>> \notin Lower
      BY <1>3
    <2>2. ~(y < x)
      BY <2>1 DEF Lower
    <2> QED BY <2>1, <2>2
  <1> QED BY <1>3, <1>4

LEMMA GreatestNat ==
    ASSUME NEW n \in Nat, NEW T \in SUBSET (0..n), T # {}
    PROVE  \E x \in T : \A y \in T : x >= y
PROOF
  <1> DEFINE Rest == {m \in 0..n : n - m \in T}
  <1>0. \A z \in T : z \in 0..n /\ n - z \in 0..n /\ n - (n - z) = z
    OBVIOUS
  <1>1. \A z \in T : n - z \in Rest
    BY <1>0
  <1>2. Rest \subseteq Nat /\ \A m \in Rest : m \in 0..n /\ n - m \in T
    OBVIOUS
  <1>3. Rest # {}
    BY <1>1
  <1> HIDE DEF Rest
  <1>4. PICK r \in Rest : \A m \in Rest : r <= m
    BY <1>2, <1>3, LeastNat
  <1>5. ASSUME NEW z \in T PROVE n - r >= z
    <2>1. r <= n - z
      BY <1>1, <1>4
    <2> QED BY <1>0, <1>2, <1>4, <2>1
  <1> QED BY <1>2, <1>4, <1>5

LEMMA LeastId ==
    ASSUME NEW S \in SUBSET Ids
    PROVE  /\ Least(S) \in Ids \cup {NoId}
           /\ S # {} => Least(S) \in S
PROOF
  <1>1. ASSUME S # {} PROVE \E j \in S : \A k \in S : j <= k
    BY <1>1, LeastNat DEF Ids
  <1> QED BY <1>1 DEF Least

LEMMA GreatestId ==
    ASSUME NEW S \in SUBSET Ids
    PROVE  /\ Greatest(S) \in Ids \cup {NoId}
           /\ S # {} => Greatest(S) \in S
PROOF
  <1>1. ASSUME S # {} PROVE \E j \in S : \A k \in S : j >= k
    <2>1. MaxJobs \in Nat /\ S \subseteq 0..MaxJobs
      BY QueueAssumption DEF Ids
    <2> QED BY <1>1, <2>1, GreatestNat
  <1> QED BY <1>1 DEF Greatest

-----------------------------------------------------------------------------
(* Rows, their numbers and positions.                                      *)

LEMMA Counted ==
    ASSUME NEW T \in SUBSET Ids, NEW S \in SUBSET T
    PROVE  /\ IsFiniteSet(S) /\ Cardinality(S) \in Nat
           /\ Cardinality(S) <= Cardinality(T)
           /\ Cardinality(T) <= MaxJobs
           /\ Cardinality(S) = 0 <=> S = {}
PROOF
  <1>1. MaxJobs \in Nat /\ Ids = 1..MaxJobs
    BY QueueAssumption DEF Ids
  <1>2. IsFiniteSet(Ids) /\ Cardinality(Ids) = MaxJobs
    BY <1>1, FS_Interval
  <1>3. IsFiniteSet(T) /\ Cardinality(T) <= MaxJobs
    BY <1>2, FS_Subset
  <1>4. IsFiniteSet(S) /\ Cardinality(S) <= Cardinality(T)
    BY <1>3, FS_Subset
  <1> QED BY <1>3, <1>4, FS_CardinalityType, FS_EmptySet

LEMMA RowsTyped ==
    ASSUME NEW s
    PROVE  /\ Queued(s) \subseteq Used(s) /\ Used(s) \subseteq Ids
           /\ QueueLen(s) \in Nat /\ QueueLen(s) <= Cardinality(Used(s))
           /\ Cardinality(Used(s)) \in Nat /\ Cardinality(Used(s)) <= MaxJobs
           /\ QueueLen(s) = 0 <=> Queued(s) = {}
PROOF
  <1>1. Queued(s) \subseteq Used(s) /\ Used(s) \subseteq Ids
    BY DEF Queued, Rows, Used
  <1> QED BY <1>1, Counted DEF QueueLen

LEMMA StoreTyped ==
    ASSUME NEW s \in Store, NEW j \in Ids
    PROVE  /\ s.row \in [Ids -> Row] /\ s.disk \in [Ids -> Paths]
           /\ s.row[j] \in Row /\ s.disk[j] \in Paths
           /\ s.row[j].order \in 0..MaxJobs /\ s.row[j].order \in Nat
           /\ s.row[j].path \in Paths
           /\ s.row[j].dev \in Devices \cup {"none"}
           /\ s.row[j].status \in Statuses \cup {"none", "deleted"}
PROOF
  <1>1. s.row \in [Ids -> Row] /\ s.disk \in [Ids -> Paths]
    BY DEF Store
  <1>2. s.row[j] \in Row /\ s.disk[j] \in Paths
    BY <1>1
  <1>3. s.row[j].order \in 0..MaxJobs
    BY <1>2 DEF Row
  <1> QED BY <1>1, <1>2, <1>3 DEF Row

LEMMA PositionTyped ==
    ASSUME NEW s, NEW j
    PROVE  /\ Position(s, j) \in Nat /\ Position(s, j) <= QueueLen(s)
           /\ Position(s, j) = 0 <=> \A k \in Queued(s) : ~Before(s, k, j)
PROOF
  <1> DEFINE Ahead == {k \in Queued(s) : Before(s, k, j)}
  <1>1. Ahead \subseteq Queued(s) /\ Queued(s) \subseteq Ids
    BY RowsTyped
  <1>2. Ahead = {} <=> \A k \in Queued(s) : ~Before(s, k, j)
    OBVIOUS
  <1>3. Position(s, j) = Cardinality(Ahead)
    BY DEF Position
  <1> HIDE DEF Ahead
  <1> QED BY <1>1, <1>2, <1>3, Counted DEF QueueLen

\* queue_order and the rowid order the queue: no two jobs come first.
LEMMA OneIsFirst ==
    ASSUME NEW s \in Store, NEW j \in Queued(s), NEW k \in Queued(s),
           Position(s, j) = 0, Position(s, k) = 0
    PROVE  j = k
PROOF
  <1>1. ~Before(s, j, k) /\ ~Before(s, k, j)
    BY PositionTyped
  <1>2. j \in Ids /\ k \in Ids
    BY RowsTyped
  <1>3. s.row[j].order \in Nat /\ s.row[k].order \in Nat /\ j \in Nat /\ k \in Nat
    BY <1>2, StoreTyped DEF Ids
  <1> QED BY <1>1, <1>3 DEF Before

\* _dequeue_next finds a job unless the queue is empty.
LEMMA FirstExists ==
    ASSUME NEW s \in Store, Queued(s) # {}
    PROVE  \E j \in Queued(s) : Position(s, j) = 0
PROOF
  <1> DEFINE Orders == {s.row[k].order : k \in Queued(s)}
  <1>0. Queued(s) \subseteq Ids
    BY RowsTyped
  <1>1. \A k \in Queued(s) : k \in Nat /\ s.row[k].order \in Nat
    BY <1>0, StoreTyped DEF Ids
  <1>2. Orders \in SUBSET Nat /\ Orders # {}
    BY <1>1
  <1>3. PICK n \in Orders : \A m \in Orders : n <= m
    BY <1>2, LeastNat
  <1> DEFINE Ties == {k \in Queued(s) : s.row[k].order = n}
  <1>4. Ties \in SUBSET Nat /\ Ties # {}
    BY <1>1
  <1>5. PICK j \in Ties : \A k \in Ties : j <= k
    BY <1>4, LeastNat
  <1>6. ASSUME NEW k \in Queued(s) PROVE ~Before(s, k, j)
    <2>1. n <= s.row[k].order
      BY <1>3
    <2>2. s.row[k].order = n => j <= k
      BY <1>5
    <2> QED BY <1>1, <1>5, <2>1, <2>2 DEF Before
  <1> QED BY <1>5, <1>6, PositionTyped

LEMMA NextQueuedTyped ==
    ASSUME NEW s \in Store
    PROVE  NextQueued(s) \in Ids \cup {NoId}
  BY FirstExists, RowsTyped DEF NextQueued

-----------------------------------------------------------------------------
(* What an operation on the table keeps.                                   *)

\* Rows are never unused again, and no file enters the active directory
\* under a row that was there before.
Evolves(s, t) ==
    /\ Used(s) \subseteq Used(t)
    /\ \A j \in Ids : t.disk[j] = ActivePath => s.disk[j] = ActivePath \/ j \notin Used(s)

Keeps(s, t) == StoreOK(t) /\ Evolves(s, t)

LEMMA KeepsNothing ==
    ASSUME NEW s, StoreOK(s) PROVE Keeps(s, s)
  BY DEF Keeps, Evolves

LEMMA KeepsTwice ==
    ASSUME NEW s, NEW t, NEW u, Keeps(s, t), Keeps(t, u)
    PROVE  Keeps(s, u)
PROOF
  <1>1. StoreOK(u) /\ Used(s) \subseteq Used(t) /\ Used(t) \subseteq Used(u)
    BY DEF Keeps, Evolves
  <1>2. ASSUME NEW j \in Ids, u.disk[j] = ActivePath
        PROVE  s.disk[j] = ActivePath \/ j \notin Used(s)
    BY <1>1, <1>2 DEF Keeps, Evolves
  <1> QED BY <1>1, <1>2 DEF Keeps, Evolves

\* Most operations are an update of one row and its file.
Updated(s, j, r, d) == [row |-> [s.row EXCEPT ![j] = r], disk |-> [s.disk EXCEPT ![j] = d]]

\* What the new row and its file owe the others.
Fits(s, j, r, d) ==
    /\ r.status # "none"
    /\ r.path # NoPath => d = r.path
    /\ d = ActivePath =>
         /\ r.path = ActivePath /\ r.status \in Statuses \ Terminal
         /\ s.disk[j] = ActivePath \/ j \notin Used(s)
    /\ r.status = "QUEUED" =>
         /\ r.order <= Cardinality(Used(s) \cup {j})
         /\ r.order = 0 => \A k \in Queued(s) \ {j} : s.row[k].order # 0

LEMMA UpdateKeeps ==
    ASSUME NEW s, StoreOK(s), NEW j \in Ids, NEW r \in Row, NEW d \in Paths,
           Fits(s, j, r, d)
    PROVE  Keeps(s, Updated(s, j, r, d))
PROOF
  <1> DEFINE t == Updated(s, j, r, d)
  <1>0. s \in Store /\ s.row \in [Ids -> Row] /\ s.disk \in [Ids -> Paths]
    BY StoreTyped DEF StoreOK, Store
  <1>1. /\ t.row = [s.row EXCEPT ![j] = r] /\ t.disk = [s.disk EXCEPT ![j] = d]
        /\ t \in [row : [Ids -> Row], disk : [Ids -> Paths]]
    BY <1>0 DEF Updated
  <1>2. /\ t \in Store
        /\ t.row[j] = r /\ t.disk[j] = d
        /\ \A k \in Ids \ {j} : t.row[k] = s.row[k] /\ t.disk[k] = s.disk[k]
    BY <1>0, <1>1 DEF Store
  <1> HIDE DEF t
  <1>3. Used(t) = Used(s) \cup {j}
    BY <1>2 DEF Used, Fits
  <1>4. \A k \in Queued(t) : (k = j /\ r.status = "QUEUED") \/ (k # j /\ k \in Queued(s))
    BY <1>2 DEF Queued, Rows
  <1>5. FilesThere(t)
    BY <1>2 DEF StoreOK, FilesThere, Fits
  <1>6. FilesOwned(t)
    BY <1>2 DEF StoreOK, FilesOwned, Fits, IsTerminal, Exists
  <1>7. Cardinality(Used(s)) <= Cardinality(Used(t))
    <2>1. Used(t) \subseteq Ids /\ Used(s) \subseteq Used(t)
      BY <1>3 DEF Used
    <2> QED BY <2>1, Counted
  <1>8. OrdersOK(t)
    <2>1. ASSUME NEW k \in Queued(t) PROVE t.row[k].order <= Cardinality(Used(t))
      <3>1. CASE k = j
        BY <1>2, <1>3, <1>4, <3>1 DEF Fits
      <3>2. CASE k # j
        <4>1. k \in Queued(s) /\ k \in Ids /\ t.row[k] = s.row[k]
          BY <1>2, <1>4, <3>2, RowsTyped
        <4>2. s.row[k].order \in Nat /\ s.row[k].order <= Cardinality(Used(s))
          BY <1>0, <4>1, StoreTyped DEF StoreOK, OrdersOK
        <4>3. Cardinality(Used(s)) \in Nat /\ Cardinality(Used(t)) \in Nat
          BY RowsTyped
        <4> QED BY <1>7, <4>1, <4>2, <4>3
      <3> QED BY <3>1, <3>2
    <2>2. ASSUME NEW k \in Queued(t), NEW l \in Queued(t),
                 t.row[k].order = 0, t.row[l].order = 0
          PROVE  k = l
      <3>1. k \in Ids /\ l \in Ids
        BY RowsTyped
      <3>2. CASE k # j /\ l # j
        BY <1>2, <1>4, <2>2, <3>1, <3>2 DEF StoreOK, OrdersOK
      <3>3. CASE k = j /\ l # j
        BY <1>2, <1>4, <2>2, <3>1, <3>3 DEF Fits
      <3>4. CASE k # j /\ l = j
        BY <1>2, <1>4, <2>2, <3>1, <3>4 DEF Fits
      <3> QED BY <3>2, <3>3, <3>4
    <2> QED BY <2>1, <2>2 DEF OrdersOK
  <1>9. Evolves(s, t)
    BY <1>2, <1>3 DEF Evolves, Fits
  <1> QED BY <1>2, <1>5, <1>6, <1>8, <1>9 DEF Keeps, StoreOK, t

\* A status given to a row that is still there.
LEMMA SetStatusKeeps ==
    ASSUME NEW s, StoreOK(s), NEW j \in Ids, NEW st \in Statuses,
           st # "QUEUED", st \in Terminal => s.disk[j] # ActivePath
    PROVE  /\ Keeps(s, SetStatus(s, j, st))
           /\ SetStatus(s, j, st).disk = s.disk
PROOF
  <1>1. CASE ~Exists(s, j)
    BY <1>1, KeepsNothing DEF SetStatus
  <1>2. CASE Exists(s, j)
    <2> DEFINE r == [s.row[j] EXCEPT !.status = st, !.order = 0]
    <2>0. s \in Store /\ s.row[j] \in Row /\ s.disk[j] \in Paths /\ 0 \in 0..MaxJobs
      BY StoreTyped, QueueAssumption DEF StoreOK
    <2>1. r \in Row /\ r.status = st /\ r.path = s.row[j].path
      BY <2>0 DEF Row
    <2>2. SetStatus(s, j, st) = Updated(s, j, r, s.disk[j])
      BY <1>2, <2>0 DEF SetStatus, Updated, Store, Row
    <2> HIDE DEF r
    <2>3. Fits(s, j, r, s.disk[j])
      BY <2>1 DEF Fits, StoreOK, FilesThere, FilesOwned, Statuses, ActiveStatuses, FlashStatuses, Terminal
    <2>4. Updated(s, j, r, s.disk[j]).disk = s.disk
      BY <2>0 DEF Updated, Store
    <2> QED BY <2>0, <2>1, <2>2, <2>3, <2>4, UpdateKeeps
  <1> QED BY <1>1, <1>2

\* A row that leaves the queue, or is not in it, joins it behind the others.
LEMMA EnqueueKeeps ==
    ASSUME NEW s, StoreOK(s), NEW j \in Ids
    PROVE  Keeps(s, Enqueue(s, j))
PROOF
  <1>1. CASE ~Exists(s, j)
    BY <1>1, KeepsNothing DEF Enqueue, SetStatus, SetOrder
  <1>2. CASE Exists(s, j)
    <2> DEFINE r == [s.row[j] EXCEPT !.status = "QUEUED", !.order = QueueLen(s)]
    <2>0. s \in Store /\ s.row[j] \in Row /\ s.disk[j] \in Paths
      BY StoreTyped DEF StoreOK
    <2>1. QueueLen(s) \in 0..MaxJobs /\ QueueLen(s) <= Cardinality(Used(s) \cup {j})
      <3>1. Used(s) \cup {j} = Used(s)
        BY <1>2 DEF Exists, Used, Statuses, ActiveStatuses, FlashStatuses, Terminal
      <3> QED BY <3>1, RowsTyped, QueueAssumption
    <2>2. /\ r \in Row /\ r.status = "QUEUED" /\ r.path = s.row[j].path
          /\ r.order = QueueLen(s)
      BY <2>0, <2>1 DEF Row, Statuses, ActiveStatuses
    <2>3. Enqueue(s, j) = Updated(s, j, r, s.disk[j])
      <3> DEFINE t == SetStatus(s, j, "QUEUED")
      <3>1. t = Updated(s, j, [s.row[j] EXCEPT !.status = "QUEUED", !.order = 0], s.disk[j])
        BY <1>2, <2>0 DEF SetStatus, Updated, Store, Row
      <3>2. /\ t.row = [s.row EXCEPT ![j] = [s.row[j] EXCEPT !.status = "QUEUED", !.order = 0]]
            /\ t.disk = s.disk /\ t = [row |-> t.row, disk |-> t.disk]
        BY <2>0, <3>1 DEF Updated, Store
      <3>3. t.row[j].status = "QUEUED"
        <4>1. PICK q : q = [s.row[j] EXCEPT !.status = "QUEUED", !.order = 0]
          OBVIOUS
        <4>2. q.status = "QUEUED"
          BY <2>0, <4>1 DEF Row
        <4>3. j \in DOMAIN s.row
          BY <2>0 DEF Store
        <4>4. t.row[j] = q
          BY <3>2, <4>1, <4>3
        <4> QED BY <4>2, <4>4
      <3>4. Exists(t, j)
        BY <3>3 DEF Exists, Statuses, ActiveStatuses
      <3>5. Enqueue(s, j) = [t EXCEPT !.row[j].order = QueueLen(s)]
        BY <3>4 DEF Enqueue, SetOrder
      <3> HIDE DEF t
      <3>6. s.row \in [Ids -> Row]
        BY <2>0 DEF Store
      <3>7. [t.row[j] EXCEPT !.order = QueueLen(s)] = r
        BY <2>0, <3>2, <3>6, ZenonT(60) DEF Row
      <3>8. [t.row EXCEPT ![j] = r] = [s.row EXCEPT ![j] = r]
        BY <3>2, <3>6
      <3>9. Enqueue(s, j) = [row |-> [t.row EXCEPT ![j] = [t.row[j] EXCEPT !.order = QueueLen(s)]],
                             disk |-> t.disk]
        BY <3>2, <3>5, <3>6
      <3>10. [s.disk EXCEPT ![j] = s.disk[j]] = s.disk
        BY <2>0 DEF Store
      <3> QED BY <3>2, <3>7, <3>8, <3>9, <3>10 DEF Updated
    <2> HIDE DEF r
    <2>4. QueueLen(s) = 0 => \A k \in Queued(s) \ {j} : s.row[k].order # 0
      BY RowsTyped
    <2>5. Fits(s, j, r, s.disk[j])
      BY <2>1, <2>2, <2>4 DEF Fits, StoreOK, FilesThere, FilesOwned,
                              Statuses, ActiveStatuses, Terminal
    <2> QED BY <2>0, <2>2, <2>3, <2>5, UpdateKeeps
  <1> QED BY <1>1, <1>2

\* _handle_dequeue_failure: the number given to a job among others.
LEMMA SetOrderKeeps ==
    ASSUME NEW s, StoreOK(s), NEW j \in Ids, QueueLen(s) > 1
    PROVE  Keeps(s, SetOrder(s, j, QueueLen(s) - 1))
PROOF
  <1>1. CASE ~Exists(s, j)
    BY <1>1, KeepsNothing DEF SetOrder
  <1>2. CASE Exists(s, j)
    <2> DEFINE r == [s.row[j] EXCEPT !.order = QueueLen(s) - 1]
    <2>0. s \in Store /\ s.row[j] \in Row /\ s.disk[j] \in Paths
      BY StoreTyped DEF StoreOK
    <2>1. /\ QueueLen(s) - 1 \in 0..MaxJobs /\ QueueLen(s) - 1 # 0
          /\ QueueLen(s) - 1 <= Cardinality(Used(s) \cup {j})
      <3>1. Used(s) \cup {j} = Used(s)
        BY <1>2 DEF Exists, Used, Statuses, ActiveStatuses, FlashStatuses, Terminal
      <3> QED BY <3>1, RowsTyped, QueueAssumption
    <2>2. /\ r \in Row /\ r.status = s.row[j].status /\ r.path = s.row[j].path
          /\ r.order = QueueLen(s) - 1
      BY <2>0, <2>1 DEF Row
    <2>3. SetOrder(s, j, QueueLen(s) - 1) = Updated(s, j, r, s.disk[j])
      BY <1>2, <2>0 DEF SetOrder, Updated, Store, Row
    <2> HIDE DEF r
    <2>4. Fits(s, j, r, s.disk[j])
      BY <1>2, <2>1, <2>2 DEF Fits, StoreOK, FilesThere, FilesOwned, IsTerminal, Exists,
                              Statuses, ActiveStatuses, FlashStatuses, Terminal
    <2> QED BY <2>0, <2>2, <2>3, <2>4, UpdateKeeps
  <1> QED BY <1>1, <1>2

\* The numbers of a queued row that keeps them fit.
LEMMA OrderFits ==
    ASSUME NEW s, StoreOK(s), NEW j \in Queued(s)
    PROVE  /\ s.row[j].order <= Cardinality(Used(s) \cup {j})
           /\ s.row[j].order = 0 => \A k \in Queued(s) \ {j} : s.row[k].order # 0
PROOF
  <1>1. Used(s) \cup {j} = Used(s)
    BY RowsTyped
  <1> QED BY <1>1 DEF StoreOK, OrdersOK

LEMMA NewPathIsNew ==
    ASSUME SuspendedOK
    PROVE  NewPath \in RetainedPaths /\ NewPath \in Paths /\ NewPath # ActivePath
  BY DEF NewPath, RetainedPaths, Paths, ActivePath

\* retain() finds the file under the path it is given, or the file had left
\* the active directory.
LEMMA RetainedKeeps ==
    ASSUME SuspendedOK, NEW s, StoreOK(s), NEW j \in Used(s), NEW p,
           s.disk[j] = ActivePath => p = ActivePath
    PROVE  /\ Keeps(s, Retained(s, j, p))
           /\ Retained(s, j, p).disk[j] # ActivePath
           /\ \A k \in Ids : Retained(s, j, p).row[k].status = s.row[k].status
PROOF
  <1>0. /\ s \in Store /\ j \in Ids /\ s.row[j] \in Row /\ s.disk[j] \in Paths
        /\ s.row \in [Ids -> Row] /\ s.disk \in [Ids -> Paths]
        /\ s.row[j].status # "none" /\ NoPath \in Paths
    BY StoreTyped DEF StoreOK, Used, Paths
  <1>1. CASE FileThere(s, j, p)
    <2> DEFINE r == [s.row[j] EXCEPT !.path = NewPath]
    <2>1. /\ r \in Row /\ r.status = s.row[j].status /\ r.path = NewPath
          /\ r.order = s.row[j].order
      BY <1>0, NewPathIsNew DEF Row
    <2>2. Retained(s, j, p) = Updated(s, j, r, NewPath)
      BY <1>0, <1>1 DEF Retained, Updated, Store
    <2> HIDE DEF r
    <2>3. Fits(s, j, r, NewPath)
      BY <1>0, <2>1, NewPathIsNew, OrderFits DEF Fits, Queued, Rows
    <2>4. /\ Updated(s, j, r, NewPath).disk[j] = NewPath
          /\ \A k \in Ids : Updated(s, j, r, NewPath).row[k].status = s.row[k].status
      BY <1>0, <2>1 DEF Updated
    <2> QED BY <1>0, <2>1, <2>2, <2>3, <2>4, NewPathIsNew, UpdateKeeps
  <1>2. CASE ~FileThere(s, j, p)
    <2> DEFINE r == [s.row[j] EXCEPT !.path = NoPath]
    <2>1. /\ r \in Row /\ r.status = s.row[j].status /\ r.path = NoPath
          /\ r.order = s.row[j].order
      BY <1>0 DEF Row
    <2>2. Retained(s, j, p) = Updated(s, j, r, s.disk[j])
      BY <1>0, <1>2 DEF Retained, Updated, Store
    <2> HIDE DEF r
    <2>3. s.disk[j] # ActivePath
      BY <1>2 DEF FileThere, NoPath, ActivePath
    <2>4. Fits(s, j, r, s.disk[j])
      BY <1>0, <2>1, <2>3, OrderFits DEF Fits, Queued, Rows
    <2>5. /\ Updated(s, j, r, s.disk[j]).disk[j] = s.disk[j]
          /\ \A k \in Ids : Updated(s, j, r, s.disk[j]).row[k].status = s.row[k].status
      BY <1>0, <2>1 DEF Updated
    <2> QED BY <1>0, <2>1, <2>2, <2>3, <2>4, <2>5, UpdateKeeps
  <1> QED BY <1>1, <1>2

LEMMA FinishKeeps ==
    ASSUME SuspendedOK, NEW s, StoreOK(s), NEW j \in Ids, NEW st \in Terminal
    PROVE  Keeps(s, Finish(s, j, st))
PROOF
  <1>1. CASE ~Exists(s, j)
    BY <1>1, KeepsNothing DEF Finish
  <1>2. CASE Exists(s, j)
    <2> DEFINE t == Retained(s, j, s.row[j].path)
    <2>1. /\ j \in Used(s)
          /\ s.disk[j] = ActivePath => s.row[j].path = ActivePath
          /\ st \in Statuses /\ st # "QUEUED"
      BY <1>2 DEF Exists, Used, StoreOK, FilesOwned, Statuses, ActiveStatuses,
                  FlashStatuses, Terminal
    <2>2. Keeps(s, t) /\ t.disk[j] # ActivePath
      BY <2>1, RetainedKeeps
    <2>3. Finish(s, j, st) = SetStatus(t, j, st)
      BY <1>2 DEF Finish
    <2> HIDE DEF t
    <2> QED BY <2>1, <2>2, <2>3, SetStatusKeeps, KeepsTwice DEF Keeps
  <1> QED BY <1>1, <1>2

LEMMA FailKeeps ==
    ASSUME SuspendedOK, NEW s, StoreOK(s), NEW j \in Ids
    PROVE  Keeps(s, Fail(s, j))
  BY FinishKeeps DEF Fail, Terminal

LEMMA AbortDoneKeeps ==
    ASSUME SuspendedOK, NEW s, StoreOK(s), NEW j \in Used(s), NEW p,
           s.disk[j] = ActivePath => p = ActivePath
    PROVE  Keeps(s, AbortDone(s, j, p))
PROOF
  <1> DEFINE t == Retained(s, j, p)
  <1>1. Keeps(s, t) /\ t.disk[j] # ActivePath /\ j \in Ids
    BY RetainedKeeps, RowsTyped
  <1>2. AbortDone(s, j, p) = SetStatus(t, j, "ABORTED")
    BY DEF AbortDone
  <1>3. "ABORTED" \in Statuses
    BY DEF Statuses, Terminal
  <1> HIDE DEF t
  <1> QED BY <1>1, <1>2, <1>3, SetStatusKeeps, KeepsTwice DEF Keeps

\* delete_retained.
LEMMA ClearKeeps ==
    ASSUME NEW s, StoreOK(s), NEW j \in Used(s)
    PROVE  Keeps(s, ClearJobFirmware(DeleteFile(s, j), j))
PROOF
  <1> DEFINE r == [s.row[j] EXCEPT !.path = NoPath]
             d == IF FileThere(s, j, s.row[j].path) THEN NoPath ELSE s.disk[j]
  <1>0. /\ s \in Store /\ j \in Ids /\ s.row[j] \in Row /\ s.disk[j] \in Paths
        /\ s.row \in [Ids -> Row] /\ s.disk \in [Ids -> Paths]
        /\ s.row[j].status # "none" /\ NoPath \in Paths
    BY StoreTyped DEF StoreOK, Used, Paths
  <1>1. /\ r \in Row /\ r.status = s.row[j].status /\ r.path = NoPath
        /\ r.order = s.row[j].order /\ d \in Paths
    BY <1>0 DEF Row
  <1>2. ClearJobFirmware(DeleteFile(s, j), j) = Updated(s, j, r, d)
    BY <1>0 DEF ClearJobFirmware, DeleteFile, Updated, Store
  <1>3. d # ActivePath
    BY DEF StoreOK, FilesOwned, FileThere, NoPath, ActivePath, Used
  <1> HIDE DEF r, d
  <1>4. Fits(s, j, r, d)
    BY <1>0, <1>1, <1>3, OrderFits DEF Fits, Queued, Rows
  <1> QED BY <1>0, <1>1, <1>2, <1>4, UpdateKeeps

LEMMA MaxOrderIsMax ==
    ASSUME NEW s, StoreOK(s)
    PROVE  /\ MaxOrder(s) + 1 \in 0 .. (Cardinality(Used(s)) + 1)
           /\ MaxOrder(s) + 1 = 0 => Queued(s) = {}
PROOF
  <1>0. Queued(s) \subseteq Ids /\ Cardinality(Used(s)) \in Nat
    BY RowsTyped
  <1>1. CASE Queued(s) = {}
    BY <1>0, <1>1 DEF MaxOrder
  <1>2. CASE Queued(s) # {}
    <2> DEFINE Orders == {s.row[k].order : k \in Queued(s)}
               u == Cardinality(Used(s))
    <2>1. \A k \in Queued(s) : s.row[k].order \in 0..u
      BY <1>0, StoreTyped DEF StoreOK, OrdersOK
    <2>2. Orders \in SUBSET (0..u) /\ Orders # {} /\ u \in Nat
      BY <1>0, <1>2, <2>1
    <2>3. MaxOrder(s) = CHOOSE n \in Orders : \A k \in Queued(s) : s.row[k].order <= n
      BY <1>2 DEF MaxOrder
    <2>4. \E n \in Orders : \A k \in Queued(s) : s.row[k].order <= n
      <3> HIDE DEF u
      <3>1. PICK n \in Orders : \A m \in Orders : n >= m
        <4> HIDE DEF Orders
        <4> QED BY <2>2, GreatestNat
      <3> QED BY <3>1
    <2>5. MaxOrder(s) \in 0..u
      BY <2>2, <2>3, <2>4
    <2> QED BY <1>0, <1>2, <2>5
  <1> QED BY <1>1, <1>2

\* create_job.
LEMMA CreateKeeps ==
    ASSUME NEW s, StoreOK(s), MayCreate(s), NEW d \in Devices \cup {"none"},
           NEW st \in {"PENDING_CONFIRM", "QUEUED", "STARTING"}
    PROVE  Keeps(s, CreateJob(s, d, st))
PROOF
  <1> DEFINE j == NewId(s)
             n == IF st = "QUEUED" THEN MaxOrder(s) + 1 ELSE 0
             r == [dev |-> d, status |-> st, path |-> ActivePath, order |-> n]
  <1>0. s \in Store /\ s.row \in [Ids -> Row] /\ s.disk \in [Ids -> Paths] /\ ActivePath \in Paths
    BY DEF StoreOK, Store, Paths
  <1>1. j \in Ids /\ j \notin Used(s)
    <2>1. Used(s) \subseteq Ids /\ Used(s) # Ids /\ Ids \subseteq Nat
      BY RowsTyped DEF MayCreate, Ids
    <2>2. \E i \in Ids \ Used(s) : \A k \in Ids \ Used(s) : i <= k
      BY <2>1, LeastNat
    <2> QED BY <2>2 DEF NewId
  <1>2. CreateJob(s, d, st) = Updated(s, j, r, ActivePath)
    <2>1. CreateJob(s, d, st) = [s EXCEPT !.row[j] = r, !.disk[j] = ActivePath]
      BY DEF CreateJob
    <2> HIDE DEF j, r
    <2> QED BY <1>0, <2>1 DEF Updated, Store
  <1> HIDE DEF j
  <1>3. /\ Cardinality(Used(s) \cup {j}) = Cardinality(Used(s)) + 1
        /\ Cardinality(Used(s) \cup {j}) <= MaxJobs
        /\ Cardinality(Used(s)) \in Nat
    <2>1. Used(s) \subseteq Ids /\ Used(s) \cup {j} \subseteq Ids
      BY <1>1, RowsTyped
    <2>2. IsFiniteSet(Used(s)) /\ Cardinality(Used(s) \cup {j}) <= MaxJobs
      BY <2>1, Counted
    <2> QED BY <1>1, <2>2, FS_AddElement, RowsTyped
  <1>4. /\ n \in 0..MaxJobs /\ n <= Cardinality(Used(s) \cup {j})
        /\ n = 0 /\ st = "QUEUED" => Queued(s) = {}
    BY <1>3, MaxOrderIsMax, QueueAssumption
  <1> HIDE DEF n
  <1>5. st \in Statuses \ Terminal
    BY DEF Statuses, ActiveStatuses, FlashStatuses, Terminal
  <1>6. r \in Row
    BY <1>0, <1>4, <1>5 DEF Row
  <1>7. Fits(s, j, r, ActivePath)
    BY <1>1, <1>4, <1>5 DEF Fits, Statuses, Terminal
  <1> HIDE DEF r
  <1> QED BY <1>0, <1>1, <1>2, <1>6, <1>7, UpdateKeeps

-----------------------------------------------------------------------------
(* Numbering the queue.                                                    *)

\* Rows keep all but their numbers.
LEMMA RenumberKeeps ==
    ASSUME NEW s, StoreOK(s), NEW t \in Store, t.disk = s.disk,
           \A k \in Ids : t.row[k].status = s.row[k].status /\ t.row[k].path = s.row[k].path,
           \A k \in Queued(s) : t.row[k].order <= Cardinality(Used(s)),
           \A j, k \in Queued(s) : t.row[j].order = 0 /\ t.row[k].order = 0 => j = k
    PROVE  Keeps(s, t)
PROOF
  <1>1. Used(t) = Used(s) /\ Queued(t) = Queued(s)
    BY DEF Used, Queued, Rows
  <1>2. FilesThere(t) /\ FilesOwned(t)
    BY DEF StoreOK, FilesThere, FilesOwned, IsTerminal, Exists
  <1> QED BY <1>1, <1>2 DEF Keeps, StoreOK, OrdersOK, Evolves

\* abort_queued_job and the deletion of its file.
LEMMA DropKeeps ==
    ASSUME NEW s, StoreOK(s), NEW j \in Used(s)
    PROVE  Keeps(s, DeleteRow(DeleteFile(s, j), j))
PROOF
  <1> DEFINE d == IF FileThere(s, j, s.row[j].path) THEN NoPath ELSE s.disk[j]
             t == [DeleteFile(s, j) EXCEPT !.row[j] = NoRow("deleted")]
             row(k) == IF k \in Queued(t) THEN [t.row[k] EXCEPT !.order = Position(t, k)]
                       ELSE t.row[k]
             u == [row |-> [k \in Ids |-> row(k)], disk |-> t.disk]
  <1>0. /\ s \in Store /\ j \in Ids /\ s.disk[j] \in Paths
        /\ s.row \in [Ids -> Row] /\ s.disk \in [Ids -> Paths]
        /\ NoPath \in Paths /\ 0 \in 0..MaxJobs
    BY StoreTyped, QueueAssumption DEF StoreOK, Used, Paths
  <1>1. NoRow("deleted") \in Row /\ d \in Paths
    BY <1>0 DEF NoRow, Row
  <1>2. d # ActivePath
    BY DEF StoreOK, FilesOwned, FileThere, NoPath, ActivePath, Used
  <1>3. t = Updated(s, j, NoRow("deleted"), d)
    BY <1>0 DEF DeleteFile, Updated, Store
  <1>4. DeleteRow(DeleteFile(s, j), j) = u
    <2> DEFINE rows == [k \in Ids |-> row(k)]
    <2>1. DeleteRow(DeleteFile(s, j), j) = [t EXCEPT !.row = rows]
      BY DEF DeleteRow
    <2>2. t = [row |-> t.row, disk |-> t.disk]
      BY <1>3 DEF Updated
    <2> HIDE DEF rows, t
    <2>3. [t EXCEPT !.row = rows] = [row |-> rows, disk |-> t.disk]
      BY <2>2
    <2> QED BY <2>1, <2>3 DEF rows
  <1> HIDE DEF d
  <1>5. Fits(s, j, NoRow("deleted"), d)
    BY <1>2 DEF Fits, NoRow
  <1> HIDE DEF t
  <1>6. Keeps(s, t)
    BY <1>0, <1>1, <1>3, <1>5, UpdateKeeps
  <1>7. Keeps(t, u)
    <2>1. /\ t \in Store /\ t.row \in [Ids -> Row] /\ t.disk \in [Ids -> Paths]
          /\ \A k \in Ids : t.row[k] \in Row
      BY <1>6, StoreTyped DEF Keeps, StoreOK, Store
    <2>2. \A k \in Ids : Position(t, k) \in 0..MaxJobs /\ Position(t, k) <= Cardinality(Used(t))
      BY PositionTyped, RowsTyped, QueueAssumption
    <2>3. \A k \in Ids :
            /\ row(k) \in Row /\ row(k).status = t.row[k].status /\ row(k).path = t.row[k].path
            /\ k \in Queued(t) => row(k).order = Position(t, k)
      BY <2>1, <2>2 DEF Row
    <2> HIDE DEF row
    <2>4. u \in Store /\ u.disk = t.disk /\ \A k \in Ids : u.row[k] = row(k)
      BY <2>1, <2>3 DEF Store
    <2> HIDE DEF u
    <2>5. \A k \in Queued(t) : k \in Ids /\ u.row[k].order = Position(t, k)
      BY <2>3, <2>4, RowsTyped
    <2>6. \A i, k \in Queued(t) : u.row[i].order = 0 /\ u.row[k].order = 0 => i = k
      BY <2>1, <2>5, OneIsFirst
    <2>7. StoreOK(t)
      BY <1>6 DEF Keeps
    <2> QED BY <2>2, <2>3, <2>4, <2>5, <2>6, <2>7, RenumberKeeps
  <1> QED BY <1>4, <1>6, <1>7, KeepsTwice

\* reorder_queue: whatever index a job is moved to, one job has number 0.
LEMMA ReorderKeeps ==
    ASSUME NEW s, StoreOK(s), NEW j \in Queued(s), NEW n \in Nat
    PROVE  Keeps(s, Reorder(s, j, n))
PROOF
  <1> DEFINE rest(k) == Cardinality({i \in Queued(s) \ {j} : Before(s, i, k)})
             at == IF n < QueueLen(s) THEN n ELSE QueueLen(s) - 1
             index(k) == IF k = j THEN at ELSE IF rest(k) < at THEN rest(k) ELSE rest(k) + 1
             row(k) == IF k \in Queued(s) THEN [s.row[k] EXCEPT !.order = index(k)]
                       ELSE s.row[k]
             rows == [k \in Ids |-> row(k)]
             u == [row |-> rows, disk |-> s.disk]
  <1>0. /\ s \in Store /\ s.row \in [Ids -> Row] /\ s.disk \in [Ids -> Paths]
        /\ s = [row |-> s.row, disk |-> s.disk]
        /\ Queued(s) \subseteq Ids /\ MaxJobs \in Nat
    BY RowsTyped, QueueAssumption DEF StoreOK, Store
  <1>1. Reorder(s, j, n) = u
    <2>1. Reorder(s, j, n) = [s EXCEPT !.row = rows]
      BY DEF Reorder
    <2> HIDE DEF rows
    <2> QED BY <1>0, <2>1
  <1>2. QueueLen(s) \in Nat /\ 0 < QueueLen(s) /\ QueueLen(s) <= Cardinality(Used(s))
        /\ Cardinality(Used(s)) \in 0..MaxJobs
    BY <1>0, RowsTyped
  <1>3. at \in 0 .. (QueueLen(s) - 1)
    BY <1>2
  <1>4. \A k \in Ids :
          /\ rest(k) \in 0 .. (QueueLen(s) - 1)
          /\ rest(k) = 0 => \A i \in Queued(s) \ {j} : ~Before(s, i, k)
    <2> TAKE k \in Ids
    <2> DEFINE Ahead == {i \in Queued(s) \ {j} : Before(s, i, k)}
    <2>1. Ahead \in SUBSET (Queued(s) \ {j}) /\ Queued(s) \ {j} \in SUBSET Queued(s)
          /\ Queued(s) \in SUBSET Ids
      BY <1>0
    <2>2. Cardinality(Queued(s) \ {j}) = QueueLen(s) - 1
      BY <2>1, Counted, FS_RemoveElement DEF QueueLen
    <2>3. Ahead = {} => \A i \in Queued(s) \ {j} : ~Before(s, i, k)
      OBVIOUS
    <2> HIDE DEF Ahead
    <2>4. /\ Cardinality(Ahead) \in Nat /\ Cardinality(Ahead) <= QueueLen(s) - 1
          /\ Cardinality(Ahead) = 0 <=> Ahead = {}
      BY <2>1, <2>2, Counted
    <2>5. rest(k) = Cardinality(Ahead)
      BY DEF Ahead
    <2> HIDE DEF rest
    <2> QED BY <1>2, <2>3, <2>4, <2>5
  <1> HIDE DEF rest, at
  <1>5. \A k \in Ids : index(k) \in 0 .. QueueLen(s)
    BY <1>2, <1>3, <1>4
  <1>6. \A i, k \in Queued(s) : index(i) = 0 /\ index(k) = 0 => i = k
    <2> SUFFICES ASSUME NEW i \in Queued(s), NEW k \in Queued(s),
                        index(i) = 0, index(k) = 0, i # k
                 PROVE  FALSE
      OBVIOUS
    <2>1. i \in Ids /\ k \in Ids
      BY <1>0
    <2>2. rest(i) \in Nat /\ rest(k) \in Nat /\ at \in Nat
      BY <1>2, <1>3, <1>4, <2>1
    <2>3. i # j /\ k # j /\ rest(i) = 0 /\ rest(k) = 0
      BY <2>2
    <2>4. ~Before(s, i, k) /\ ~Before(s, k, i)
      BY <1>4, <2>1, <2>3
    <2>5. s.row[i].order \in Nat /\ s.row[k].order \in Nat /\ i \in Nat /\ k \in Nat
      BY <1>0, <2>1, StoreTyped DEF Ids
    <2> QED BY <2>4, <2>5 DEF Before
  <1> HIDE DEF index
  <1>7. \A k \in Ids :
          /\ row(k) \in Row /\ row(k).status = s.row[k].status /\ row(k).path = s.row[k].path
          /\ k \in Queued(s) => row(k).order = index(k)
    <2>1. \A k \in Ids : index(k) \in 0..MaxJobs /\ s.row[k] \in Row
      BY <1>0, <1>2, <1>5
    <2> QED BY <2>1 DEF Row
  <1> HIDE DEF row
  <1>8. u \in Store /\ u.disk = s.disk /\ \A k \in Ids : u.row[k] = row(k)
    BY <1>0, <1>7 DEF Store
  <1> HIDE DEF rows, u
  <1>9. \A k \in Queued(s) : k \in Ids /\ u.row[k].order = index(k)
    BY <1>0, <1>7, <1>8
  <1>10. \A k \in Queued(s) : u.row[k].order <= Cardinality(Used(s))
    BY <1>2, <1>5, <1>9
  <1>11. \A k \in Ids : u.row[k].status = s.row[k].status /\ u.row[k].path = s.row[k].path
    BY <1>7, <1>8
  <1>12. \A i, k \in Queued(s) : u.row[i].order = 0 /\ u.row[k].order = 0 => i = k
    BY <1>6, <1>9
  <1>13. Keeps(s, u)
    BY <1>8, <1>10, <1>11, <1>12, RenumberKeeps, Zenon
  <1> QED BY <1>1, <1>13, Zenon

\* What has outlived its retention goes, whichever rows it belongs to.
LEMMA ExpireKeeps ==
    ASSUME NEW s, StoreOK(s), NEW Expired
    PROVE  Keeps(s, [s EXCEPT
                       !.disk = [j \in Ids |-> IF j \in Expired THEN NoPath ELSE @[j]],
                       !.row = [j \in Ids |->
                           IF j \in Expired THEN [@[j] EXCEPT !.path = NoPath] ELSE @[j]]])
PROOF
  <1> DEFINE disk == [j \in Ids |-> IF j \in Expired THEN NoPath ELSE s.disk[j]]
             row(j) == IF j \in Expired THEN [s.row[j] EXCEPT !.path = NoPath] ELSE s.row[j]
             rows == [j \in Ids |-> row(j)]
             t == [row |-> rows, disk |-> disk]
  <1>0. /\ s \in Store /\ s.row \in [Ids -> Row] /\ s.disk \in [Ids -> Paths]
        /\ s = [row |-> s.row, disk |-> s.disk] /\ NoPath \in Paths
    BY DEF StoreOK, Store, Paths
  <1>1. [s EXCEPT !.disk = [j \in Ids |-> IF j \in Expired THEN NoPath ELSE @[j]],
                  !.row = [j \in Ids |->
                      IF j \in Expired THEN [@[j] EXCEPT !.path = NoPath] ELSE @[j]]] = t
    <2> SUFFICES [s EXCEPT !.disk = disk, !.row = rows] = t
      OBVIOUS
    <2> HIDE DEF disk, rows
    <2>1. [s EXCEPT !.disk = disk] = [row |-> s.row, disk |-> disk]
      BY <1>0 DEF Store
    <2>2. [[row |-> s.row, disk |-> disk] EXCEPT !.row = rows] = t
      OBVIOUS
    <2>3. [s EXCEPT !.disk = disk, !.row = rows] = [[s EXCEPT !.disk = disk] EXCEPT !.row = rows]
      OBVIOUS
    <2> QED BY <2>1, <2>2, <2>3, Zenon
  <1>2. \A j \in Ids :
          /\ row(j) \in Row /\ row(j).status = s.row[j].status
          /\ row(j).order = s.row[j].order
          /\ row(j).path = IF j \in Expired THEN NoPath ELSE s.row[j].path
    BY <1>0 DEF Row
  <1> HIDE DEF row
  <1>3. /\ t \in Store
        /\ \A j \in Ids : t.row[j] = row(j)
        /\ \A j \in Ids : t.disk[j] = IF j \in Expired THEN NoPath ELSE s.disk[j]
    BY <1>0, <1>2 DEF Store
  <1> HIDE DEF t, rows, disk
  <1>4. Used(t) = Used(s) /\ Queued(t) = Queued(s)
    BY <1>2, <1>3 DEF Used, Queued, Rows
  <1>5. FilesThere(t)
    BY <1>2, <1>3 DEF StoreOK, FilesThere
  <1>6. FilesOwned(t)
    BY <1>2, <1>3 DEF StoreOK, FilesOwned, IsTerminal, Exists, NoPath, ActivePath
  <1>7. OrdersOK(t)
    BY <1>2, <1>3, <1>4, RowsTyped DEF StoreOK, OrdersOK
  <1>8. Evolves(s, t)
    BY <1>3, <1>4 DEF Evolves, NoPath, ActivePath
  <1>9. Keeps(s, t)
    BY <1>3, <1>5, <1>6, <1>7, <1>8 DEF Keeps, StoreOK
  <1> QED BY <1>1, <1>9, Zenon

LEMMA FinishLeavesOthers ==
    ASSUME NEW s \in Store, NEW j \in Ids, NEW st
    PROVE  \A k \in Ids \ {j} :
             /\ Finish(s, j, st).row[k] = s.row[k] /\ Finish(s, j, st).disk[k] = s.disk[k]
PROOF
  <1>0. /\ s.row \in [Ids -> Row] /\ s.disk \in [Ids -> Paths]
        /\ s = [row |-> s.row, disk |-> s.disk]
    BY DEF Store
  <1> DEFINE t == Retained(s, j, s.row[j].path)
  <1>1. /\ t = [row |-> t.row, disk |-> t.disk]
        /\ \A k \in Ids \ {j} : t.row[k] = s.row[k] /\ t.disk[k] = s.disk[k]
        /\ DOMAIN t.row = Ids
    BY <1>0 DEF Retained, Store
  <1>2. Finish(s, j, st) = IF Exists(s, j) THEN SetStatus(t, j, st) ELSE s
    BY DEF Finish
  <1> HIDE DEF t
  <1>3. \A k \in Ids \ {j} : /\ SetStatus(t, j, st).row[k] = t.row[k]
                            /\ SetStatus(t, j, st).disk[k] = t.disk[k]
    BY <1>1 DEF SetStatus
  <1> QED BY <1>1, <1>2, <1>3

LEMMA ActiveTyped ==
    ASSUME NEW s
    PROVE  /\ ActiveJob(s) \in Ids \cup {NoId}
           /\ ActiveJob(s) # NoId => ActiveJob(s) \in Rows(s, FlashStatuses)
           /\ Rows(s, FlashStatuses) \subseteq Used(s)
PROOF
  <1>1. Rows(s, FlashStatuses) \in SUBSET Ids
    BY DEF Rows
  <1>2. \A j \in Ids : j # NoId
    BY DEF Ids, NoId
  <1>3. Least({}) = NoId
    BY DEF Least
  <1>4. ActiveJob(s) # NoId => ActiveJob(s) \in Rows(s, FlashStatuses)
    BY <1>1, <1>3, LeastId DEF ActiveJob
  <1> QED BY <1>1, <1>4, LeastId DEF ActiveJob, Rows, Used, FlashStatuses

\* _recover_startup.
LEMMA RecoveredKeeps ==
    ASSUME SuspendedOK, NEW s, StoreOK(s)
    PROVE  Keeps(s, Recovered(s))
PROOF
  <1> DEFINE pending == Rows(s, {"PENDING_CONFIRM"})
             failed  == IF ActiveJob(s) = NoId THEN s ELSE Fail(s, ActiveJob(s))
             row(j)  == IF j \in pending THEN NoRow("deleted")
                        ELSE IF j \in Queued(s) /\ pending # {}
                             THEN [failed.row[j] EXCEPT !.order = Position(s, j)]
                             ELSE failed.row[j]
             t == [row  |-> [j \in Ids |-> row(j)],
                   disk |-> [j \in Ids |-> IF j \in pending THEN NoPath ELSE failed.disk[j]]]
  <1>1. Recovered(s) = t
    BY DEF Recovered
  <1>2. Keeps(s, failed)
    BY KeepsNothing, FailKeeps, ActiveTyped
  <1>3. \A j \in Queued(s) : j \in Ids /\ failed.row[j] = s.row[j]
    <2> SUFFICES ASSUME NEW j \in Queued(s) PROVE j \in Ids /\ failed.row[j] = s.row[j]
      OBVIOUS
    <2>1. j \in Ids /\ j \notin Rows(s, FlashStatuses)
      BY DEF Queued, Rows, FlashStatuses
    <2>2. s \in Store
      BY DEF StoreOK
    <2>3. ActiveJob(s) # NoId => ActiveJob(s) # j /\ ActiveJob(s) \in Ids
      BY <2>1, ActiveTyped
    <2> QED BY <2>1, <2>2, <2>3, FinishLeavesOthers DEF Fail
  <1>4. \A j \in Ids : failed.row[j].status = "QUEUED" => j \in Queued(s)
    <2> SUFFICES ASSUME NEW j \in Ids, failed.row[j].status = "QUEUED" PROVE j \in Queued(s)
      OBVIOUS
    <2>1. CASE failed = s
      BY <2>1 DEF Queued, Rows
    <2>2. CASE ActiveJob(s) # NoId
      <3>1. ActiveJob(s) \in Ids /\ Exists(s, ActiveJob(s)) /\ s \in Store
        BY <2>2, ActiveTyped DEF Rows, Exists, Statuses, ActiveStatuses, StoreOK
      <3>2. CASE j # ActiveJob(s)
        BY <2>2, <3>1, <3>2, FinishLeavesOthers DEF Fail, Queued, Rows
      <3>3. CASE j = ActiveJob(s)
        <4> DEFINE u == Retained(s, j, s.row[j].path)
        <4>1. failed = SetStatus(u, j, "FAILED")
          BY <2>2, <3>1, <3>3 DEF Fail, Finish
        <4>2. u \in Store /\ u.row[j].status = s.row[j].status
          <5>1. j \in Used(s) /\ (s.disk[j] = ActivePath => s.row[j].path = ActivePath)
            BY <3>1, <3>3 DEF Exists, Used, StoreOK, FilesOwned, Statuses, ActiveStatuses,
                              FlashStatuses, Terminal
          <5> QED BY <5>1, RetainedKeeps DEF Keeps, StoreOK
        <4> HIDE DEF u, failed
        <4>3. Exists(u, j)
          BY <3>1, <3>3, <4>2 DEF Exists
        <4>4. failed.row[j].status = "FAILED"
          BY <4>1, <4>2, <4>3 DEF SetStatus, Store, Row
        <4> QED BY <4>4
      <3> QED BY <3>2, <3>3
    <2> QED BY <2>1, <2>2
  <1> HIDE DEF failed
  <1>5. /\ failed.row \in [Ids -> Row] /\ failed.disk \in [Ids -> Paths]
        /\ NoRow("deleted") \in Row /\ NoPath \in Paths
        /\ s \in Store /\ MaxJobs \in Nat
    BY <1>2, QueueAssumption DEF Keeps, StoreOK, Store, NoRow, Row, Paths
  <1>6. \A j \in Ids : Position(s, j) \in 0..MaxJobs /\ Position(s, j) <= Cardinality(Used(s))
    BY <1>5, PositionTyped, RowsTyped
  <1>7. \A j \in Ids :
          /\ row(j) \in Row
          /\ j \in pending => row(j) = NoRow("deleted")
          /\ j \notin pending => /\ row(j).status = failed.row[j].status
                                 /\ row(j).path = failed.row[j].path
          /\ j \notin pending /\ j \in Queued(s) =>
               row(j).order = IF pending # {} THEN Position(s, j) ELSE failed.row[j].order
    BY <1>5, <1>6 DEF Row
  <1> HIDE DEF row
  <1>8. /\ t \in Store
        /\ \A j \in Ids : t.row[j] = row(j)
        /\ \A j \in Ids : t.disk[j] = IF j \in pending THEN NoPath ELSE failed.disk[j]
    BY <1>5, <1>7 DEF Store
  <1> HIDE DEF t
  <1>9. Queued(t) \subseteq Queued(s) /\ Queued(t) \cap pending = {} /\ Queued(t) \subseteq Ids
    BY <1>4, <1>7, <1>8 DEF Queued, Rows, NoRow
  <1>10. Used(s) \subseteq Used(t)
    <2> SUFFICES ASSUME NEW j \in Used(s) PROVE j \in Used(t)
      OBVIOUS
    <2>1. j \in Ids /\ failed.row[j].status # "none"
      BY <1>2 DEF Keeps, Evolves, Used
    <2> QED BY <1>7, <1>8, <2>1 DEF Used, NoRow
  <1>11. FilesThere(t)
    BY <1>2, <1>7, <1>8 DEF Keeps, StoreOK, FilesThere, NoRow
  <1>12. FilesOwned(t)
    BY <1>2, <1>7, <1>8 DEF Keeps, StoreOK, FilesOwned, IsTerminal, Exists, NoPath, ActivePath
  <1>13. OrdersOK(t)
    <2>1. Cardinality(Used(s)) \in Nat /\ Cardinality(Used(t)) \in Nat
          /\ Cardinality(Used(s)) <= Cardinality(Used(t))
      BY <1>10, Counted, RowsTyped
    <2>2. \A j \in Queued(s) : s.row[j].order \in Nat
      BY <1>3, <1>5, StoreTyped
    <2>3. \A j \in Queued(t) :
            /\ j \in Queued(s) /\ j \in Ids /\ j \notin pending
            /\ t.row[j].order = IF pending # {} THEN Position(s, j) ELSE s.row[j].order
      BY <1>3, <1>7, <1>8, <1>9
    <2>4. ASSUME NEW j \in Queued(t) PROVE t.row[j].order <= Cardinality(Used(t))
      BY <1>6, <2>1, <2>2, <2>3 DEF StoreOK, OrdersOK
    <2>5. \A j, k \in Queued(t) : t.row[j].order = 0 /\ t.row[k].order = 0 => j = k
      BY <1>5, <2>3, OneIsFirst DEF StoreOK, OrdersOK
    <2> QED BY <2>4, <2>5 DEF OrdersOK
  <1>14. Evolves(s, t)
    BY <1>2, <1>8, <1>10 DEF Keeps, Evolves, NoPath, ActivePath
  <1> QED BY <1>1, <1>8, <1>11, <1>12, <1>13, <1>14 DEF Keeps, StoreOK

-----------------------------------------------------------------------------
(* The steps.                                                              *)

LEMMA StoreStays ==
    ASSUME IInv, UNCHANGED store
    PROVE  Keeps(store, store')
  BY KeepsNothing DEF IInv

\* What was read before an await is as good after it.
LEMMA SuspendedStays ==
    ASSUME SuspendedOK, Keeps(store, store'), UNCHANGED <<sending, aborting, uploads>>
    PROVE  SuspendedOK'
PROOF
  <1>1. ASSUME aborting.job # NoId
        PROVE  /\ aborting.job \in Used(store')
               /\ store'.disk[aborting.job] = ActivePath => aborting.path = ActivePath
    <2>1. aborting.job \in Used(store) /\ aborting.job \in Ids
      BY <1>1, RowsTyped DEF SuspendedOK
    <2> QED BY <1>1, <2>1 DEF SuspendedOK, Keeps, Evolves
  <1> QED BY <1>1 DEF SuspendedOK

LEMMA Together ==
    ASSUME IInv, Keeps(store, store'), UNCHANGED <<sending, aborting, uploads>>,
           WorkerOK', BridgeOK', HandlersFollowWorker'
    PROVE  IInv'
PROOF
  <1>1. SuspendedOK'
    BY SuspendedStays DEF IInv
  <1> QED BY <1>1 DEF IInv, Keeps

LEMMA IdsAreIds ==
    NoId \notin Ids /\ \A j \in Ids \cup {NoId} : j # NoId => j \in Ids
  BY DEF Ids, NoId

LEMMA GoDequeueTyped ==
    ASSUME NEW s \in Store, GoDequeue(s)
    PROVE  /\ pc' \in {"pick", "dequeue"} /\ cur' \in Ids \cup {NoId}
           /\ pc' = "dequeue" => cur' # NoId
           /\ seen' = "none" /\ term' = "none"
  BY NextQueuedTyped DEF GoDequeue

\* Every way out of a job.
LEMMA CloseJobKeeps ==
    ASSUME IInv, NEW s, Keeps(store, s), CloseJob(s),
           UNCHANGED <<paused, sending, aborting, uploads>>,
           retries' \in [Ids -> 0..StartRetries], dqFails' = dqFails,
           bridge' \in Ids \cup {NoId, Ended}, answer' = "none", faults' \in 0..MaxFaults
    PROVE  IInv'
PROOF
  <1>1. s \in Store /\ store' = s /\ handlers' = NoId /\ GoDequeue(s)
    BY DEF Keeps, StoreOK, CloseJob
  <1>2. WorkerOK'
    BY <1>1, GoDequeueTyped DEF IInv, WorkerOK, Pcs
  <1>3. BridgeOK'
    BY DEF BridgeOK
  <1>4. HandlersFollowWorker'
    BY <1>1 DEF HandlersFollowWorker
  <1> QED BY <1>1, <1>2, <1>3, <1>4, Together

\* The worker awaits something else and keeps its job.
LEMMA AwaitKeeps ==
    ASSUME IInv, Keeps(store, store'),
           pc \notin {"pick", "sleep", "dequeue", "connect"},
           pc' \in {"wait", "giveup", "rejoin", "lookup"},
           seen' \in Statuses \cup {"none"}, term' \in {"none", "end", "rejoin"},
           UNCHANGED <<paused, retries, dqFails, cur, handlers, sending, aborting, uploads>>,
           bridge' \in Ids \cup {NoId, Ended}, answer' = "none", faults' \in 0..MaxFaults
    PROVE  IInv'
PROOF
  <1>1. WorkerOK'
    BY DEF IInv, WorkerOK, Pcs
  <1>2. BridgeOK'
    BY DEF BridgeOK
  <1>3. HandlersFollowWorker'
    BY DEF IInv, HandlersFollowWorker
  <1> QED BY <1>1, <1>2, <1>3, Together

\* The worker is where it was; a handler or an event touched the rest.
LEMMA AroundWorkerKeeps ==
    ASSUME IInv, Keeps(store, store'), SuspendedOK',
           UNCHANGED <<retries, dqFails, pc, cur, seen, handlers, answer>>,
           paused' \in BOOLEAN, term' \in {"none", "end", "rejoin"},
           bridge' \in Ids \cup {NoId, Ended}, faults' \in 0..MaxFaults
    PROVE  IInv'
PROOF
  <1>1. WorkerOK' /\ BridgeOK'
    BY DEF IInv, WorkerOK, BridgeOK
  <1>2. HandlersFollowWorker'
    BY DEF IInv, HandlersFollowWorker
  <1> QED BY <1>1, <1>2 DEF IInv, Keeps

LEMMA HttpKeeps ==
    ASSUME IInv, NEW s, Keeps(store, s), HttpChanges(s)
    PROVE  IInv'
PROOF
  <1>1. Keeps(store, store') /\ UNCHANGED HttpRest
    BY DEF HttpChanges
  <1>2. SuspendedOK'
    BY <1>1, SuspendedStays DEF IInv, HttpRest
  <1> QED BY <1>1, <1>2, AroundWorkerKeeps
          DEF IInv, WorkerOK, BridgeOK, HttpRest, workerVars, bridgeVars

\* What a step that belongs to the worker's job starts from.
LEMMA AtJob ==
    ASSUME IInv, pc \notin {"pick", "sleep"}
    PROVE  /\ cur \in Ids /\ StoreOK(store) /\ SuspendedOK
           /\ store.row[cur].status \in Statuses \cup {"none", "deleted"}
           /\ ~IsTerminal(store, cur) => store.row[cur].status \in Statuses
PROOF
  <1>1. cur \in Ids
    BY IdsAreIds DEF IInv, WorkerOK
  <1> QED BY <1>1, StoreTyped DEF IInv, StoreOK, IsTerminal, Exists

LEMMA AnswerIsNone ==
    ASSUME IInv, pc # "start"
    PROVE  answer = "none"
  BY DEF IInv, BridgeOK

LEMMA WorkerPickKeeps ==
    ASSUME IInv, WorkerPick
    PROVE  IInv'
PROOF
  <1> DEFINE j == ActiveJob(store)
  <1>0. /\ pc = "pick" /\ handlers = NoId /\ answer = "none"
        /\ UNCHANGED <<paused, retries, dqFails, handlers, sending, aborting, uploads>>
        /\ UNCHANGED <<bridge, answer, faults>>
    BY AnswerIsNone DEF WorkerPick, IInv, HandlersFollowWorker, bridgeVars
  <1>1. j \in Ids \cup {NoId} /\ (j # NoId => store.row[j].status \in FlashStatuses)
    BY ActiveTyped DEF Rows
  <1>2. CASE pc' = "sleep" /\ UNCHANGED <<store, cur, seen, term>>
    <2>1. WorkerOK' /\ BridgeOK' /\ HandlersFollowWorker'
      BY <1>0, <1>2 DEF IInv, WorkerOK, BridgeOK, HandlersFollowWorker, Pcs
    <2> QED BY <1>0, <1>2, <2>1, StoreStays, Together
  <1>3. CASE /\ j # NoId /\ pc' \in {"lookup", "connect"} /\ cur' = j
             /\ seen' \in {seen, store.row[j].status} /\ UNCHANGED <<store, term>>
    <2>1. seen' \in Statuses \cup {"none"}
      BY <1>1, <1>3 DEF IInv, WorkerOK, Statuses, ActiveStatuses
    <2>2. WorkerOK' /\ BridgeOK' /\ HandlersFollowWorker'
      BY <1>0, <1>1, <1>3, <2>1 DEF IInv, WorkerOK, BridgeOK, HandlersFollowWorker, Pcs
    <2> QED BY <1>0, <1>3, <2>2, StoreStays, Together
  <1>4. CASE j # NoId /\ store' = Fail(store, j) /\ GoDequeue(store')
    <2>1. Keeps(store, Fail(store, j))
      BY <1>1, <1>4, FailKeeps DEF IInv
    <2>2. CloseJob(Fail(store, j))
      BY <1>0, <1>4 DEF CloseJob
    <2> QED BY <1>0, <2>1, <2>2, CloseJobKeeps DEF IInv, WorkerOK, BridgeOK
  <1> QED BY <1>2, <1>3, <1>4 DEF WorkerPick

LEMMA WorkerWakesKeeps ==
    ASSUME IInv, NEW Expired, WorkerWakes(Expired)
    PROVE  IInv'
PROOF
  <1>1. Keeps(store, store')
    BY ExpireKeeps DEF IInv, WorkerWakes
  <1>2. /\ pc = "sleep" /\ handlers = NoId /\ answer = "none"
    BY AnswerIsNone DEF WorkerWakes, IInv, HandlersFollowWorker
  <1>3. CloseJob(store')
    BY <1>2 DEF WorkerWakes, CloseJob
  <1> QED BY <1>1, <1>2, <1>3, CloseJobKeeps
          DEF WorkerWakes, IInv, WorkerOK, BridgeOK, bridgeVars

LEMMA DequeueKeeps ==
    ASSUME IInv, DequeueFound \/ DequeueFails
    PROVE  IInv'
PROOF
  <1>0. /\ pc = "dequeue" /\ pc' = "pick" /\ cur' = NoId
        /\ UNCHANGED <<paused, retries, seen, term, handlers, sending, aborting, uploads>>
        /\ UNCHANGED <<bridge, answer, faults>>
    BY DEF DequeueFound, DequeueFails, bridgeVars
  <1>1. cur \in Ids /\ StoreOK(store) /\ answer = "none" /\ handlers = NoId
    BY <1>0, AtJob, AnswerIsNone DEF IInv, HandlersFollowWorker
  <1>2. dqFails \in [Ids -> 0..DequeueAttempts] /\ DequeueAttempts \in Nat \ {0}
    BY QueueAssumption DEF IInv, WorkerOK
  <1>3. CASE DequeueFound
    <2>1. "STARTING" \in Statuses \ Terminal
      BY DEF Statuses, ActiveStatuses, FlashStatuses, Terminal
    <2>2. Keeps(store, store')
      BY <1>1, <1>3, <2>1, SetStatusKeeps DEF DequeueFound
    <2>3. dqFails' \in [Ids -> 0..DequeueAttempts]
      <3>1. 0 \in 0..DequeueAttempts /\ dqFails' = [dqFails EXCEPT ![cur] = 0]
        BY <1>2, <1>3 DEF DequeueFound
      <3> QED BY <1>2, <3>1
    <2>4. WorkerOK' /\ BridgeOK' /\ HandlersFollowWorker'
      BY <1>0, <1>1, <2>3 DEF IInv, WorkerOK, BridgeOK, HandlersFollowWorker, Pcs
    <2> QED BY <1>0, <2>2, <2>4, Together
  <1>4. CASE DequeueFails
    <2>1. Keeps(store, store')
      BY <1>1, <1>4, KeepsNothing, SetOrderKeeps DEF DequeueFails
    <2>2. dqFails' \in [Ids -> 0..DequeueAttempts]
      <3>1. dqFails[cur] \in 0..DequeueAttempts
        BY <1>1, <1>2
      <3>2. CASE /\ ~(dqFails[cur] + 1 >= DequeueAttempts)
                 /\ dqFails' = [dqFails EXCEPT ![cur] = dqFails[cur] + 1]
        <4>1. dqFails[cur] + 1 \in 0..DequeueAttempts
          BY <1>2, <3>1, <3>2
        <4> QED BY <1>2, <3>2, <4>1
      <3>3. CASE \E n \in {0, DequeueAttempts} : dqFails' = [dqFails EXCEPT ![cur] = n]
        <4>1. {0, DequeueAttempts} \subseteq 0..DequeueAttempts
          BY <1>2
        <4> QED BY <1>2, <3>3, <4>1
      <3> QED BY <1>4, <3>2, <3>3 DEF DequeueFails
    <2>3. WorkerOK' /\ BridgeOK' /\ HandlersFollowWorker'
      BY <1>0, <1>1, <2>2 DEF IInv, WorkerOK, BridgeOK, HandlersFollowWorker, Pcs
    <2> QED BY <1>0, <2>1, <2>3, Together
  <1> QED BY <1>3, <1>4

LEMMA ConnectKeeps ==
    ASSUME IInv, WorkerConnects \/ WorkerResumesEnded \/ WorkerNoBridge
    PROVE  IInv'
PROOF
  <1>0. /\ pc = "connect"
        /\ UNCHANGED <<paused, retries, dqFails, sending, aborting, uploads, bridge>>
    BY DEF WorkerConnects, WorkerResumesEnded, WorkerNoBridge, bridgeVars
  <1>1. /\ cur \in Ids /\ StoreOK(store) /\ SuspendedOK /\ answer = "none" /\ handlers = NoId
        /\ ~IsTerminal(store, cur) => store.row[cur].status \in Statuses
    BY <1>0, AtJob, AnswerIsNone DEF IInv, HandlersFollowWorker
  <1>2. CASE WorkerConnects
    <2>1. /\ handlers' = cur /\ UNCHANGED <<store, cur, term, faults>>
          /\ \/ pc' = "start" /\ answer' = "asked" /\ seen' = "none"
             \/ pc' = "wait" /\ answer' = answer /\ seen' \in Statuses
      BY <1>1, <1>2 DEF WorkerConnects
    <2>2. cur # NoId
      BY <1>1, IdsAreIds
    <2>3. WorkerOK'
      BY <1>0, <1>1, <2>1, <2>2 DEF IInv, WorkerOK, Pcs
    <2>4. BridgeOK' /\ HandlersFollowWorker'
      BY <1>0, <1>1, <2>1 DEF IInv, BridgeOK, HandlersFollowWorker
    <2> QED BY <1>0, <2>1, <2>3, <2>4, StoreStays, Together
  <1>3. CASE WorkerResumesEnded
    BY <1>0, <1>1, <1>3, KeepsNothing, CloseJobKeeps
       DEF WorkerResumesEnded, IInv, WorkerOK, BridgeOK, bridgeVars
  <1>4. CASE WorkerNoBridge
    <2>1. faults' \in 0..MaxFaults
      BY <1>4, QueueAssumption DEF WorkerNoBridge, IInv, BridgeOK
    <2>2. Keeps(store, Fail(store, cur))
      BY <1>1, FailKeeps
    <2> QED BY <1>0, <1>1, <1>4, <2>1, <2>2, CloseJobKeeps
            DEF WorkerNoBridge, IInv, WorkerOK, BridgeOK, bridgeVars
  <1> QED BY <1>2, <1>3, <1>4

\* The top of the transfer loop, on whatever the row says by now.
LEMMA TransferLoopKeeps ==
    ASSUME IInv, pc \in {"start", "wait"}, NEW s, Keeps(store, s), TransferLoop(s),
           UNCHANGED <<paused, retries, dqFails, sending, aborting, uploads, bridge, faults>>,
           answer' = "none"
    PROVE  IInv'
PROOF
  <1>0. cur \in Ids /\ s \in Store
    BY AtJob DEF Keeps, StoreOK
  <1>1. /\ retries' \in [Ids -> 0..StartRetries] /\ bridge' \in Ids \cup {NoId, Ended}
        /\ faults' \in 0..MaxFaults /\ term \in {"none", "end", "rejoin"}
    BY DEF IInv, WorkerOK, BridgeOK
  <1>2. CASE CloseJob(s)
    BY <1>1, <1>2, CloseJobKeeps
  <1>3. CASE /\ ~IsTerminal(s, cur) /\ store' = s /\ seen' = s.row[cur].status
             /\ Await("wait")
    <2>1. seen' \in Statuses
      BY <1>3 DEF IsTerminal, Exists
    <2> QED BY <1>1, <1>3, <2>1, AwaitKeeps DEF Await
  <1> QED BY <1>2, <1>3 DEF TransferLoop

LEMMA StartKeeps ==
    ASSUME IInv, StartAccepted \/ \E lost \in BOOLEAN : StartFailed(lost)
    PROVE  IInv'
PROOF
  <1>0. pc = "start" /\ cur \in Ids /\ StoreOK(store) /\ SuspendedOK
    BY AtJob DEF StartAccepted, StartFailed
  <1>1. CASE StartAccepted
    <2>1. "TRANSFERRING" \in Statuses \ Terminal
      BY DEF Statuses, ActiveStatuses, FlashStatuses, Terminal
    <2>2. Keeps(store, SetStatus(store, cur, "TRANSFERRING"))
      BY <1>0, <2>1, SetStatusKeeps
    <2> QED BY <1>0, <1>1, <2>2, TransferLoopKeeps DEF StartAccepted
  <1>2. CASE \E lost \in BOOLEAN : StartFailed(lost)
    <2>1. PICK lost \in BOOLEAN : StartFailed(lost)
      BY <1>2
    <2>2. /\ faults' \in 0..MaxFaults /\ bridge' \in Ids \cup {NoId, Ended}
          /\ UNCHANGED <<paused, dqFails, sending, aborting, uploads>> /\ answer' = "none"
      BY <2>1, QueueAssumption DEF StartFailed, IInv, BridgeOK
    <2>3. retries \in [Ids -> 0..StartRetries] /\ StartRetries \in Nat
      BY QueueAssumption DEF IInv, WorkerOK
    <2>4. CASE /\ RetryLeft(cur) /\ retries' = [retries EXCEPT ![cur] = @ + 1]
               /\ CloseJob(Enqueue(store, cur))
      <3>1. retries[cur] + 1 \in 0..StartRetries
        BY <1>0, <2>3, <2>4 DEF RetryLeft
      <3>2. retries' \in [Ids -> 0..StartRetries]
        BY <2>3, <2>4, <3>1
      <3> QED BY <1>0, <2>2, <2>4, <3>2, EnqueueKeeps, CloseJobKeeps
    <2>5. CASE /\ retries' = [retries EXCEPT ![cur] = 0]
               /\ CloseJob(Fail(store, cur))
      <3>1. 0 \in 0..StartRetries
        BY <2>3
      <3>2. retries' \in [Ids -> 0..StartRetries]
        BY <2>3, <2>5, <3>1
      <3> QED BY <1>0, <2>2, <2>5, <3>2, FailKeeps, CloseJobKeeps
    <2> QED BY <2>1, <2>4, <2>5 DEF StartFailed
  <1> QED BY <1>1, <1>2

\* The loop of _wait_for_rejoin.
LEMMA RejoinLoopKeeps ==
    ASSUME IInv, pc \in {"wait", "rejoin"}, RejoinLoop,
           UNCHANGED <<paused, retries, dqFails, sending, aborting, uploads, bridge,
                       answer, faults>>
    PROVE  IInv'
PROOF
  <1>1. /\ retries' \in [Ids -> 0..StartRetries] /\ bridge' \in Ids \cup {NoId, Ended}
        /\ faults' \in 0..MaxFaults /\ answer' = "none" /\ term \in {"none", "end", "rejoin"}
    BY AnswerIsNone DEF IInv, WorkerOK, BridgeOK
  <1>2. CASE CloseJob(store)
    BY <1>1, <1>2, KeepsNothing, CloseJobKeeps DEF IInv
  <1>3. CASE Await("lookup") /\ seen' = "none" /\ UNCHANGED store
    BY <1>1, <1>3, StoreStays, AwaitKeeps DEF Await
  <1> QED BY <1>2, <1>3 DEF RejoinLoop

LEMMA WaitKeeps ==
    ASSUME IInv, WorkerEnds \/ WorkerTick \/ TransferTimeout \/ WorkerStalled
    PROVE  IInv'
PROOF
  <1>0. /\ pc = "wait" /\ answer = "none"
        /\ UNCHANGED <<paused, retries, dqFails, sending, aborting, uploads, bridge, answer, faults>>
    BY AnswerIsNone DEF WorkerEnds, WorkerTick, TransferTimeout, WorkerStalled, bridgeVars
  <1>1. /\ retries \in [Ids -> 0..StartRetries] /\ bridge \in Ids \cup {NoId, Ended}
        /\ faults \in 0..MaxFaults /\ term \in {"none", "end", "rejoin"}
    BY DEF IInv, WorkerOK, BridgeOK
  <1>2. CASE CloseJob(store)
    BY <1>0, <1>1, <1>2, KeepsNothing, CloseJobKeeps DEF IInv
  <1>3. CASE RejoinLoop
    BY <1>0, <1>3, RejoinLoopKeeps
  <1>4. CASE TransferLoop(store)
    BY <1>0, <1>4, KeepsNothing, TransferLoopKeeps DEF IInv
  <1>5. CASE Await("giveup") /\ seen' = "none" /\ UNCHANGED store
    BY <1>0, <1>1, <1>5, StoreStays, AwaitKeeps DEF Await
  <1> QED BY <1>2, <1>3, <1>4, <1>5 DEF WorkerEnds, WorkerTick, TransferTimeout, WorkerStalled

\* The aborted handler of the job the worker is on.
LEMMA OnAbortedKeeps ==
    ASSUME IInv
    PROVE  Keeps(store, OnAborted(store))
PROOF
  <1>1. handlers # NoId => handlers \in Ids
    BY IdsAreIds DEF IInv, WorkerOK
  <1> QED BY <1>1, KeepsNothing, FailKeeps DEF OnAborted, IInv

LEMMA AbortTyped ==
    ASSUME IInv, AbortAnswered \/ AbortFailed
    PROVE  bridge' \in Ids \cup {NoId, Ended} /\ faults' \in 0..MaxFaults
  BY QueueAssumption DEF AbortAnswered, AbortFailed, IInv, BridgeOK

\* Whatever the handler that ran in between did to the row.
LEMMA FailAfterAborted ==
    ASSUME IInv, NEW j \in Ids
    PROVE  Keeps(store, Fail(OnAborted(store), j)) /\ Keeps(store, Fail(store, j))
PROOF
  <1> DEFINE t == OnAborted(store)
  <1>1. Keeps(store, t) /\ StoreOK(t) /\ SuspendedOK /\ StoreOK(store)
    BY OnAbortedKeeps DEF Keeps, IInv
  <1> HIDE DEF t
  <1>2. Keeps(t, Fail(t, j)) /\ Keeps(store, Fail(store, j))
    BY <1>1, FailKeeps
  <1>3. Keeps(store, Fail(t, j))
    BY <1>1, <1>2, KeepsTwice
  <1> QED BY <1>2, <1>3 DEF t

LEMMA WorkerEndsJobKeeps ==
    ASSUME IInv, \/ WorkerGivesUp
                 \/ \E st \in {"SUCCESS", "VERSION_MISMATCH"} : RejoinSeen(st)
                 \/ RejoinNotYet \/ RejoinTick \/ RejoinDeadline
    PROVE  IInv'
PROOF
  <1>0. /\ pc \in {"giveup", "lookup", "rejoin"} /\ answer = "none" /\ answer' = "none"
        /\ UNCHANGED <<paused, retries, dqFails, sending, aborting, uploads>>
    BY AnswerIsNone DEF WorkerGivesUp, RejoinSeen, RejoinNotYet, RejoinTick, RejoinDeadline,
                        bridgeVars
  <1>1. /\ cur \in Ids /\ StoreOK(store) /\ SuspendedOK
        /\ retries \in [Ids -> 0..StartRetries] /\ bridge \in Ids \cup {NoId, Ended}
        /\ faults \in 0..MaxFaults /\ term \in {"none", "end", "rejoin"}
        /\ seen \in Statuses \cup {"none"}
    BY <1>0, AtJob DEF IInv, WorkerOK, BridgeOK
  <1>2. CASE WorkerGivesUp
    <2>1. bridge' \in Ids \cup {NoId, Ended} /\ faults' \in 0..MaxFaults
      BY <1>2, AbortTyped DEF WorkerGivesUp
    <2> QED BY <1>0, <1>1, <1>2, <2>1, FailAfterAborted, CloseJobKeeps DEF WorkerGivesUp
  <1>3. CASE RejoinDeadline \/ \E st \in {"SUCCESS", "VERSION_MISMATCH"} : RejoinSeen(st)
    <2>1. \E st \in Terminal : CloseJob(Finish(store, cur, st)) /\ UNCHANGED <<bridge, faults>>
      BY <1>3 DEF RejoinDeadline, RejoinSeen, Terminal, bridgeVars
    <2> QED BY <1>0, <1>1, <2>1, FinishKeeps, CloseJobKeeps
  <1>4. CASE RejoinNotYet
    BY <1>0, <1>1, <1>4, StoreStays, AwaitKeeps DEF RejoinNotYet, Await, bridgeVars
  <1>5. CASE RejoinTick
    BY <1>5, RejoinLoopKeeps DEF RejoinTick, bridgeVars
  <1> QED BY <1>2, <1>3, <1>4, <1>5

LEMMA BridgeKeeps ==
    ASSUME IInv, \/ BridgeAnswers
                 \/ \E kind \in Progress \cup {"chunks", "success", "failed"} : BridgeReports(kind)
    PROVE  IInv'
PROOF
  <1>1. CASE BridgeAnswers
    <2>1. pc = "start"
      BY <1>1 DEF BridgeAnswers, IInv, BridgeOK
    <2>2. cur \in Ids
      BY <2>1, AtJob
    <2>3. WorkerOK' /\ BridgeOK' /\ HandlersFollowWorker'
      BY <1>1, <2>1, <2>2
         DEF BridgeAnswers, IInv, WorkerOK, BridgeOK, HandlersFollowWorker, workerVars, Pcs
    <2> QED BY <1>1, <2>3, StoreStays, Together DEF BridgeAnswers
  <1>2. CASE \E kind \in Progress \cup {"chunks", "success", "failed"} : BridgeReports(kind)
    <2>1. /\ UNCHANGED <<store, paused, workerVars, sending, aborting, uploads, answer, faults>>
          /\ bridge' \in {bridge, Ended, NoId}
      BY <1>2 DEF BridgeReports
    <2>2. SuspendedOK'
      BY <2>1, StoreStays, SuspendedStays DEF IInv
    <2> QED BY <2>1, <2>2, StoreStays, AroundWorkerKeeps
            DEF IInv, WorkerOK, BridgeOK, workerVars
  <1> QED BY <1>1, <1>2

LEMMA SetTermTyped ==
    ASSUME IInv
    PROVE  term \in {"none", "end", "rejoin"} /\ SetTerm \in {"none", "end", "rejoin"}
  BY DEF IInv, WorkerOK, SetTerm

\* A request remembered names a job.
LEMMA SendingKeeps ==
    ASSUME SuspendedOK, Keeps(store, store'), UNCHANGED <<aborting, uploads>>,
           \/ sending' = sending
           \/ sending' = Nothing
           \/ \E j \in Ids, late \in BOOLEAN : sending' = [job |-> j, late |-> late]
    PROVE  SuspendedOK'
PROOF
  <1>1. ASSUME aborting.job # NoId
        PROVE  /\ aborting.job \in Used(store')
               /\ store'.disk[aborting.job] = ActivePath => aborting.path = ActivePath
    <2>1. aborting.job \in Used(store) /\ aborting.job \in Ids
      BY <1>1, RowsTyped DEF SuspendedOK
    <2> QED BY <1>1, <2>1 DEF SuspendedOK, Keeps, Evolves
  <1>2. /\ sending' \in [job : Ids \cup {NoId}, late : BOOLEAN]
        /\ sending'.late => sending'.job # NoId
    <2>1. CASE sending' = sending
      BY <2>1 DEF SuspendedOK
    <2>2. CASE sending' = Nothing
      BY <2>2 DEF Nothing
    <2>3. CASE \E j \in Ids, late \in BOOLEAN : sending' = [job |-> j, late |-> late]
      BY <2>3, IdsAreIds
    <2> QED BY <2>1, <2>2, <2>3
  <1> QED BY <1>1, <1>2 DEF SuspendedOK

LEMMA EventKeeps ==
    ASSUME IInv, EventArrives
    PROVE  IInv'
PROOF
  <1>0. /\ UNCHANGED <<paused, retries, dqFails, pc, cur, seen, handlers, aborting, uploads,
                       bridge, answer, faults>>
        /\ StoreOK(store) /\ SuspendedOK
    BY DEF EventArrives, IInv
  <1>1. handlers # NoId => handlers \in Ids
    BY IdsAreIds DEF IInv, WorkerOK
  <1>2. CASE UNCHANGED <<store, term, sending>>
    BY <1>0, <1>2, StoreStays, SendingKeeps, SetTermTyped, AroundWorkerKeeps
       DEF IInv, WorkerOK, BridgeOK
  <1>3. CASE handlers # NoId /\ OnChunkRequest /\ UNCHANGED <<store, term>>
    <2>1. \/ sending' = sending
          \/ \E j \in Ids, late \in BOOLEAN : sending' = [job |-> j, late |-> late]
      BY <1>1, <1>3 DEF OnChunkRequest
    <2>2. SuspendedOK'
      BY <1>0, <1>3, <2>1, StoreStays, SendingKeeps
    <2> QED BY <1>0, <1>3, <2>2, StoreStays, SetTermTyped, AroundWorkerKeeps
            DEF IInv, WorkerOK, BridgeOK
  <1>4. CASE handlers # NoId /\ OnStatus(Head(events)) /\ UNCHANGED sending
    <2>1. Keeps(store, store')
      <3>1. CASE \E st \in Progress \cup {"WAITING_REJOIN"} :
                    store' = SetStatus(store, handlers, st)
        <4>1. \A st \in Progress \cup {"WAITING_REJOIN"} :
                 st \in Statuses /\ st # "QUEUED" /\ st \notin Terminal
          BY DEF Progress, Statuses, ActiveStatuses, FlashStatuses, Terminal
        <4> QED BY <1>0, <1>1, <1>4, <3>1, <4>1, SetStatusKeeps
      <3>2. CASE store' = Fail(store, handlers)
        BY <1>0, <1>1, <1>4, <3>2, FailKeeps
      <3> QED BY <1>4, <3>1, <3>2 DEF OnStatus
    <2>2. SuspendedOK'
      BY <1>0, <1>4, <2>1, SuspendedStays
    <2>3. term' \in {"none", "end", "rejoin"}
      BY <1>4, SetTermTyped DEF OnStatus
    <2> QED BY <1>0, <2>1, <2>2, <2>3, AroundWorkerKeeps DEF IInv, WorkerOK, BridgeOK
  <1> QED BY <1>2, <1>3, <1>4 DEF EventArrives

LEMMA RequestEndsKeeps ==
    ASSUME IInv, LateRequestEnds \/ \E ok \in BOOLEAN : ChunksSent(ok)
    PROVE  IInv'
PROOF
  <1>0. StoreOK(store) /\ SuspendedOK
    BY DEF IInv
  <1>1. CASE \E ok \in BOOLEAN : ChunksSent(ok)
    <2>1. sending.job \in Ids
      BY <1>1, IdsAreIds DEF ChunksSent, IInv, SuspendedOK
    <2>2. "TRANSFERRING" \in Statuses \ Terminal
      BY DEF Statuses, ActiveStatuses, FlashStatuses, Terminal
    <2>3. Keeps(store, store')
      BY <1>0, <1>1, <2>1, <2>2, SetStatusKeeps, KeepsNothing DEF ChunksSent
    <2>4. SuspendedOK'
      BY <1>0, <1>1, <2>3, SendingKeeps DEF ChunksSent
    <2> QED BY <1>1, <2>3, <2>4, AroundWorkerKeeps
            DEF ChunksSent, IInv, WorkerOK, BridgeOK, workerVars, bridgeVars
  <1>2. CASE LateRequestEnds
    <2>1. sending.job \in Ids
      BY <1>2, IdsAreIds DEF LateRequestEnds, IInv, SuspendedOK
    <2>2. Keeps(store, store')
      BY <1>2, <2>1, FailAfterAborted DEF LateRequestEnds
    <2>3. SuspendedOK'
      BY <1>0, <1>2, <2>2, SendingKeeps DEF LateRequestEnds
    <2>4. bridge' \in Ids \cup {NoId, Ended} /\ faults' \in 0..MaxFaults
      BY <1>2, AbortTyped DEF LateRequestEnds
    <2>5. term' \in {"none", "end", "rejoin"}
      BY <1>2, SetTermTyped DEF LateRequestEnds
    <2> QED BY <1>2, <2>2, <2>3, <2>4, <2>5, AroundWorkerKeeps
            DEF LateRequestEnds, IInv, WorkerOK
  <1> QED BY <1>1, <1>2

LEMMA GreatestPending ==
    ASSUME NEW s, NEW d
    PROVE  LET pending == Greatest(OfDevice(s, d, {"PENDING_CONFIRM"}))
           IN pending # NoId => pending \in Ids /\ pending \in Used(s)
PROOF
  <1> DEFINE S == OfDevice(s, d, {"PENDING_CONFIRM"})
  <1>1. S \in SUBSET Ids /\ S \subseteq Used(s)
    BY DEF OfDevice, Rows, Used
  <1>2. Greatest({}) = NoId
    BY DEF Greatest
  <1> HIDE DEF S
  <1>3. Greatest(S) # NoId => Greatest(S) \in S
    BY <1>1, <1>2, GreatestId
  <1> QED BY <1>1, <1>3 DEF S

LEMMA ConfirmKeeps ==
    ASSUME NEW s, StoreOK(s), NEW j \in Ids
    PROVE  Keeps(s, ConfirmJob(s, j))
PROOF
  <1>1. "STARTING" \in Statuses \ Terminal
    BY DEF Statuses, ActiveStatuses, FlashStatuses, Terminal
  <1> QED BY <1>1, EnqueueKeeps, SetStatusKeeps DEF ConfirmJob

LEMMA UploadKeeps ==
    ASSUME IInv, NEW d \in Devices,
           UploadBegins(d) \/ \E ok \in BOOLEAN : UploadEnds(d, ok)
    PROVE  IInv'
PROOF
  <1>0. /\ StoreOK(store) /\ SuspendedOK
        /\ UNCHANGED <<paused, workerVars, sending, aborting, bridgeVars, faults>>
        /\ uploads \in [Devices -> 0..MaxJobs] /\ MaxJobs \in Nat
    BY QueueAssumption DEF IInv, SuspendedOK, UploadBegins, UploadEnds
  <1>1. Keeps(store, store') /\ uploads' \in [Devices -> 0..MaxJobs]
    <2>1. CASE UploadBegins(d)
      <3>1. Keeps(store, store')
        BY <1>0, <2>1, GreatestPending, DropKeeps, KeepsNothing DEF UploadBegins
      <3> DEFINE Unused == {k \in Ids : store'.row[k].status = "none"}
      <3>2. Cardinality(Unused) \in Nat /\ Cardinality(Unused) <= MaxJobs
        BY Counted
      <3>3. uploads[d] + 1 \in 0..MaxJobs
        BY <1>0, <2>1, <3>2 DEF UploadBegins
      <3> QED BY <1>0, <2>1, <3>1, <3>3 DEF UploadBegins
    <2>2. CASE \E ok \in BOOLEAN : UploadEnds(d, ok)
      <3>1. Keeps(store, store')
        BY <1>0, <2>2, CreateKeeps, KeepsNothing DEF UploadEnds
      <3>2. uploads[d] - 1 \in 0..MaxJobs
        BY <1>0, <2>2 DEF UploadEnds
      <3> QED BY <1>0, <2>2, <3>1, <3>2 DEF UploadEnds
    <2> QED BY <2>1, <2>2
  <1>2. ASSUME aborting.job # NoId
        PROVE  /\ aborting.job \in Used(store')
               /\ store'.disk[aborting.job] = ActivePath => aborting.path = ActivePath
    <2>1. aborting.job \in Used(store) /\ aborting.job \in Ids
      BY <1>2, RowsTyped DEF IInv, SuspendedOK
    <2> QED BY <1>1, <1>2, <2>1 DEF IInv, SuspendedOK, Keeps, Evolves
  <1>3. SuspendedOK'
    BY <1>0, <1>1, <1>2 DEF SuspendedOK
  <1> QED BY <1>0, <1>1, <1>3, AroundWorkerKeeps
          DEF IInv, WorkerOK, BridgeOK, workerVars, bridgeVars

LEMMA JobsKeep ==
    ASSUME IInv,
           \/ \E d \in Devices : StartFlash(d) \/ AutoFlash(d)
           \/ \E j \in Ids : \/ Reflash(j) \/ OtaStart(j) \/ CancelPending(j) \/ QueueAbort(j)
                             \/ DeleteRetained(j) \/ QueueUp(j) \/ QueueDown(j)
    PROVE  IInv'
PROOF
  <1>0. StoreOK(store) /\ store \in Store
    BY DEF IInv, StoreOK
  <1>1. CASE \E d \in Devices : AutoFlash(d)
    BY <1>0, <1>1, CreateKeeps, HttpKeeps DEF AutoFlash
  <1>2. CASE \E d \in Devices : StartFlash(d)
    <2>1. PICK d \in Devices : StartFlash(d)
      BY <1>2
    <2> DEFINE active == ActiveFor(store, d)
               pending == Greatest(OfDevice(store, d, {"PENDING_CONFIRM"}))
    <2>2. CASE MayCreate(store) /\ \E st \in {"QUEUED", "STARTING"} :
                 HttpChanges(CreateJob(store, d, st))
      BY <1>0, <2>2, CreateKeeps, HttpKeeps
    <2>3. CASE pending # NoId /\ HttpChanges(ConfirmJob(store, pending))
      BY <1>0, <2>3, GreatestPending, ConfirmKeeps, HttpKeeps
    <2>4. CASE active # NoId /\ HttpChanges(SetStatus(store, active, "STARTING"))
      <3>1. active \in Ids
        <4>1. OfDevice(store, d, ActiveStatuses) \in SUBSET Ids
          BY DEF OfDevice, Rows
        <4> QED BY <2>4, <4>1, LeastId, IdsAreIds DEF ActiveFor
      <3>2. "STARTING" \in Statuses \ Terminal
        BY DEF Statuses, ActiveStatuses, FlashStatuses, Terminal
      <3> QED BY <1>0, <2>4, <3>1, <3>2, SetStatusKeeps, HttpKeeps
    <2> QED BY <2>1, <2>2, <2>3, <2>4 DEF StartFlash
  <1>3. CASE \E j \in Ids : Reflash(j)
    <2>1. PICK j \in Ids : Reflash(j)
      BY <1>3
    <2>2. store.row[j].dev \in Devices \cup {"none"}
      BY <1>0, StoreTyped
    <2> QED BY <1>0, <2>1, <2>2, CreateKeeps, HttpKeeps DEF Reflash
  <1>4. CASE \E j \in Ids : OtaStart(j)
    BY <1>0, <1>4, ConfirmKeeps, HttpKeeps DEF OtaStart
  <1>5. CASE \E j \in Ids : CancelPending(j) \/ QueueAbort(j) \/ DeleteRetained(j)
    <2>1. PICK j \in Ids : CancelPending(j) \/ QueueAbort(j) \/ DeleteRetained(j)
      BY <1>5
    <2>2. j \in Used(store)
      BY <2>1 DEF CancelPending, QueueAbort, DeleteRetained, Queued, Rows, Used, Exists,
                  Statuses, ActiveStatuses, FlashStatuses, Terminal
    <2> QED BY <1>0, <2>1, <2>2, DropKeeps, ClearKeeps, HttpKeeps
            DEF CancelPending, QueueAbort, DeleteRetained
  <1>6. CASE \E j \in Ids : QueueUp(j) \/ QueueDown(j)
    <2>1. PICK j \in Ids : QueueUp(j) \/ QueueDown(j)
      BY <1>6
    <2>2. \E n \in Nat : j \in Queued(store) /\ HttpChanges(Reorder(store, j, n))
      <3>1. store.row[j].order \in Nat
        BY <1>0, StoreTyped
      <3>2. CASE QueueUp(j)
        <4>1. store.row[j].order - 1 \in Nat
          BY <3>1, <3>2 DEF QueueUp, AtFront
        <4> QED BY <3>2, <4>1 DEF QueueUp
      <3>3. CASE QueueDown(j)
        <4>1. store.row[j].order + 1 \in Nat
          BY <3>1
        <4> QED BY <3>3, <4>1 DEF QueueDown
      <3> QED BY <2>1, <3>2, <3>3
    <2> QED BY <1>0, <2>2, ReorderKeeps, HttpKeeps
  <1> QED BY <1>1, <1>2, <1>3, <1>4, <1>5, <1>6

\* ota_abort goes on with a path as good as when it read it.
LEMMA AbortedAfter ==
    ASSUME IInv, aborting.job # NoId, NEW t, Keeps(store, t)
    PROVE  Keeps(store, AbortDone(t, aborting.job, aborting.path))
PROOF
  <1>1. /\ aborting.job \in Used(store) /\ aborting.job \in Ids
        /\ store.disk[aborting.job] = ActivePath => aborting.path = ActivePath
    BY RowsTyped DEF IInv, SuspendedOK
  <1>2. /\ aborting.job \in Used(t)
        /\ t.disk[aborting.job] = ActivePath => aborting.path = ActivePath
    BY <1>1 DEF Keeps, Evolves
  <1>3. Keeps(t, AbortDone(t, aborting.job, aborting.path))
    BY <1>2, AbortDoneKeeps DEF IInv, Keeps
  <1> QED BY <1>3, KeepsTwice

LEMMA AbortKeeps ==
    ASSUME IInv, AbortBegins \/ AbortUnconnected \/ AbortEnds
    PROVE  IInv'
PROOF
  <1> DEFINE j == ActiveJob(store)
  <1>0. /\ StoreOK(store) /\ SuspendedOK
        /\ UNCHANGED <<paused, retries, dqFails, pc, cur, seen, handlers, sending, uploads, answer>>
    BY DEF IInv, AbortBegins, AbortUnconnected, AbortEnds, workerVars, bridgeVars
  <1>1. j # NoId => /\ j \in Ids /\ j \in Used(store) /\ store.row[j].path \in Paths
                    /\ store.disk[j] = ActivePath => store.row[j].path = ActivePath
    BY <1>0, IdsAreIds, ActiveTyped, StoreTyped DEF StoreOK, FilesOwned
  <1>2. CASE AbortBegins
    <2>1. /\ aborting' = [job |-> j, path |-> store.row[j].path] /\ j # NoId
          /\ UNCHANGED <<store, term, bridge, faults>>
      BY <1>2 DEF AbortBegins, workerVars, bridgeVars
    <2>2. SuspendedOK'
      BY <1>0, <1>1, <2>1 DEF SuspendedOK
    <2> QED BY <1>0, <2>1, <2>2, StoreStays, SetTermTyped, AroundWorkerKeeps
            DEF IInv, WorkerOK, BridgeOK
  <1>3. CASE AbortUnconnected
    <2>1. Keeps(store, store')
      BY <1>0, <1>1, <1>3, AbortDoneKeeps DEF AbortUnconnected
    <2>2. SuspendedOK'
      BY <1>0, <1>3, <2>1, SuspendedStays DEF AbortUnconnected
    <2>3. faults' \in 0..MaxFaults
      BY <1>3, QueueAssumption DEF AbortUnconnected, IInv, BridgeOK
    <2> QED BY <1>0, <1>3, <2>1, <2>2, <2>3, SetTermTyped, AroundWorkerKeeps
            DEF AbortUnconnected, IInv, WorkerOK, BridgeOK, workerVars, bridgeVars
  <1>4. CASE AbortEnds
    <2>1. Keeps(store, OnAborted(store)) /\ Keeps(store, store)
      BY <1>0, OnAbortedKeeps, KeepsNothing
    <2>2. Keeps(store, store')
      BY <1>4, <2>1, AbortedAfter DEF AbortEnds
    <2>3. SuspendedOK'
      <3>1. aborting' = [job |-> NoId, path |-> NoPath] /\ UNCHANGED <<sending, uploads>>
        BY <1>4 DEF AbortEnds
      <3> QED BY <1>0, <3>1 DEF SuspendedOK, Paths
    <2>4. bridge' \in Ids \cup {NoId, Ended} /\ faults' \in 0..MaxFaults
      BY <1>4, AbortTyped DEF AbortEnds
    <2>5. term' \in {"none", "end", "rejoin"}
      BY <1>4, SetTermTyped DEF AbortEnds
    <2> QED BY <1>0, <2>2, <2>3, <2>4, <2>5, AroundWorkerKeeps DEF IInv, WorkerOK
  <1> QED BY <1>2, <1>3, <1>4

LEMMA PauseKeeps ==
    ASSUME IInv, NEW b \in BOOLEAN, SetPaused(b)
    PROVE  IInv'
PROOF
  <1>1. SuspendedOK'
    BY StoreStays, SuspendedStays DEF SetPaused, IInv
  <1> QED BY <1>1, StoreStays, SetTermTyped, AroundWorkerKeeps
          DEF SetPaused, IInv, WorkerOK, BridgeOK, workerVars, bridgeVars

\* Nothing suspended, and counters at 0.
LEMMA FreshTyped ==
    /\ [d \in Devices |-> 0] \in [Devices -> 0..MaxJobs]
    /\ [j \in Ids |-> 0] \in [Ids -> 0..StartRetries]
    /\ [j \in Ids |-> 0] \in [Ids -> 0..DequeueAttempts]
    /\ Nothing \in [job : Ids \cup {NoId}, late : BOOLEAN] /\ ~Nothing.late
    /\ [job |-> NoId, path |-> NoPath] \in [job : Ids \cup {NoId}, path : Paths]
    /\ 0 \in 0..MaxFaults
  BY QueueAssumption DEF Nothing, Paths

LEMMA RestartKeeps ==
    ASSUME IInv, Restart
    PROVE  IInv'
PROOF
  <1>1. Keeps(store, store')
    BY RecoveredKeeps DEF Restart, IInv
  <1>2. WorkerOK' /\ HandlersFollowWorker'
    BY FreshTyped DEF Restart, WorkerOK, HandlersFollowWorker, Pcs
  <1>3. SuspendedOK'
    BY FreshTyped DEF Restart, SuspendedOK
  <1>4. BridgeOK'
    BY QueueAssumption DEF Restart, IInv, BridgeOK
  <1> QED BY <1>1, <1>2, <1>3, <1>4 DEF IInv, Keeps

LEMMA InitHolds ==
    Init => IInv
PROOF
  <1> SUFFICES ASSUME Init PROVE IInv
    OBVIOUS
  <1>1. WorkerOK /\ HandlersFollowWorker
    BY FreshTyped DEF Init, WorkerOK, HandlersFollowWorker, Pcs
  <1>2. SuspendedOK
    BY FreshTyped DEF Init, SuspendedOK
  <1>3. BridgeOK
    BY FreshTyped DEF Init, BridgeOK
  <1>4. StoreOK(store)
    <2>1. NoRow("none") \in Row /\ NoPath \in Paths
      BY QueueAssumption DEF NoRow, Row, Paths
    <2>2. /\ store \in Store
          /\ \A j \in Ids : store.row[j] = NoRow("none") /\ store.disk[j] = NoPath
      BY <2>1 DEF Init, Store
    <2>3. Queued(store) = {}
      BY <2>2 DEF Queued, Rows, NoRow
    <2> QED BY <2>2, <2>3
            DEF StoreOK, FilesThere, FilesOwned, OrdersOK, NoRow, NoPath, ActivePath
  <1> QED BY <1>1, <1>2, <1>3, <1>4 DEF IInv

LEMMA NextKeeps ==
    IInv /\ [Next]_vars => IInv'
PROOF
  <1> SUFFICES ASSUME IInv, [Next]_vars PROVE IInv'
    OBVIOUS
  <1>1. CASE UNCHANGED vars
    BY <1>1 DEF vars, workerVars, bridgeVars, IInv, WorkerOK, SuspendedOK, BridgeOK,
                HandlersFollowWorker
  <1>2. CASE WorkerStep
    BY <1>2, WorkerPickKeeps, WorkerWakesKeeps, DequeueKeeps, ConnectKeeps, StartKeeps,
       WaitKeeps, WorkerEndsJobKeeps DEF WorkerStep
  <1>3. CASE BridgeStep
    BY <1>3, BridgeKeeps, EventKeeps, RequestEndsKeeps DEF BridgeStep
  <1>4. CASE HttpStep
    BY <1>4, UploadKeeps, JobsKeep, AbortKeeps, PauseKeeps DEF HttpStep
  <1>5. CASE Restart
    BY <1>5, RestartKeeps
  <1> QED BY <1>1, <1>2, <1>3, <1>4, <1>5 DEF Next

LEMMA Invariance ==
    Spec => []IInv
  BY InitHolds, NextKeeps, PTL DEF Spec

\* Rows, files, numbers of the queue, retry counters and the worker's state
\* stay in range: the job a handler or the worker goes on with after an await
\* is always a row of the table.
THEOREM QueueTypes ==
    Spec => []TypeOK
PROOF
  <1>1. IInv => TypeOK
    BY DEF IInv, StoreOK, Store, Row, WorkerOK, SuspendedOK, BridgeOK, Pcs, TypeOK
  <1> QED BY <1>1, Invariance, PTL

\* The handlers on the bridge client belong to the job the worker is on, out
\* of whichever branch _process_v2 leaves.
THEOREM HandlersAreTheWorkers ==
    Spec => []HandlersFollowWorker
PROOF
  <1>1. IInv => HandlersFollowWorker
    BY DEF IInv
  <1> QED BY <1>1, Invariance, PTL

\* A firmware_path names a file that is there, however worker, handlers,
\* retention and restarts move and delete it.
THEOREM PathsNameFiles ==
    Spec => []PathMeansFile
PROOF
  <1>1. IInv => PathMeansFile
    BY DEF IInv, StoreOK, FilesThere, PathMeansFile
  <1> QED BY <1>1, Invariance, PTL

\* No file stays in the active directory without a row that may flash it, not
\* even when ota_abort goes on with a path it read before its await.
THEOREM NoFileIsLeft ==
    Spec => []ActiveFilesAreOwned
PROOF
  <1>1. IInv => ActiveFilesAreOwned
    BY DEF IInv, StoreOK, FilesOwned, ActiveFilesAreOwned
  <1> QED BY <1>1, Invariance, PTL

\* The job queue_up refuses to move is the one _dequeue_next takes next,
\* although numbers may repeat and leave gaps.
THEOREM FrontIsFirst ==
    Spec => []FrontMeansFirst
PROOF
  <1>1. IInv => FrontMeansFirst
    <2> SUFFICES ASSUME IInv, NEW j \in Queued(store), AtFront(store, j)
                 PROVE  Position(store, j) = 0
      BY DEF FrontMeansFirst
    <2>1. \A k \in Queued(store) : k \in Ids /\ store.row[k].order \in Nat /\ k \in Nat
      BY RowsTyped, StoreTyped DEF IInv, StoreOK, Ids
    <2>2. store.row[j].order = 0
      BY <2>1 DEF AtFront
    <2>3. ASSUME NEW k \in Queued(store), Before(store, k, j) PROVE FALSE
      <3>1. store.row[k].order = 0 /\ k < j
        BY <2>1, <2>2, <2>3 DEF Before
      <3>2. k = j
        BY <2>2, <3>1 DEF IInv, StoreOK, OrdersOK
      <3> QED BY <2>1, <3>1, <3>2
    <2> QED BY <2>3, PositionTyped
  <1> QED BY <1>1, Invariance, PTL

=============================================================================
