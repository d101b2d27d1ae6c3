----------------------------- MODULE FlashQueue -----------------------------
(***************************************************************************)
(* The add-on's flash queue: the job table (db.py), the firmware files     *)
(* (firmware_store.py), the OTA worker (ota_worker.py), the HTTP handlers  *)
(* that create, start, abort, delete and reorder jobs (server.py), and the *)
(* bridge's answers and events, which come late or not at all.             *)
(*                                                                         *)
(* Everything runs on one event loop: a step is what runs between two      *)
(* awaits.  The worker is suspended at pc # "pick"; only then may a        *)
(* handler run.  A timeout may elapse at any await that has one.           *)
(***************************************************************************)
EXTENDS Integers, Sequences, FiniteSets

CONSTANTS
    Devices,            \* leaves that can be flashed
    AlwaysOn,           \* devices the topology always shows online
    MaxJobs,            \* bound on rows ever created
    DequeueAttempts,    \* failed dequeues before a job moves back: 3
    StartRetries,       \* times a failed ota_start is queued again: 1
    MaxFaults,          \* bound on lost answers and restarts
    MaxEvents           \* bridge events in flight

ASSUME QueueAssumption ==
    /\ AlwaysOn \subseteq Devices
    /\ MaxJobs \in Nat \ {0}
    /\ DequeueAttempts \in Nat \ {0}
    /\ StartRetries \in Nat
    /\ MaxFaults \in Nat
    /\ MaxEvents \in Nat \ {0}

VARIABLES
    store,      \* the ota_jobs table and the firmware files of its rows
    paused,     \* OTAWorker._paused
    retries,    \* _retry_counts
    dqFails,    \* _dequeue_failure_counts
    pc,         \* the await the worker is suspended at
    cur,        \* the job it works on
    seen,       \* the status of cur it read before that await
    term,       \* terminal_event and terminal_action of _process_v2
    handlers,   \* job whose handlers are set on the bridge client
    sending,    \* an on_chunk_request suspended in send_chunks, or in the
                \* abort it asks for when the transfer took too long
    aborting,   \* the job and path ota_abort read before its await
    uploads,    \* uploads being received, per device
    bridge,     \* job the bridge runs; Ended after it, until an abort or a start
    answer,     \* its answer to the worker's ota_start
    events,     \* its events in flight
    faults      \* lost answers and restarts so far

workerVars == <<retries, dqFails, pc, cur, seen, term, handlers>>
bridgeVars == <<bridge, answer, events>>
vars == <<store, paused, workerVars, sending, aborting, uploads, bridgeVars, faults>>

-----------------------------------------------------------------------------
(* Rows and files.                                                         *)

Ids  == 1..MaxJobs
NoId == 0
Ended == -1

FlashStatuses == {"STARTING", "ANNOUNCING", "TRANSFERRING", "VERIFYING", "WAITING_REJOIN"}
Terminal      == {"SUCCESS", "FAILED", "ABORTED", "REJOIN_TIMEOUT", "VERSION_MISMATCH"}
ActiveStatuses == FlashStatuses \cup {"QUEUED"}
Statuses == ActiveStatuses \cup Terminal \cup {"PENDING_CONFIRM"}

(* The file of row j lies under one name at a time: ActivePath, or a name  *)
(* in the retained directory.  retain() puts "job-<id>-" before the name   *)
(* it finds, so each time the name is new: one that ota_abort does not     *)
(* hold, the only one to keep a name over an await.                        *)
NoPath     == 0
ActivePath == 1
RetainedPaths == {2, 3}
NewPath == IF aborting.path = 2 THEN 3 ELSE 2

\* A row not inserted yet, and what is left of a deleted one.
NoRow(st) == [dev |-> "none", status |-> st, order |-> 0, path |-> NoPath]

Exists(s, j)   == s.row[j].status \in Statuses
Rows(s, St)    == {j \in Ids : s.row[j].status \in St}
Queued(s)      == Rows(s, {"QUEUED"})
IsTerminal(s, j) == ~Exists(s, j) \/ s.row[j].status \in Terminal
Used(s)        == {j \in Ids : s.row[j].status # "none"}
FileThere(s, j, p) == p # NoPath /\ s.disk[j] = p

Least(S)    == IF S = {} THEN NoId ELSE CHOOSE j \in S : \A k \in S : j <= k
Greatest(S) == IF S = {} THEN NoId ELSE CHOOSE j \in S : \A k \in S : j >= k

ActiveJob(s)     == Least(Rows(s, FlashStatuses))
OfDevice(s, d, St) == {j \in Rows(s, St) : s.row[j].dev = d}
ActiveFor(s, d)  == Least(OfDevice(s, d, ActiveStatuses))

\* ORDER BY queue_order: SQLite returns ties in rowid order.
Before(s, j, k) ==
    \/ s.row[j].order < s.row[k].order
    \/ s.row[j].order = s.row[k].order /\ j < k
Position(s, j)  == Cardinality({k \in Queued(s) : Before(s, k, j)})
QueueLen(s)     == Cardinality(Queued(s))
NextQueued(s)   ==
    IF Queued(s) = {} THEN NoId ELSE CHOOSE j \in Queued(s) : Position(s, j) = 0
LastQueued(s, j) == j \in Queued(s) /\ Position(s, j) = QueueLen(s) - 1

\* update_job: an UPDATE by id, which changes nothing if the row is gone.
\* queue_order is read of queued rows only, and set when a row joins them.
SetStatus(s, j, st) ==
    IF Exists(s, j) THEN [s EXCEPT !.row[j].status = st, !.row[j].order = 0] ELSE s
SetOrder(s, j, n) ==
    IF Exists(s, j) THEN [s EXCEPT !.row[j].order = n] ELSE s

\* Mutant of Enqueue: queue_order is left as it was.
EnqueueUnordered(s, j) == SetStatus(s, j, "QUEUED")

\* ota_start and the worker's retry: behind the rows that are queued.
Enqueue(s, j) == SetOrder(SetStatus(s, j, "QUEUED"), j, QueueLen(s))

\* create_job: AUTOINCREMENT never gives an id again.
NewId(s)     == CHOOSE j \in Ids : j \notin Used(s) /\ \A k \in Ids \ Used(s) : j <= k
MayCreate(s) == Used(s) # Ids
MaxOrder(s)  ==
    IF Queued(s) = {} THEN -1
    ELSE CHOOSE n \in {s.row[k].order : k \in Queued(s)} :
            \A k \in Queued(s) : s.row[k].order <= n
CreateJob(s, d, st) ==
    [s EXCEPT !.row[NewId(s)] =
                 [dev |-> d, status |-> st, path |-> ActivePath,
                  order |-> IF st = "QUEUED" THEN MaxOrder(s) + 1 ELSE 0],
              !.disk[NewId(s)] = ActivePath]

\* Mutant of DeleteFile: the file stays.
KeepFile(s, j) == s

\* delete_file of a row's firmware_path.
DeleteFile(s, j) ==
    IF FileThere(s, j, s.row[j].path) THEN [s EXCEPT !.disk[j] = NoPath] ELSE s
ClearJobFirmware(s, j) == [s EXCEPT !.row[j].path = NoPath]

\* abort_queued_job: the row goes and the queue is numbered again from 0.
DeleteRow(s, j) ==
    LET t == [s EXCEPT !.row[j] = NoRow("deleted")]
    IN [t EXCEPT !.row = [k \in Ids |->
            IF k \in Queued(t) THEN [t.row[k] EXCEPT !.order = Position(t, k)]
            ELSE t.row[k]]]

\* reorder_queue: remove the job, insert it at index n, number from 0.
Reorder(s, j, n) ==
    LET rest(k) == Cardinality({i \in Queued(s) \ {j} : Before(s, i, k)})
        at == IF n < QueueLen(s) THEN n ELSE QueueLen(s) - 1
        index(k) == IF k = j THEN at ELSE IF rest(k) < at THEN rest(k) ELSE rest(k) + 1
    IN [s EXCEPT !.row = [k \in Ids |->
            IF k \in Queued(s) THEN [s.row[k] EXCEPT !.order = index(k)] ELSE s.row[k]]]

\* Mutant of Retained: the row keeps the name the file had.
RetainedUnderOldName(s, j, p) ==
    IF FileThere(s, j, p)
    THEN [s EXCEPT !.disk[j] = NewPath, !.row[j].path = p]
    ELSE [s EXCEPT !.row[j].path = NoPath]

\* retain() and the update of firmware_path that follows it.
Retained(s, j, p) ==
    IF FileThere(s, j, p)
    THEN [s EXCEPT !.disk[j] = NewPath, !.row[j].path = NewPath]
    ELSE [s EXCEPT !.row[j].path = NoPath]

\* _finish: the file is retained under the row's own path.
Finish(s, j, st) ==
    IF Exists(s, j) THEN SetStatus(Retained(s, j, s.row[j].path), j, st) ELSE s
Fail(s, j) == Finish(s, j, "FAILED")

-----------------------------------------------------------------------------
(* The worker.  Its steps end where the next await begins.                 *)

Suspended == pc # "pick"

\* _dequeue_next up to its await of the topology, after a job or a sleep.
GoDequeue(s) ==
    LET next == IF paused THEN NoId ELSE NextQueued(s)
    IN /\ pc' = IF next = NoId THEN "pick" ELSE "dequeue"
       /\ cur' = next
       /\ seen' = "none"
       /\ term' = "none"

\* Mutant of CloseJob: the handlers stay with the bridge client.
CloseJobOnly(s) ==
    /\ store' = s
    /\ handlers' = handlers
    /\ GoDequeue(s)

\* ota_client.close() and return to _run.
CloseJob(s) ==
    /\ store' = s
    /\ handlers' = NoId
    /\ GoDequeue(s)

Await(at) == pc' = at /\ UNCHANGED <<cur, term, handlers>>

\* Top of the transfer loop: give up on a row that ended, else wait 5 s.
TransferLoop(s) ==
    \/ IsTerminal(s, cur) /\ CloseJob(s)
    \/ /\ ~IsTerminal(s, cur)
       /\ store' = s
       /\ seen' = s.row[cur].status
       /\ Await("wait")

\* Top of the loop of _wait_for_rejoin, up to its await of the topology.
RejoinLoop ==
    \/ IsTerminal(store, cur) /\ CloseJob(store)
    \/ ~IsTerminal(store, cur) /\ Await("lookup") /\ seen' = "none" /\ UNCHANGED store

\* Top of the loop of _run, and _process up to its first await.
WorkerPick ==
    /\ pc = "pick"
    /\ LET j == ActiveJob(store)
       IN \/ /\ j = NoId
             /\ pc' = "sleep"
             /\ UNCHANGED <<store, cur, seen, term>>
          \/ /\ j # NoId
             /\ store.row[j].status = "WAITING_REJOIN"
             /\ pc' = "lookup"
             /\ cur' = j
             /\ UNCHANGED <<store, seen, term>>
          \/ /\ j # NoId
             /\ store.row[j].status # "WAITING_REJOIN"
             /\ FileThere(store, j, store.row[j].path)
             /\ pc' = "connect"
             /\ cur' = j
             /\ seen' = store.row[j].status
             /\ UNCHANGED <<store, term>>
          \/ /\ j # NoId
             /\ store.row[j].status # "WAITING_REJOIN"
             /\ ~FileThere(store, j, store.row[j].path)
             /\ store' = Fail(store, j)
             /\ GoDequeue(store')
    /\ UNCHANGED <<paused, retries, dqFails, handlers, sending, aborting, uploads, bridgeVars, faults>>

\* _wake_event or 5 s; on a timeout the retained files of old jobs go.
WorkerWakes(Expired) ==
    /\ pc = "sleep"
    /\ store' = [store EXCEPT
                    !.disk = [j \in Ids |-> IF j \in Expired THEN NoPath ELSE @[j]],
                    !.row = [j \in Ids |->
                        IF j \in Expired THEN [@[j] EXCEPT !.path = NoPath] ELSE @[j]]]
    /\ GoDequeue(store')
    /\ UNCHANGED <<paused, retries, dqFails, handlers, sending, aborting, uploads, bridgeVars, faults>>

\* Rows whose file can have outlived its retention.
Expirable == {{}} \cup {{j} : j \in {k \in Ids : Exists(store, k) /\ store.row[k].path > ActivePath}}

\* Mutant of DequeueFound: the failures are forgotten but the row is kept.
DequeueFoundKept ==
    /\ pc = "dequeue"
    /\ store' = store
    /\ dqFails' = [dqFails EXCEPT ![cur] = 0]
    /\ pc' = "pick" /\ cur' = NoId
    /\ UNCHANGED <<paused, retries, seen, term, handlers, sending, aborting, uploads, bridgeVars, faults>>

\* The topology shows the device online: the row becomes STARTING,
\* whatever became of it during the await.
DequeueFound ==
    /\ pc = "dequeue"
    /\ store' = SetStatus(store, cur, "STARTING")
    /\ dqFails' = [dqFails EXCEPT ![cur] = 0]
    /\ pc' = "pick" /\ cur' = NoId
    /\ UNCHANGED <<paused, retries, seen, term, handlers, sending, aborting, uploads, bridgeVars, faults>>

\* _handle_dequeue_failure: the third failure moves the job back.
DequeueFails ==
    /\ pc = "dequeue"
    /\ Exists(store, cur) => store.row[cur].dev \notin AlwaysOn
    /\ LET count == dqFails[cur] + 1
           last  == count >= DequeueAttempts
       IN \/ /\ ~last
             /\ dqFails' = [dqFails EXCEPT ![cur] = count]
             /\ UNCHANGED store
          \/ /\ last /\ QueueLen(store) <= 1
             /\ dqFails' = [dqFails EXCEPT ![cur] = DequeueAttempts]
             /\ UNCHANGED store
          \/ /\ last /\ QueueLen(store) > 1
             /\ dqFails' = [dqFails EXCEPT ![cur] = 0]
             /\ store' = SetOrder(store, cur, QueueLen(store) - 1)
    /\ pc' = "pick" /\ cur' = NoId
    /\ UNCHANGED <<paused, retries, seen, term, handlers, sending, aborting, uploads, bridgeVars, faults>>

\* _process_v2 finds the bridge connected: it sets its handlers, and asks
\* the bridge to start if the row was STARTING when _process read it.
WorkerConnects ==
    /\ pc = "connect"
    /\ handlers' = cur
    /\ \/ /\ seen = "STARTING"
          /\ pc' = "start"
          /\ answer' = "asked"
          /\ seen' = "none"
          /\ UNCHANGED <<store, cur, term>>
       \/ /\ seen # "STARTING"
          /\ ~IsTerminal(store, cur)
          /\ pc' = "wait"
          /\ seen' = store.row[cur].status
          /\ UNCHANGED <<store, cur, term, answer>>
    /\ UNCHANGED <<paused, retries, dqFails, sending, aborting, uploads, bridge, events, faults>>

\* Resumed on a row that ended meanwhile: the loop closes at once.
WorkerResumesEnded ==
    /\ pc = "connect" /\ seen # "STARTING" /\ IsTerminal(store, cur)
    /\ CloseJob(store)
    /\ UNCHANGED <<paused, retries, dqFails, sending, aborting, uploads, bridgeVars, faults>>

\* No bridge within 15 s, or no route to the device.
WorkerNoBridge ==
    /\ pc = "connect"
    /\ faults < MaxFaults
    /\ faults' = faults + 1
    /\ CloseJob(Fail(store, cur))
    /\ UNCHANGED <<paused, retries, dqFails, sending, aborting, uploads, bridgeVars>>

\* ota_start is accepted: TRANSFERRING, whatever the row says by now.
StartAccepted ==
    /\ pc = "start"
    /\ answer = "accepted"
    /\ answer' = "none"
    /\ TransferLoop(SetStatus(store, cur, "TRANSFERRING"))
    /\ UNCHANGED <<paused, retries, dqFails, sending, aborting, uploads, bridge, events, faults>>

\* Mutant of RetryLeft: one retry too many.
OneRetryMore(j) == retries[j] <= StartRetries

RetryLeft(j) == retries[j] < StartRetries

\* ota_start is refused, or its answer does not come in time.  One more
\* try from the back of the queue unless the error is permanent.
StartFailed(lost) ==
    /\ pc = "start"
    /\ IF lost THEN faults < MaxFaults /\ faults' = faults + 1
               ELSE answer = "refused" /\ UNCHANGED faults
    /\ answer' = "none"
    /\ \/ /\ RetryLeft(cur)
          /\ retries' = [retries EXCEPT ![cur] = @ + 1]
          /\ CloseJob(Enqueue(store, cur))
       \/ /\ retries' = [retries EXCEPT ![cur] = 0]
          /\ lost => ~RetryLeft(cur)
          /\ CloseJob(Fail(store, cur))
    /\ UNCHANGED <<paused, dqFails, sending, aborting, uploads, bridge, events>>

\* The terminal event ends the wait.
WorkerEnds ==
    /\ pc = "wait"
    /\ \/ term = "end" /\ CloseJob(store)
       \/ term = "rejoin" /\ RejoinLoop
    /\ UNCHANGED <<paused, retries, dqFails, sending, aborting, uploads, bridgeVars, faults>>

\* Five seconds without it.
WorkerTick ==
    /\ pc = "wait" /\ term = "none"
    /\ TransferLoop(store)
    /\ UNCHANGED <<paused, retries, dqFails, sending, aborting, uploads, bridgeVars, faults>>

\* Mutant of TransferTimeout: only once chunks are under way.
TimeoutWhileTransferring ==
    /\ pc = "wait" /\ term = "none"
    /\ ~IsTerminal(store, cur)
    /\ store.row[cur].status \in {"TRANSFERRING", "VERIFYING"}
    /\ Await("giveup")
    /\ seen' = "none"
    /\ UNCHANGED <<store, paused, retries, dqFails, sending, aborting, uploads, bridgeVars, faults>>

\* transfer_timeout_s is over, at the top of the loop.
TransferTimeout ==
    /\ pc = "wait" /\ term = "none"
    /\ ~IsTerminal(store, cur)
    /\ Await("giveup")
    /\ seen' = "none"
    /\ UNCHANGED <<store, paused, retries, dqFails, sending, aborting, uploads, bridgeVars, faults>>

\* No event for 60 s.  The status tested is the one read before the wait.
WorkerStalled ==
    /\ pc = "wait" /\ term = "none"
    /\ seen \in {"TRANSFERRING", "VERIFYING"}
    /\ Await("giveup")
    /\ seen' = "none"
    /\ UNCHANGED <<store, paused, retries, dqFails, sending, aborting, uploads, bridgeVars, faults>>

\* The aborted handler, run by the client before the awaiting abort resumes.
OnAborted(s) == IF handlers # NoId THEN Fail(s, handlers) ELSE s
SetTerm      == IF term = "none" THEN "end" ELSE term

\* An abort request: answered, also for a job that ended; refused when the
\* bridge's job is idle; or lost.
AbortAnswered == bridge # NoId /\ bridge' = NoId /\ UNCHANGED faults
AbortFailed ==
    \/ bridge = NoId /\ UNCHANGED <<bridge, faults>>
    \/ /\ bridge # NoId /\ faults < MaxFaults
       /\ faults' = faults + 1
       /\ bridge' \in {bridge, NoId}

WorkerGivesUp ==
    /\ pc = "giveup"
    /\ \/ AbortAnswered /\ CloseJob(Fail(OnAborted(store), cur))
       \/ AbortFailed /\ CloseJob(Fail(store, cur))
    /\ UNCHANGED <<paused, retries, dqFails, sending, aborting, uploads, answer, events>>

\* The topology answers; the row is not read again before _finish.
RejoinSeen(st) ==
    /\ pc = "lookup"
    /\ CloseJob(Finish(store, cur, st))
    /\ UNCHANGED <<paused, retries, dqFails, sending, aborting, uploads, bridgeVars, faults>>

RejoinNotYet ==
    /\ pc = "lookup"
    /\ Await("rejoin")
    /\ UNCHANGED <<store, paused, retries, dqFails, seen, sending, aborting, uploads, bridgeVars, faults>>

RejoinTick ==
    /\ pc = "rejoin"
    /\ RejoinLoop
    /\ UNCHANGED <<paused, retries, dqFails, sending, aborting, uploads, bridgeVars, faults>>

\* rejoin_timeout_s ends the loop before it reads the row again.
RejoinDeadline ==
    /\ pc = "rejoin"
    /\ CloseJob(Finish(store, cur, "REJOIN_TIMEOUT"))
    /\ UNCHANGED <<paused, retries, dqFails, sending, aborting, uploads, bridgeVars, faults>>

-----------------------------------------------------------------------------
(* Events of the bridge.  The handlers belong to the job of the worker;    *)
(* they do not look at the job an event is about.  The serial client runs  *)
(* a handler as a task (one of them suspended is modelled), the WebSocket  *)
(* client waits for it before it takes the next event: fewer behaviours.   *)

Nothing == [job |-> NoId, late |-> FALSE]

Progress == {"ANNOUNCING", "TRANSFERRING", "VERIFYING"}

OnStatus(kind) ==
    \/ /\ kind \in Progress
       /\ store' = SetStatus(store, handlers, kind)
       /\ UNCHANGED term
    \/ /\ kind = "success"
       /\ store' = SetStatus(store, handlers, "WAITING_REJOIN")
       /\ term' = "rejoin"
    \/ /\ kind = "failed"
       /\ store' = Fail(store, handlers)
       /\ term' = SetTerm

\* Requests that come before ota_start is accepted wait in the client and
\* are served before it returns.  Later ones of a job that ended are dropped.
OnChunkRequest ==
    IF pc = "start" \/ IsTerminal(store, handlers)
    THEN UNCHANGED sending
    ELSE \E late \in BOOLEAN : sending' = [job |-> handlers, late |-> late]

EventArrives ==
    /\ Suspended /\ events # <<>>
    /\ events' = Tail(events)
    /\ LET kind == Head(events)
       IN \/ handlers = NoId /\ UNCHANGED <<store, term, sending>>
          \/ /\ handlers # NoId /\ kind = "chunks" /\ sending = Nothing
             /\ OnChunkRequest
             /\ UNCHANGED <<store, term>>
          \/ /\ handlers # NoId /\ kind # "chunks"
             /\ OnStatus(kind)
             /\ UNCHANGED sending
    /\ UNCHANGED <<paused, retries, dqFails, pc, cur, seen, handlers, aborting, uploads, bridge, answer, faults>>

\* send_chunks returns: TRANSFERRING, whatever the row says by now.  It
\* raises if the connection or the file went; the row is left alone.
ChunksSent(ok) ==
    /\ Suspended /\ sending.job # NoId /\ ~sending.late
    /\ sending' = Nothing
    /\ store' = IF ok THEN SetStatus(store, sending.job, "TRANSFERRING") ELSE store
    /\ UNCHANGED <<paused, workerVars, aborting, uploads, bridgeVars, faults>>

\* The abort of a chunk request that came too late ends.
LateRequestEnds ==
    /\ Suspended /\ sending.late
    /\ sending' = Nothing
    /\ \/ AbortAnswered /\ store' = Fail(OnAborted(store), sending.job)
       \/ AbortFailed /\ store' = Fail(store, sending.job)
    /\ term' = IF handlers = sending.job THEN SetTerm ELSE term
    /\ UNCHANGED <<paused, retries, dqFails, pc, cur, seen, handlers, aborting, uploads, answer, events>>

\* The bridge as the add-on meets it: it runs one job and reports on it.
\* A job that failed before the leaf accepted it is idle at once.
BridgeAnswers ==
    /\ answer = "asked"
    /\ \/ bridge \notin Ids /\ bridge' = cur /\ answer' = "accepted"
       \/ answer' = "refused" /\ UNCHANGED bridge
    /\ UNCHANGED <<store, paused, workerVars, sending, aborting, uploads, events, faults>>

BridgeReports(kind) ==
    /\ bridge \in Ids
    /\ Len(events) < MaxEvents
    /\ events' = Append(events, kind)
    /\ \/ kind \notin {"success", "failed"} /\ UNCHANGED bridge
       \/ kind \in {"success", "failed"} /\ bridge' = Ended
       \/ kind = "failed" /\ bridge' = NoId
    /\ UNCHANGED <<store, paused, workerVars, sending, aborting, uploads, answer, faults>>

-----------------------------------------------------------------------------
(* HTTP handlers.                                                          *)

FlashWorkPending(s) == ActiveJob(s) # NoId \/ Queued(s) # {}

HttpRest == <<paused, workerVars, sending, aborting, uploads, bridgeVars, faults>>
HttpChanges(s) == Suspended /\ store' = s /\ UNCHANGED HttpRest

\* ota_upload checks the device, drops an upload not confirmed yet, and
\* then receives the file; other handlers run meanwhile.
UploadBegins(d) ==
    /\ Suspended
    /\ ActiveFor(store, d) = NoId
    /\ LET pending == Greatest(OfDevice(store, d, {"PENDING_CONFIRM"}))
       IN store' = IF pending = NoId THEN store
                   ELSE DeleteRow(DeleteFile(store, pending), pending)
    /\ Cardinality({k \in Ids : store'.row[k].status = "none"}) > uploads[d]
    /\ uploads' = [uploads EXCEPT ![d] = @ + 1]
    /\ UNCHANGED <<paused, workerVars, sending, aborting, bridgeVars, faults>>

UploadEnds(d, ok) ==
    /\ Suspended
    /\ uploads[d] > 0
    /\ uploads' = [uploads EXCEPT ![d] = @ - 1]
    /\ \/ ok /\ MayCreate(store) /\ store' = CreateJob(store, d, "PENDING_CONFIRM")
       \/ ~ok /\ UNCHANGED store
    /\ UNCHANGED <<paused, workerVars, sending, aborting, bridgeVars, faults>>

\* ota_reflash clones the retained file of an earlier job.
Reflash(j) ==
    /\ MayCreate(store)
    /\ Exists(store, j)
    /\ ActiveFor(store, store.row[j].dev) = NoId
    /\ store.row[j].path > ActivePath
    /\ FileThere(store, j, store.row[j].path)
    /\ HttpChanges(CreateJob(store, store.row[j].dev, "PENDING_CONFIRM"))

\* ota_start, and start-flash of a row not confirmed yet.
ConfirmJob(s, j) ==
    IF FlashWorkPending(s) THEN Enqueue(s, j) ELSE SetStatus(s, j, "STARTING")

OtaStart(j) ==
    /\ j \in Rows(store, {"PENDING_CONFIRM"})
    /\ HttpChanges(ConfirmJob(store, j))

\* compile_start_flash: the device's active job, its last upload, or else
\* a new job for its compiled firmware.
StartFlash(d) ==
    LET active  == ActiveFor(store, d)
        pending == Greatest(OfDevice(store, d, {"PENDING_CONFIRM"}))
        ahead   == {k \in Queued(store) : store.row[k].order < store.row[active].order}
    IN \/ /\ active = NoId /\ pending = NoId
          /\ MayCreate(store)
          /\ HttpChanges(CreateJob(store, d,
                IF FlashWorkPending(store) THEN "QUEUED" ELSE "STARTING"))
       \/ /\ active = NoId /\ pending # NoId
          /\ HttpChanges(ConfirmJob(store, pending))
       \/ /\ active # NoId
          /\ store.row[active].status = "QUEUED"
          /\ ActiveJob(store) = NoId /\ ahead = {}
          /\ HttpChanges(SetStatus(store, active, "STARTING"))

\* The compile worker queues the firmware it was asked to flash, without
\* looking at the device's other jobs.
AutoFlash(d) ==
    /\ MayCreate(store)
    /\ HttpChanges(CreateJob(store, d, "QUEUED"))

\* ota_abort up to its await; without a bridge it goes on at once.
AbortDone(s, j, p) == SetStatus(Retained(s, j, p), j, "ABORTED")

AbortBegins ==
    LET j == ActiveJob(store)
    IN /\ Suspended /\ aborting.job = NoId /\ j # NoId
       /\ aborting' = [job |-> j, path |-> store.row[j].path]
       /\ UNCHANGED <<store, paused, workerVars, sending, uploads, bridgeVars, faults>>

AbortUnconnected ==
    LET j == ActiveJob(store)
    IN /\ Suspended /\ j # NoId
       /\ faults < MaxFaults
       /\ faults' = faults + 1
       /\ store' = AbortDone(store, j, store.row[j].path)
       /\ UNCHANGED <<paused, workerVars, sending, aborting, uploads, bridgeVars>>

\* The bridge answers: the worker's aborted handler has failed the job and
\* moved the file by the time ota_abort goes on with the path it read.
AbortEnds ==
    /\ Suspended /\ aborting.job # NoId
    /\ aborting' = [job |-> NoId, path |-> NoPath]
    /\ \/ /\ AbortAnswered
          /\ store' = AbortDone(OnAborted(store), aborting.job, aborting.path)
          /\ term' = IF handlers # NoId THEN SetTerm ELSE term
       \/ /\ AbortFailed
          /\ store' = AbortDone(store, aborting.job, aborting.path)
          /\ UNCHANGED term
    /\ UNCHANGED <<paused, retries, dqFails, pc, cur, seen, handlers, sending, uploads, answer, events>>

CancelPending(j) ==
    /\ j \in Rows(store, {"PENDING_CONFIRM"})
    /\ HttpChanges(DeleteRow(DeleteFile(store, j), j))

QueueAbort(j) ==
    /\ j \in Queued(store)
    /\ HttpChanges(DeleteRow(DeleteFile(store, j), j))

\* delete_retained takes any row, whatever its status.
DeleteRetained(j) ==
    /\ Exists(store, j)
    /\ HttpChanges(ClearJobFirmware(DeleteFile(store, j), j))

AtFront(s, j) == s.row[j].order <= 0
AtBack(s, j)  == s.row[j].order >= QueueLen(s) - 1

QueueUp(j) ==
    /\ j \in Queued(store) /\ ~AtFront(store, j)
    /\ HttpChanges(Reorder(store, j, store.row[j].order - 1))

QueueDown(j) ==
    /\ j \in Queued(store) /\ ~AtBack(store, j)
    /\ HttpChanges(Reorder(store, j, store.row[j].order + 1))

SetPaused(b) ==
    /\ Suspended /\ paused # b
    /\ paused' = b
    /\ UNCHANGED <<store, workerVars, sending, aborting, uploads, bridgeVars, faults>>

-----------------------------------------------------------------------------
(* The add-on restarts, at startup and after a crash.                      *)

\* _recover_startup: the oldest active job failed, and uploads never
\* confirmed are deleted.
Recovered(s) ==
    LET pending == Rows(s, {"PENDING_CONFIRM"})
        failed  == IF ActiveJob(s) = NoId THEN s ELSE Fail(s, ActiveJob(s))
    IN [row  |-> [j \in Ids |->
            IF j \in pending THEN NoRow("deleted")
            ELSE IF j \in Queued(s) /\ pending # {}
                 THEN [failed.row[j] EXCEPT !.order = Position(s, j)]
                 ELSE failed.row[j]],
        disk |-> [j \in Ids |-> IF j \in pending THEN NoPath ELSE failed.disk[j]]]

Restart ==
    /\ faults < MaxFaults
    /\ faults' = faults + 1
    /\ store' = Recovered(store)
    /\ paused' = (Queued(store') # {})
    /\ retries' = [j \in Ids |-> 0]
    /\ dqFails' = [j \in Ids |-> 0]
    /\ pc' = "pick" /\ cur' = NoId /\ seen' = "none" /\ term' = "none"
    /\ handlers' = NoId
    /\ sending' = Nothing
    /\ aborting' = [job |-> NoId, path |-> NoPath]
    /\ uploads' = [d \in Devices |-> 0]
    /\ answer' = "none" /\ events' = <<>>
    /\ UNCHANGED bridge

-----------------------------------------------------------------------------
Init ==
    /\ store = [row |-> [j \in Ids |-> NoRow("none")], disk |-> [j \in Ids |-> NoPath]]
    /\ paused = FALSE
    /\ retries = [j \in Ids |-> 0]
    /\ dqFails = [j \in Ids |-> 0]
    /\ pc = "pick" /\ cur = NoId /\ seen = "none" /\ term = "none"
    /\ handlers = NoId
    /\ sending = Nothing
    /\ aborting = [job |-> NoId, path |-> NoPath]
    /\ uploads = [d \in Devices |-> 0]
    /\ bridge = NoId /\ answer = "none" /\ events = <<>>
    /\ faults = 0

WorkerStep ==
    \/ WorkerPick
    \/ \E E \in Expirable : WorkerWakes(E)
    \/ DequeueFound \/ DequeueFails
    \/ WorkerConnects \/ WorkerResumesEnded \/ WorkerNoBridge
    \/ StartAccepted \/ \E lost \in BOOLEAN : StartFailed(lost)
    \/ WorkerEnds \/ WorkerTick \/ TransferTimeout \/ WorkerStalled \/ WorkerGivesUp
    \/ \E st \in {"SUCCESS", "VERSION_MISMATCH"} : RejoinSeen(st)
    \/ RejoinNotYet \/ RejoinTick \/ RejoinDeadline

BridgeStep ==
    \/ BridgeAnswers
    \/ \E kind \in Progress \cup {"chunks", "success", "failed"} : BridgeReports(kind)
    \/ EventArrives
    \/ \E ok \in BOOLEAN : ChunksSent(ok)
    \/ LateRequestEnds

HttpStep ==
    \/ \E d \in Devices : UploadBegins(d) \/ StartFlash(d) \/ AutoFlash(d)
    \/ \E d \in Devices, ok \in BOOLEAN : UploadEnds(d, ok)
    \/ \E j \in Ids : \/ Reflash(j) \/ OtaStart(j) \/ CancelPending(j) \/ QueueAbort(j)
                      \/ DeleteRetained(j) \/ QueueUp(j) \/ QueueDown(j)
    \/ AbortBegins \/ AbortUnconnected \/ AbortEnds
    \/ \E b \in BOOLEAN : SetPaused(b)

Next == WorkerStep \/ BridgeStep \/ HttpStep \/ Restart

Spec == Init /\ [][Next]_vars

(* The event loop runs what is ready, awaits end, clocks advance: a timeout *)
(* watched at the top of a loop that goes on comes to pass (SF where the    *)
(* loop leaves that point in between).                                      *)
Fairness ==
    /\ WF_vars(WorkerPick)
    /\ WF_vars(\E E \in Expirable : WorkerWakes(E))
    /\ WF_vars(DequeueFound \/ DequeueFails)
    /\ WF_vars(WorkerConnects \/ WorkerResumesEnded \/ WorkerNoBridge)
    /\ WF_vars(StartAccepted \/ \E lost \in BOOLEAN : StartFailed(lost))
    /\ WF_vars(WorkerEnds) /\ WF_vars(WorkerTick) /\ WF_vars(TransferTimeout)
    /\ WF_vars(WorkerGivesUp)
    /\ WF_vars(RejoinNotYet \/ \E st \in {"SUCCESS", "VERSION_MISMATCH"} : RejoinSeen(st))
    /\ WF_vars(RejoinTick) /\ SF_vars(RejoinDeadline)
    /\ WF_vars(BridgeAnswers)

FairSpec == Spec /\ Fairness

-----------------------------------------------------------------------------
(* Properties.                                                             *)

Paths == {NoPath, ActivePath} \cup RetainedPaths

\* Types: rows, files and the worker's state stay in range.
TypeOK ==
    /\ store.row \in [Ids -> [dev : Devices \cup {"none"}, status : Statuses \cup {"none", "deleted"},
                              order : 0..MaxJobs, path : Paths]]
    /\ store.disk \in [Ids -> Paths]
    /\ paused \in BOOLEAN
    /\ retries \in [Ids -> 0..StartRetries]
    /\ dqFails \in [Ids -> 0..DequeueAttempts]
    /\ pc \in {"pick", "sleep", "dequeue", "connect", "start", "wait", "giveup", "rejoin", "lookup"}
    /\ cur \in Ids \cup {NoId}
    /\ seen \in Statuses \cup {"none"}
    /\ term \in {"none", "end", "rejoin"}
    /\ handlers \in Ids \cup {NoId}
    /\ sending \in [job : Ids \cup {NoId}, late : BOOLEAN]
    /\ aborting \in [job : Ids \cup {NoId}, path : Paths]
    /\ uploads \in [Devices -> 0..MaxJobs]
    /\ bridge \in Ids \cup {NoId, Ended}
    /\ answer \in {"none", "asked", "accepted", "refused"}
    /\ faults \in 0..MaxFaults

\* The bridge client's handlers are those of the job the worker is on: a
\* later job's events never reach an earlier job's handlers, on any path
\* out of _process_v2.
HandlersFollowWorker ==
    handlers # NoId =>
        handlers = cur /\ pc \in {"start", "wait", "giveup", "rejoin", "lookup"}

\* A row's firmware_path names a file that is there, through retain, clone,
\* delete and expiry, in whatever order handlers and worker move it.
PathMeansFile ==
    \A j \in Ids : store.row[j].path # NoPath => store.disk[j] = store.row[j].path

\* A file in the active directory belongs to a row that may still flash it:
\* no handler leaves one behind.
ActiveFilesAreOwned ==
    \A j \in Ids : store.disk[j] = ActivePath =>
        /\ store.row[j].path = ActivePath
        /\ ~IsTerminal(store, j)

\* A file in the retained directory can be found again through its row.
RetainedIsReachable ==
    \A j \in Ids : store.disk[j] > ActivePath => store.row[j].path = store.disk[j]

\* Every attempt to flash ends, and the row says so: whatever the bridge
\* does, whoever aborts and when, no job is left "transferring".
FlashingEnds ==
    \A j \in Ids : store.row[j].status \in FlashStatuses
                      ~> store.row[j].status \notin FlashStatuses

\* A queued job whose device is online is taken up, in whatever order users
\* put the jobs, unless the queue is paused or holds an offline device's job.
QueueIsServed ==
    \A j \in Ids : store.row[j].status = "QUEUED"
                      ~> \/ paused \/ store.row[j].status # "QUEUED"
                         \/ \E k \in Queued(store) : store.row[k].dev \notin AlwaysOn

\* Moving a job up is refused only for the first one.
FrontMeansFirst == \A j \in Queued(store) : AtFront(store, j) => Position(store, j) = 0

\* A job the user aborted stays aborted.  Does not hold: README, section 6.
AbortedStaysAborted ==
    [][\A j \in Ids : store.row[j].status = "ABORTED" => store'.row[j].status = "ABORTED"]_vars

\* One OTA job at a time across the add-on.
OneJobAtATime == Cardinality(Rows(store, FlashStatuses)) <= 1

\* A job reported as moved to the back of the queue is last in it.  Does not
\* hold: README, section 6.
MovedToBack ==
    [][\A j \in Ids : dqFails[j] = DequeueAttempts - 1 /\ dqFails'[j] = 0 /\ pc = "dequeue"
                       /\ store'.row[j].status = "QUEUED"
          => LastQueued(store', j)]_vars

\* Moving a job down is refused only for the last one.  Does not hold:
\* README, section 6.
BackMeansLast == \A j \in Queued(store) : AtBack(store, j) => LastQueued(store, j)

=============================================================================
