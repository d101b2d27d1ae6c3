----------------------------- MODULE BridgeJob ------------------------------
(***************************************************************************)
(* The OTA job of the bridge's API on top of the manager: the job state    *)
(* of ESPTreeBridge, which polls the manager once per loop() and tells the *)
(* client what changed, and the chunk request that the transport, UART or  *)
(* WebSocket, has open with its client.                                    *)
(*                                                                         *)
(* One loop() is three steps: frames are drained (acks), the manager's     *)
(* loop() runs, emit_ota_events_ polls it.  The UART's handlers run after  *)
(* that in the same loop(), the WebSocket's at any moment in the task of   *)
(* the HTTP server; each handler is atomic.                                *)
(***************************************************************************)
EXTENDS OtaManager

CONSTANT Transports     \* the builds: a subset of {"UART", "WEBSOCKET"}

ASSUME TransportsAssumption == Transports \subseteq {"UART", "WEBSOCKET"}

VARIABLES
    transport,      \* USE_SERIAL or not
    stage,          \* the next step of loop(): "drain", "poll", or "api"
    job,            \* ota_job_state_
    prev,           \* ota_manager_prev_public_state_
    last,           \* ota_last_requested_sequences_
    open,           \* the transport's ota_pending_sequences
    client,         \* the transport has an authenticated client
    attached,       \* ota_transport_callbacks_ is set
    told,           \* history: the last the client was told of its job
    asked,          \* history: the client was asked for chunks since it connected
    heard           \* history: the client of the job has been there since its start

jobVars ==
    <<transport, stage, job, prev, last, open, client, attached, told, asked, heard>>

\* The job is left alone; the stage is the loop's own.
JobIdle ==
    UNCHANGED <<transport, job, prev, last, open, client, attached, told, asked, heard>>

-----------------------------------------------------------------------------
(* emit_ota_events_.                                                       *)

\* on_ota_chunk_request: what is requested now is remembered, and asked for if
\* there is a client.
AskFor(seqs) ==
    /\ last' = seqs
    /\ \/ client /\ open' = seqs /\ asked' = TRUE
       \/ ~client /\ UNCHANGED <<open, asked>>

DontAsk == UNCHANGED <<last, open, asked>>

\* on_ota_accepted, on_ota_status: the client is told, if there is one.
Tell(what) == told' = IF client THEN what ELSE told

\* The client is told nothing new.
Untold == UNCHANGED told

LeafAccepted == Busy /\ mPublic = "TRANSFERRING" /\ prev # "TRANSFERRING"

PollWaiting ==
    /\ job = "WAITING"
    /\ \/ /\ LeafAccepted
          /\ job' = "TRANSFERRING" /\ prev' = "TRANSFERRING"
          /\ Tell("ACCEPTED")
          /\ AskFor(mRequested)
       \/ /\ ~Busy
          /\ job' = "IDLE" /\ prev' = "" /\ last' = {}
          /\ Tell("FAILED")
          /\ UNCHANGED <<open, asked>>
       \/ /\ Busy /\ ~LeafAccepted
          /\ prev' = mPublic
          /\ Untold /\ DontAsk /\ UNCHANGED job

\* Mutant of RequestChunks: an empty request does not clear the memory of the
\* one before.
RequestChunksKept ==
    \/ (mRequested = {} \/ mRequested \subseteq last) /\ DontAsk
    \/ ~(mRequested \subseteq last) /\ AskFor(mRequested)

\* The client is asked again only for what the last request did not hold.
RequestChunks ==
    \/ mRequested = {} /\ last' = {} /\ UNCHANGED <<open, asked>>
    \/ mRequested # {} /\ mRequested \subseteq last /\ DontAsk
    \/ ~(mRequested \subseteq last) /\ AskFor(mRequested)

\* The manager's final status, seen for the first time.
EndSeen == mPublic \in {"SUCCESS", "FAIL"} /\ prev # mPublic

\* Idle with its end seen before: the job is dropped without a word.
PollTransferring ==
    /\ job = "TRANSFERRING"
    /\ \/ /\ EndSeen \/ ~Busy
          /\ job' = CASE ~EndSeen -> "IDLE"
                      [] EndSeen /\ mPublic = "SUCCESS" -> "SUCCESS"
                      [] EndSeen /\ mPublic = "FAIL" -> "FAILED"
          /\ prev' = IF EndSeen THEN mPublic ELSE ""
          /\ IF EndSeen THEN Tell(job') ELSE Untold
          /\ last' = {}
          /\ UNCHANGED <<open, asked>>
       \/ /\ ~EndSeen /\ Busy
          /\ RequestChunks
          /\ prev' = mPublic
          /\ Untold /\ UNCHANGED job

NothingToTell ==
    /\ ~attached \/ job \notin {"WAITING", "TRANSFERRING"}
    /\ DontAsk /\ Untold /\ UNCHANGED <<job, prev>>

EmitOtaEvents ==
    /\ stage = "poll" /\ stage' = "api"
    /\ \/ attached /\ (PollWaiting \/ PollTransferring)
       \/ NothingToTell
    /\ Nothing
    /\ UNCHANGED <<transport, client, attached, heard>>

-----------------------------------------------------------------------------
(* The handlers of the transports.                                         *)

\* When a handler may run.
HandlerRuns == transport = "UART" => stage = "api"

\* api_ota_start.  prev is left as the job before it left it.
ClientStart(f, res) ==
    /\ HandlerRuns /\ client
    /\ StartTransfer(f, res)
    /\ \/ /\ mState' # "IDLE"
          /\ job' = "WAITING" /\ last' = {}
          /\ told' = "STARTED" /\ heard' = TRUE
       \/ mState' = "IDLE" /\ UNCHANGED <<job, last, told, heard>>
    /\ UNCHANGED <<transport, stage, prev, open, client, attached, asked>>

\* Mutant of AbortJob: the manager goes on.
AbortJobOnly ==
    /\ job # "IDLE"
    /\ job' = "IDLE"
    /\ Nothing

\* api_ota_abort.
AbortJob ==
    /\ job # "IDLE"
    /\ job' = "IDLE"
    /\ \/ OnSourceAbort
       \/ ~Busy /\ Nothing

\* A chunk of the open request; the manager may not want it any more.  A batch
\* that was read is handled to its end, whether its client is still there or not.
ClientChunk(seq) ==
    /\ HandlerRuns /\ attached
    /\ job # "IDLE" /\ seq \in open
    /\ \/ /\ job = "TRANSFERRING" /\ OnSourceChunk(seq)
          /\ open' = open \ {seq}
          /\ UNCHANGED <<job, told>>
       \/ /\ ~(job = "TRANSFERRING" /\ mState = "BLASTING" /\ ChunkExpected(seq))
          /\ AbortJob
          /\ Tell("ERROR")
          /\ UNCHANGED open
    /\ UNCHANGED <<transport, stage, prev, last, client, attached, asked, heard>>

\* A batch that is too large, or a chunk that is damaged or not in the request.
ClientBadChunk ==
    /\ HandlerRuns /\ attached
    /\ AbortJob
    /\ Tell("ERROR")
    /\ UNCHANGED <<transport, stage, prev, last, open, client, attached, asked, heard>>

\* A batch that answers an earlier request: api_ota_resend_chunk_request.
ClientStaleBatch ==
    /\ HandlerRuns /\ attached /\ job = "TRANSFERRING"
    /\ \/ mRequested # {} /\ AskFor(mRequested)
       \/ mRequested = {} /\ last' = {} /\ UNCHANGED <<open, asked>>
    /\ Nothing
    /\ UNCHANGED <<transport, stage, job, prev, client, attached, told, heard>>

ClientAbort ==
    /\ HandlerRuns /\ client
    /\ AbortJob
    /\ told' = "ABORTED"
    /\ UNCHANGED <<transport, stage, prev, last, open, client, attached, asked, heard>>

\* set_ota_transport_callbacks, after authentication.
ClientConnects ==
    /\ HandlerRuns /\ ~client
    /\ client' = TRUE /\ attached' = TRUE
    /\ prev' = IF job # "IDLE" THEN "" ELSE prev
    /\ Nothing
    /\ UNCHANGED <<transport, stage, job, last, open, told, asked, heard>>

\* reset_auth of the UART, finish_session of the WebSocket.  A WebSocket peer
\* that never authenticated ends its session that way too.
ClientLeaves ==
    /\ HandlerRuns /\ attached
    /\ client' = FALSE /\ attached' = FALSE /\ asked' = FALSE /\ heard' = FALSE
    /\ open' = IF transport = "WEBSOCKET" THEN {} ELSE open
    /\ Nothing
    /\ UNCHANGED <<transport, stage, job, prev, last, told>>

\* close_client of the WebSocket, when its queue is full or a send fails.  The
\* session ends without finish_session, which finds another active_fd: the
\* callbacks stay, and so does the open request.
ClientClosed ==
    /\ transport = "WEBSOCKET" /\ client
    /\ client' = FALSE /\ asked' = FALSE /\ heard' = FALSE
    /\ Nothing
    /\ UNCHANGED <<transport, stage, job, prev, last, open, attached, told>>

-----------------------------------------------------------------------------
(* ESPTreeBridge::loop().                                                  *)

\* drain_received_frames_: one ack of the leaf.
DrainAck == stage = "drain" /\ AnyAck /\ UNCHANGED stage /\ JobIdle

\* The manager's loop(), which may find nothing to do.
ManagerLoop == stage = "drain" /\ stage' = "poll" /\ (LoopPass \/ Nothing) /\ JobIdle

NextLoop == stage = "api" /\ stage' = "drain" /\ Nothing /\ JobIdle

JobInit ==
    /\ Init
    /\ transport \in Transports /\ stage = "drain"
    /\ job = "IDLE" /\ prev = "" /\ last = {} /\ open = {}
    /\ client = FALSE /\ attached = FALSE /\ told = "NONE" /\ asked = FALSE /\ heard = FALSE

ClientActs ==
    \/ \E f \in Files, res \in SendResults : ClientStart(f, res)
    \/ \E seq \in AllSeqs : ClientChunk(seq)
    \/ ClientBadChunk
    \/ ClientStaleBatch
    \/ ClientAbort
    \/ ClientConnects
    \/ ClientLeaves
    \/ ClientClosed

JobNext == ClientActs \/ DrainAck \/ ManagerLoop \/ EmitOtaEvents \/ NextLoop

JobSpec == JobInit /\ [][JobNext]_<<mVars, jobVars>>

-----------------------------------------------------------------------------
(* Properties.                                                             *)

\* Once loop() has polled the manager, every chunk it waits for is in the
\* request the client holds, through retransmit rounds, stale batches and
\* chunks sent out of order: a chunk asked for by nobody is never sent and the
\* transfer dies of silence.
AwaitedIsAsked ==
    stage = "api" /\ job = "TRANSFERRING" /\ asked => mRequested \subseteq open

\* The job and the transfer end together, whoever ends them: no transfer runs
\* without a job that can be aborted, and a client that stayed has been told
\* how its job ended by the end of the loop() in which it did.
JobFollowsTransfer ==
    /\ Busy => job \in {"WAITING", "TRANSFERRING"}
    /\ stage = "api" /\ heard /\ ~Busy =>
          /\ job \notin {"WAITING", "TRANSFERRING"}
          /\ told \notin {"STARTED", "ACCEPTED"}

=============================================================================
