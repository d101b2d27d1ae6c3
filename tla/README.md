# ESP-NOW Tree: a TLA+ model

ESP-NOW Tree connects battery and mains powered *leaves* (ESP32, ESP8266) to a
*bridge* over ESP-NOW, the bridge to a Home Assistant *add-on* and
*integration* over a WebSocket or a serial line, and lets the add-on compile
and send new firmware to the leaves.  This directory models

- the firmware transfer, from the add-on's queue of flash jobs over the
  bridge's OTA job and OTA manager to the flash of the leaf, ESP32 and ESP8266;
- the session of a leaf with the bridge: joining, schema, states, commands,
  timeouts and restarts of both sides, and messages of several fragments;
- the tree of relays through which leaves out of range reach the bridge.

The rest of the system is inventoried below, with the reason it is not
modelled.

## 1. Inventory

Paths are below `src/`; `B` is `device_code/components/esp_tree_bridge`, `R` is
`device_code/components/esp_tree_remote`, `C` is
`device_code/components/esp_tree_common`.

| Component | Source | State | Operations |
|---|---|---|---|
| Leaf file receiver | `R/remote_file_receiver.*` | receiver state, increment buffer and bitmap, retransmit round, counters of ANNOUNCE and BLAST_COMPLETE, flash handler, the two app partitions | handlers of ANNOUNCE, FILE_DATA, BLAST_COMPLETE, END, ABORT; `loop()`; `abort()`, `reset_()` |
| Bridge OTA manager | `B/bridge_ota_manager.*` | state, public state, increment tracker (asked for, queued, sent, gaps), BLAST_COMPLETE history, attempt counters | `start_transfer`, `on_source_chunk`, `on_source_abort`, `on_file_ack`, `loop()` |
| Radio between them | `B/bridge_protocol.cpp`, `R/remote_protocol.cpp` | session, tx counters, frames in flight | send, loss, repetition, session change |
| Bridge OTA job and API transports | `B/esp_tree_bridge.cpp`, `B/bridge_api_proto_*`, `B/bridge_api_serial.cpp` | one job (state, percent, chunk requests), the transport that owns it | start, chunk, abort, status, disconnect |
| Leaf session and joining | `R/remote_protocol.cpp` | join state, parent, session nonce, keys, heartbeat timers | discover, join, challenge, announce, heartbeat, parent loss |
| Bridge sessions | `B/bridge_protocol.cpp` | session table, schema transfer, command and state acks | join, schema, state, command, timeout |
| Relay routing | `R/remote_protocol.cpp` | routes with next hop and age | learn, forward, prune |
| Fragment assembly | both protocols | assembly slots | add fragment, expire |
| ESP8266 leaf | `device_code/components/espnow_82xx_remote` | as the ESP32 leaf | as the ESP32 leaf |
| Frame encoding, crypto | `C/` | none | encode, decode, seal, open |
| Add-on OTA queue | `app/ota_worker.py`, `app/db.py`, `app/bridge_v2_ota.py`, `app/firmware_store.py`, the OTA handlers of `app/server.py` | job rows and their order, firmware files, the worker's await and what it read before it, handlers on the bridge client | upload, reflash, confirm, start, abort, cancel, delete, reorder, pause; dequeue, start on the bridge, serve chunks, watch timeouts, wait for rejoin, recover |
| Add-on bridge clients | `app/bridge_v2_client.py`, `app/bridge_serial_client.py` | connection, pending requests | connect, request, event, disconnect |
| Add-on compile queue | `app/compile_worker.py`, `app/compiler.py` | compile jobs | enqueue, run, cancel |
| HTTP server, UI, integration | `app/server.py`, `ui/`, `ha_integration/` | views of the above | request handlers |

How they interact.  A leaf sweeps the channels with DISCOVER; the bridge and
relays that hear it answer with ANNOUNCE; the leaf joins through the best of
them.  The bridge challenges it, takes its schema from a cache or asks for it
entity by entity, and completes the join after the leaf's first states.  From
then on STATEs go up, each repeated until its ACK, which the bridge may send
only when a client of the API has confirmed the state; commands go down the
same way.  Heartbeats keep the session alive; a leaf without answers looks for
another parent, and a bridge that knows no session answers with DEAUTH.  Relays
learn from passing frames where a leaf is.

The add-on starts a job on the bridge through the API; the
job calls the manager; the manager announces the file to the leaf.  From the
leaf's ACCEPT both ends compute the same cut of the file into *chunks* and the
chunks into *increments* of at most 8 KB.  For every increment the manager asks
the add-on for the chunks, sends each as FILE_DATA (which the leaf does not
ack), closes the round with BLAST_COMPLETE, and waits for a GAPS ack: an empty
bitmap says that the increment is in flash, another one names the chunks to
send again.  After the last increment comes END; the leaf checks length and
MD5, selects the new slot for boot, sends five COMPLETE acks a second apart,
and restarts.  Every wait has a retry and a timeout on the bridge, and a
silence timeout on the leaf.

What is hard.  Acks refer to frames by counter, some handlers check the counter
and some do not; FILE_DATA carries no transfer or increment number; the leaf
may lose power between any two flash operations; retries cross late answers;
the source may stop answering; chunks of a round are spread over three sets on
the bridge.  In the session every exchange has a retry and a timeout on each
side, frames overtake one another, either side may restart and start its
counters over, and the two believe different things about the session
meanwhile.  Relays keep routes that nobody withdraws.  On the add-on everything
shares one event loop: a handler, the worker and a bridge event interleave at
every await, and most updates of a row do not read it again.  `PROJECT.json`
lists each such place with its line under `hazards`.

What makes each component correct.

- *Receiver*: the running firmware stays bootable whatever happens; an
  all-clear ack is never sent for an increment that is not in flash; SUCCESS is
  only reported for a verified image; no path leaves the flash handler open.
- *Manager*: chunks of a round are neither lost nor doubled between the
  source and the radio; BLAST_COMPLETE closes a round only when everything was
  sent; a transfer that ends says so in the public state.
- *Both*: the bridge never gets ahead of the leaf's flash; a transfer ends on
  both sides; a lost frame costs a retry, not the transfer; SUCCESS on the
  bridge means the file is on the leaf.
- *OTA job*: what the client of the API is told is what the manager does, and
  what the manager waits for the client was asked for.
- *Session*: Home Assistant shows a value the entity had and never an older one
  than before; a STATE that was acknowledged was published; a command is carried
  out once; the schema in use is that of the leaf's firmware; the two sides
  always come together again.
- *Fragments*: a value is one message, whole and not older than the last; the
  bytes reserved for assemblies come back.
- *Relays*: a frame dies sooner or later; following routes from the bridge one
  meets the leaf or a frame of its new place; a broken tree grows whole again.
- *OTA queue*: an attempt to flash ends and the row says how; queued jobs are
  served, in the order shown; one job flashes at a time; a row's
  `firmware_path` names its file, and no file is left without a row.

## 2. Modules

| Module | Models |
|---|---|
| `OtaGeometry` | the chunk and increment arithmetic of both ends, with its 16-bit casts |
| `OtaFrames` | the constants, files, frames and acks both ends share |
| `FileReceiver` | `FileReceiver`, `OTAFlashHandler`, the two app partitions, the bootloader |
| `FileReceiver8266` | what the ESP8266's copy of it changed: the staged update and its boot loader |
| `OtaManager` | `ESPNowOTAManager` |
| `OtaTransfer` | receiver and manager composed over the radio |
| `BridgeJob` | the API's OTA job over the manager: `emit_ota_events_`, both transports, `loop()` |
| `FlashQueue` | the add-on's OTA worker, job rows, firmware files, OTA handlers, and the bridge as they meet it |
| `Radio` | the air between a leaf and the bridge, receive queues, channels, faults |
| `LeafSession` | the leaf's `RemoteProtocol` without relaying and OTA |
| `Leaf8266` | what the ESP8266's copy of it changed |
| `BridgeSession` | `BridgeProtocol` for one leaf, and the delivery of states in `ESPTreeBridge` |
| `Session` | leaf and bridge composed; time, restarts, Home Assistant |
| `Mirror` | abstract: what state traffic promises Home Assistant |
| `Fragments` | the assembly of messages of several frames, on either side |
| `Relay` | the relay half of `RemoteProtocol`: routes, forwarding, choice of a parent |
| `OtaFramesProofs`, `FileReceiverProofs`, `BridgeJobProofs`, `OtaTransferProofs`, `FlashQueueProofs`, `SessionProofs`, `FragmentsProofs`, `RelayProofs` | lemmas and theorems |
| `MC*` | small instances for TLC |

### FileReceiver

One variable per field of the C++ class (`rx...`), the handler's state, and the
device: `slots` (content of the two app partitions), `running`, `boot`.  A chunk
is the pair of the file its bytes come from and its sequence number, and the
content of a slot is the sequence of chunks `esp_ota_write` appended, so that
"the right bytes at the right place" can be said.  MD5 is taken to tell
different images apart.

There is one action per outcome of a handler.  `handle_announce_` is
`HandleAnnounce` (refused, while active, accepted, ACCEPT not sent), and so on;
the flash outcomes esp-idf leaves open (a failing write, `esp_ota_end`,
`set_boot_partition`) are choices.  States the code enters and leaves in one
handler (ANNOUNCED, CHECKING, WRITING) do not appear.  Timeouts may fire at any
moment in the states they watch.  `OTA_SESSION_TIMEOUT_MS` (30 s, in
`RemoteProtocol::loop`) has no action of its own: in the states with a silence
timeout that one (10 s) fires first, and the complete phase lasts 5 s.

The module is open: `Next` lets any frame arrive in any state.  What holds here
holds against every bridge.

The receiver increments `retransmit_round_` for every BLAST_COMPLETE that finds
gaps, a retried one of the same round included, while the bridge counts rounds.
The two limits have the same value, so the leaf may give up first.

### FileReceiver8266

Extends `FileReceiver`.  Slot 0 is the sketch, slot 1 the free flash behind it;
`boot = 1` is an update staged whole, which the boot loader copies at the next
reset.  The copy can be cut by a power failure and is then repeated.  Whether
`OTABackend::begin` forgets an update staged before is decided in the Arduino
core, outside this repository: `BeginUnstages` is the assumption that it does.
`SpecOfBuild` of `MCFileReceiver` checks both builds in one run.

### OtaManager

One variable per field.  The tracker's sets of sequence numbers are sets; the
order of `pending_chunks_` is left out, as the leaf places chunks by number.
Every send has a result (`OK`, `NO_MEM`, `NOT_FOUND`, `FAIL`) that the action
takes as a parameter.  Also open: any source call, any ack that refers to a
frame already sent.  Handlers are atomic.  That is the serial build, where the
main loop takes the source's frames itself; with the WebSocket transport they
come from another task (`BridgeJob` interleaves its handlers with the parts of
`loop()`, section 7 has what is left).

### OtaTransfer

A receiver and `OtaManager` are instantiated side by side; `down` and `up` are
the frames and acks in flight.  The leaf is an ESP32 or an ESP8266 (`Esp8266`):
the two differ in what an announce does to the flash and in the boot
(`LeafHandlesAnnounce`, `LeafRestarts`, `LeafLosesPower`), and `BeginUnstages` is
as in `FileReceiver8266`.  The bridge has room for one frame per step
or the send returns NO_MEM, as the driver's queue does.  A frame or an ack may
be lost and a frame may be handled twice, `MaxFaults` times in all.  A reboot of
the leaf or a lost session empties both directions, because what was sealed
under the old session is dropped.  Acks beyond `AckQueueLen` are lost.
`PumpRequest` has no action here: it only ever asks for nothing
(`PumpRequestKeeps` in `BridgeJobProofs`).

### BridgeJob

Extends `OtaManager` with the fields of `ESPTreeBridge`: `job`
(`ota_job_state_`), `prev` (`ota_manager_prev_public_state_`), `last`
(`ota_last_requested_sequences_`), and the transport's `open` chunk request.  A
pass of `loop()` is three steps, *drain* (acks of the leaf reach the manager),
*poll* (the manager's `loop()`), *api* (`emit_ota_events_`), because the job
state lags behind the manager's between them.  Handlers of the UART run at
"api" only, as its bytes are read there; handlers of the WebSocket run in the
HTTP server's task, between any two steps.  Each handler is atomic.  The client
is open: it may answer a request late, twice, wrongly or not at all, leave and
come back.  `client` is that the transport has an authenticated client,
`attached` that the callbacks are set: `close_client` of the WebSocket ends the
first only (`ClientClosed`), and the callbacks then remember what they would
have asked for and tell nobody; `finish_session` and the UART's `reset_auth` end
both (`ClientLeaves`).

### Radio, LeafSession, Leaf8266, BridgeSession, Session

One leaf in range of the bridge.  `leaf` and `brg` are records with a field per
field of the two classes (of one `BridgeSession`, plus the join slot, the
schema caches, command and config queues, deliveries not yet confirmed).  There
is one action per handler and per branch of `loop()`, with the outcome of
`esp_now_send` as a parameter.  `Leaf8266` reuses what the ESP8266 left as it
was, and writes out what it changed: it tunes to its parent's channel before a
JOIN, a heartbeat or a STATE, and keeps its stall timers over a recovery.

A session key is the pair of nonces it comes from, values count the changes of
an entity, other leaves are the holder of the one join slot.  A message fits
one frame (`Fragments` has the others).  Text entities, whose retry carries the
value of now, are taken as the others.

Time is left out.  Timeouts are long beside the flight of a frame, so a timer
fires for nothing when the radio and both loops have nothing else to do
(`Quiet`, `Calm`); one that fires before its answer is in is the fault "early".
Lost and overtaking frames, refused sends, restarts of the leaf, with new
firmware or without, and of the bridge, evictions, another leaf's join, a weak
parent, a rejoin asked for and an offline timeout are the other kinds; all
share `MaxFaults`.

*Refinement.*  `Mirror` says what Home Assistant may see: the published value
of an entity is one it has had, and only ever a later one.  `Session` is shown
to implement it with `M == INSTANCE Mirror WITH cur <- leaf.val, pub <- brg.pub`.

### Fragments

One sender and one receiver in a session, for each of the three places with
assemblies: states and schemas on the bridge, commands on the leaf.  A counter
numbers fragments; a message is its first counter, its entity and its length;
bytes are counted in fragments.  Any fragment sent in the session may arrive at
any moment, repeatedly or never, so whatever the retries of `Session` do to
order is included.  `FragmentRefused`, `FragmentStored` and `MessageComplete`
are the outcomes of one handler; what changes nothing (an old message, no place,
a fragment of an older message than the assembly's) has no action.

### Relay

Remotes that join through one another.  `remote` has the fields of
`RemoteProtocol` that matter to the tree, `routes` the next hop to each leaf
below, `session` the bridge's next hop, `net` the frames in the air with their
hop counts.  The session is reduced to what moves the tree: a JOIN that reaches
the bridge is answered with COMPLETE, a STATE with an ACK.  `Scenarios` are the
bounds: who is in range of whom, whom a remote is configured to prefer, how many
frames are in the air and what may go wrong (a loss, a timer before its answer,
a recovery although the parent answers, a restart, a pruned route, a user's
SET_PARENT_MAC).

`Better` compares candidates as `select_parent_candidate_` does: the rank among
`preferred_parents_` (`PreferredIndex`), then hops, then the signal, which is
any.  A JOIN that is retried takes the best candidate anew (`TryJoin`).
`RefreshParent` is the periodic refresh of a remote that prefers a parent: `due`
says that `topology_refresh_due_ms_` is past, and `RefreshIntervalPasses` sets
it, without a bound, whenever two minutes have passed in which nothing else was
left to do.  A refresh that is due is made in the next pass of `loop()`, before
any retry counts as exhausted and before a STATE is sent (`RefreshDue`).
`SetParent` is CFG_CMD_SET_PARENT_MAC as it arrives, in front of the list or
alone in it; the way of the command to the remote is left out.  A frame that goes
in a circle of parents is followed for `Laps` rounds and then may be lost at no
cost (`Circling`).

### FlashQueue

`store` holds the rows of `ota_jobs` (device, status, `queue_order`,
`firmware_path`) and, for each row, where its file lies.  The event loop makes
a step of what runs between two awaits.  `pc` is the await the worker is at:

| `pc` | await |
|---|---|
| `sleep` | `_wake_event` in `_run` |
| `dequeue` | the topology in `_dequeue_next` |
| `connect` | the bridge connection in `_process_v2` |
| `start` | the topology and `ota_start` |
| `wait` | `terminal_event`, 5 s at a time |
| `giveup` | the abort after a timeout or a stall |
| `lookup`, `rejoin` | the topology and the sleep of `_wait_for_rejoin` |

`pick` is the top of `_run`, where nothing else can run.  What the code reads
before an await and uses after it is a variable: `seen` (the status the stall
test uses), `aborting` (job and path of `ota_abort`), `sending` (the row of a
chunk request being served), `uploads`.  Updates that do not read the row again
are unconditional here too.

Abstractions.  Names of retained files: `retain()` puts a prefix before the
name it finds, so every move gives a new name; only `ota_abort` holds a name
over an await, and two names besides the active one suffice to tell whether it
is still right.  `queue_order` of a row that is not queued is kept at 0, as it
is only read of queued rows.  Rows with equal `queue_order` come in id order, as
SQLite returns them; `created_at` grows with the id.  One `on_chunk_request` is
suspended at a time.  The bridge accepts, refuses or does not answer, reports
progress and an end in any order the queue of `MaxEvents` allows, and answers
an abort also for a job that has ended, as `api_ota_abort` does.  A start that
fails before the leaf accepts it is a lost answer with a failure event.
Lost answers, a missing bridge and restarts share the budget `MaxFaults`.  A
file that a flash job is created for (start-flash, auto-flash) is new: each
compilation writes one.

## 3. Runs

| Run | Instance | Shows |
|---|---|---|
| `receiver` | both builds; three files (a full and a short increment; one increment; not an image), 1 round, 2 COMPLETE acks | `TypeOK`, `HandlerFollowsReceiver`, `FlashFollowsCommits`, `CompleteOnlyVerified`, `NeverBricked`, `ClearMeansWritten` |
| `bridge_job` | both transports, a file of three chunks, 2 rounds, 2 attempts and retries | the manager: `TypeOK`, `RoundPartition`, `RoundSentBeforeBlastComplete`, `TargetInIncrement`, `StatusFollowsState`; the job: `AwaitedIsAsked`, `JobFollowsTransfer` |
| `transfer` | ESP8266 leaf, two files, several transfers, one fault, power loss included | `SenderNotAhead`, `EndOnlyWhenWritten`, `NoFullBitmap` |
| `transfer_live` | ESP32 leaf, one transfer of either file, one fault; any source, and beside it a healthy system | `TransferEnds`, `LeafSettles`, `SuccessMeansFlashed`, `HealthyTransferSucceeds` |
| `flash_job` | one row, every action, 2 faults | `TypeOK`, `HandlersFollowWorker`, `PathMeansFile`, `ActiveFilesAreOwned`, `FlashingEnds` |
| `flash_queue` | two rows, an online and an offline device, queue operations, reflash, 1 fault | `FrontMeansFirst`, `QueueIsServed` |
| `session` | ESP32, two channels, one entity with two values, two firmwares, a command, 2 faults of any kind | `TypeOK`, `AckedIsPublished`, `CommandOnce`, `SchemaCurrent`, `Mirrors` |
| `session_live` | ESP8266, two entities, a client that confirms states, a command, a config command, 1 fault | `Settles` |
| `session_clean` | one entity, a client that confirms states, no fault and no command | the finding of section 6 |
| `fragments` | three handlers, three entities, room for two assemblies, messages of one to three fragments | `WholeMessages`, `NewestLast`, `ReservedIsHeld` |
| `relay` | three remotes in a line and in a triangle; weak links, early timers, a list of preferred parents, a SET_PARENT_MAC, a loss, a restart or a pruned route | `TypeOK`, `DownstreamDies`, `RoutesLeadBack` |
| `relay_live` | two remotes that adopt one another by accident, by their lists or by a SET_PARENT_MAC; a refresh in the line; lists, a restart or a pruned route in the triangle; a loss where two hear the bridge | `Heals` |

*Bounds of the transfer.*  Two chunks per increment and files of two and three
chunks give a full and a short last increment, a first and a last one, and, in
the receiver, a chunk of another file at every index.  One retransmit round is
enough to reach its limit and to pass below it; two attempts and retries
separate the first, the last and the one too many.  `MaxStartTx` bounds how many
numbered frames precede the last start of a transfer, so the counter stays
finite without cutting a transfer short; 4 allows a second transfer while acks
of the first are in flight, and in `bridge_job` 2 a job after an ended one.
`QueueLen` 2 lets a chunk and its BLAST_COMPLETE be in flight together, and
makes NO_MEM happen.  Both runs were also made with the leaf of the other build,
with the same result.  The proofs of section 5 remove the bounds for the
receiver, the manager, the job and the transfer, on either build.

*Bounds of the flash queue.*  All that concerns one row needs one row, and
`flash_job` gives it every action; order, ties and a second active row need two.
There `MCFlashQueue` leaves out uploads, aborts and progress reports, which
`flash_job` has.  `DequeueAttempts` is the code's 3 in `flash_job` and 2 in
`flash_queue`; `StartRetries` is the code's 1.  The proofs remove the bounds for
the five invariants.

*Bounds of the session.*  Two channels with the bridge on the second make the
leaf sweep past one without an answer.  Two values of an entity are one to fall
back to and one to fall back from; two entities make the schema transfer and
the order of states matter.  Two faults are, for instance, a restart of the
bridge during the rejoin after a restart of the leaf.  Retry limits are 2 and 1
in place of 5: first, last and too many.  The proofs remove all of these bounds
for the safety properties, on either leaf.

*Bounds of the fragments.*  Three fragments exceed `MaxAssembly`, five counters
give every order of a message over an unfinished one of another length, and
`MaxTotal` is one short of what two full assemblies count while the second is
made.  The proofs remove the bounds.

*Bounds of the relays.*  Three remotes are the least for a relay between two
relays and for a leaf that moves between two parents.  `MaxHops` 4 leaves a
frame two rounds in the loop of two.  How many frames are in the air and which
faults meet is given per scenario in `MCRelay`.  Refreshes are not counted: they
come again for ever.  A link that stays weak makes the remote refresh in the same
way (`remote_protocol.cpp:838`); where it is not one of the counted recoveries,
the remote that prefers the parent it has stands for it.

*Deadlock* is not checked in `transfer*` and `session*`: with the bounds used
up the system may stop, idle.

*Symmetry* is used in `fragments` alone, where entities are alike.  Elsewhere
files differ in length, job ids in age, devices in being online, remotes in
their place.

*Mutants.*  Every property of a passing run has a mutant, an operator marked
"Mutant of" before the definition it replaces, which TLC finds in violation of
the property.

## 4. Fairness

`BothSpec` (in `MCOtaTransfer`) assumes weak fairness of the bridge's loop pass
(retries, sending queued chunks, the silence timer), of the leaf's `loop()`
(COMPLETE acks, the silence timer, the restart), and of the arrival of the frame
or ack at the head of its queue.  Both `loop()` functions are called for ever by
ESPHome and their conditions compare a clock, so a timer whose state lasts
fires.  Nothing is assumed of the source, the API, or the optional global
timeout.  A lost frame is a step of its own, bounded by `MaxFaults`.  Beside the
system in which everything may happen runs the healthy one (`healthy`), whose
environment is restricted (the source answers, no timer fires while a frame is
in flight, flash and announce succeed, no ack is lost); there the transfer must
succeed all the same.  Without the restriction on lost acks it does not: see
`CommittedIncrementIsReacked` below.

`Session!Fairness` assumes that both `loop()`s run for ever, heartbeats
included, that a frame in the air arrives, that a client which is there confirms
the states it is given, and that another leaf's join ends.  `Settles` asks that
the two sides agree in the end, or that the leaf is idle and believes itself
joined although nobody hears it: with nothing to send, and heartbeats that are
not acknowledged, it has no way to find out before its stall timer, which
reboots it.

`Relay!FairSpec` assumes the same of every remote's `loop()` and of the air.
`TryJoin` and `PushState` are strong only because of the model's bound on
frames in the air: the real ones do not wait for the air to be free.  A frame
that goes in a circle is lost in the end (a radio loses some, and relays'
queues overflow); the others arrive unless a fault takes them.  Nothing is
assumed of refreshes: they may come or not.

`FlashQueue!Fairness` assumes that the event loop resumes the worker: an await
with a timeout ends, a topology request returns or raises, and the clock passes
`transfer_timeout_s` and `rejoin_timeout_s`.  `RejoinDeadline` is strong, as the
worker is at that test only between two lookups.  The bridge answers a start or
the answer is lost; nothing is assumed of its events, of chunk requests, or of
users.  `QueueIsServed` is
about devices that stay online (`AlwaysOn`).

## 5. Proofs

All for any value of the constants, from the assumptions named in the modules.

| Module | Theorem | States |
|---|---|---|
| `FileReceiverProofs` | `ReceiverTypes` | `TypeOK` |
| | `HandlerIsReleased` | `HandlerFollowsReceiver` |
| | `SuccessIsVerified` | `CompleteOnlyVerified` |
| | `AlwaysBootable` | `NeverBricked`, on the ESP32 |
| | `AlwaysBootable8266` | `NeverBricked`, on the ESP8266, if `BeginUnstages` |
| | `FlashIsInOrder` | `FlashFollowsCommits` |
| | `ClearAcksAreWritten` | `ClearMeansWritten` |
| `BridgeJobProofs` | `ManagerTypes` | `TypeOK` |
| | `RoundsArePartitioned` | `RoundPartition` |
| | `BlastCompleteIsLast` | `RoundSentBeforeBlastComplete` |
| | `RoundsStayInIncrement` | `TargetInIncrement` |
| | `StatusIsTrue` | `StatusFollowsState` |
| | `ManagerUnderLoop` | `RoundPartition`, under the job's schedule |
| | `RequestsCoverNeeds` | `AwaitedIsAsked` |
| | `JobsEndTogether` | `JobFollowsTransfer` |
| `OtaTransferProofs` | `BridgeIsNotAhead` | `SenderNotAhead` |
| | `EndComesLast` | `EndOnlyWhenWritten` |
| | `BitmapsHaveGaps` | `NoFullBitmap` |
| | `FirstSuccessIsTrue` | `SuccessMeansFlashed`, for a bridge that starts one transfer |
| | `AcceptedSuccessIsTrue` | the same, for any transfers, once the leaf has accepted |
| | `LeafIsReceiver` | the leaf of `OtaTransfer` implements the open receiver of its build |
| | `TransferIsSafe` | `HandlerFollowsReceiver`, `FlashFollowsCommits`, `CompleteOnlyVerified` of the leaf in a transfer |
| | `TransferNeverBricks` | `NeverBricked` in a transfer; on the ESP8266 if `BeginUnstages` |
| `FlashQueueProofs` | `QueueTypes` | `TypeOK` |
| | `HandlersAreTheWorkers` | `HandlersFollowWorker` |
| | `PathsNameFiles` | `PathMeansFile` |
| | `NoFileIsLeft` | `ActiveFilesAreOwned` |
| | `FrontIsFirst` | `FrontMeansFirst` |
| `SessionProofs` | `SessionTypes` | `TypeOK` |
| | `SchemaIsCurrent` | `SchemaCurrent` |
| | `CommandRunsOnce` | `CommandOnce` |
| | `AckedWasPublished` | `AckedIsPublished`, if `Sinks = FALSE` |
| | `StatesMirror` | `Mirrors` (the refinement of `Mirror`), if `Sinks = FALSE` |
| `FragmentsProofs` | `AssembledIsSent` | `WholeMessages` |
| | `MessagesInOrder` | `NewestLast` |
| | `ReserveComesBack` | `ReservedIsHeld` |
| `RelayProofs` | `Typed` | `TypeOK` |
| | `DownstreamFramesDie` | `DownstreamDies` |
| | `RoutesFollowParents` | `RoutesLeadBack` |

*The receiver*, of the ESP32 (`Spec`) and of the ESP8266 (`Spec8266`): the two
builds differ in what an announce and a reboot do to flash, and all but what
must boot is proved of a step of either (`EitherNext`), so that the theorems
read `Spec \/ Spec8266 => ...`.  `PartitionAssumption` bounds a file by 65535 chunks; `on_announce` refuses what exceeds the update partition
(16 MB at most), and without such a bound the 16-bit increment count wraps.
`OtaFramesProofs` shows that the increments of a file cover exactly its chunks:
each but the last has `Cpi`, the last has the rest, and it ends where the file
ends.  On that rest three layers.

1. *Types.*  The increment and the buffer's domain stay inside the file.  This
   needs two facts the fields do not show: a transfer is idle exactly if it has
   no file, and `increment_written_` exactly in the states after the last write.
2. *Control* (`ControlInv`).  The handler is open exactly while a transfer is
   active, and the receiver leaves the last increment only for WAITING_END.
   `NeverBricked` is inductive next to it: `StepShape` classifies every step by
   what it does to flash (nothing, append to or erase the slot *not* running,
   select it, reboot), and only a reboot changes which slot runs; the
   bootloader then takes a slot with a whole image.
3. *Flash* (`FlashInv`).  `FlashFollowsCommits` is not inductive: the
   chunks written next come from the buffer.  It is strengthened by
   `BufferInPlace`, each buffered chunk has the number its index stands for.
   A write then appends a whole increment, after any prefix of it that an
   earlier failing attempt left behind; in the latter case the length is no
   longer the committed one, and the invariant says so.

On the ESP8266 the running slot is the one that is overwritten, at the reset
after an update, so `NeverBricked` needs what is staged (`StagedInv`): whatever
is ordered to be copied is a whole image, nothing is ordered while a transfer is
active, and the first chunk staged carries the image magic.  The first of these
comes from the verification, which compares with the announced file; that the
file is an ESP image comes from the third.  The second is what the hypothesis
`BeginUnstages` is for; without it the property fails (section 6).

*The manager.*  `IInv` adds to `TypeOK` what the sets of a round are in each
state (`RoundOK`: asked for, queued and sent are disjoint and inside the target,
nothing is asked for outside BLASTING, the target is not empty in WAITING_GAPS),
that the status follows the state, and that the counters of retries are fresh
where a state is entered (`FreshOK`).  The proof also shows that `PumpRequest`
never asks for anything.

*The job.*  `JobInv` ties three things that are updated in different steps of
`loop()`: the job's state and the manager's (`AgreeOK`), what the client was
told and what it will be told at "api" (`ToldOK`), and the open request and the
chunks the manager waits for (`AskedOK`; it needs that the last request is
forgotten whenever the manager has left WAITING_GAPS).

*The transfer.*  That the bridge is never ahead of the leaf's flash needs what is
in flight.  Frames carry counters given out (`FramesOK`, `AcksOK`).  While the
bridge announces, nothing follows its latest ANNOUNCE (`LatestAnnounceLast`),
and once that was answered the leaf has the bridge's file and only the
ANNOUNCE's repetition can still arrive (`AnsweredIsReceiving`); the same is what
makes a later restart of the leaf's transfer harmless (`AnnounceIsRepeated`).
From then on a BLAST_COMPLETE with a counter of the present round names the
present increment (`RoundsOfIncrement`), and an ack of one tells the truth:
all clear means that the leaf has written the increment, a bitmap is not full
(`ReportsTrue`).  The queues are reasoned about with two notions, what is kept
of a queue when its head or all of it is lost (`Kept`) and what is put behind
it, and each side's steps are first classified by what they do to them
(`BridgeMoves`).  `NoFullBitmap` is the last of these with the sets spelled out.

What makes SUCCESS true is a second invariant on top of it.  A COMPLETE that
reports success is only sent between the verification and the end of the leaf's
complete phase, and from there until it arrives the leaf takes no new transfer,
because no ANNOUNCE is in flight (`Delivered`).  What is left of an *earlier*
transfer must be gone before the bridge can take it for its own: acks arrive in
order and a verifying leaf refuses announces, so none is behind the ACCEPT of
the latest announce (`AnsweredIsUnverified`).  Between its ANNOUNCE and that
ACCEPT nothing protects the bridge, and `SuccessMeansFlashed` fails there
(section 6).  `AcceptedSuccessIsTrue` therefore says what holds without any
bound, for transfers the leaf has accepted; `FirstSuccessIsTrue` assumes
`MaxStartTx = 1`, the bound under which `transfer_live` checks the property (no
transfer is started after the first announce went out), and needs `FirstTransfer`
besides: before an accept only announces and ABORTs have ever been sent.

All of this is proved for a leaf of either build at once: the invariant reads
of the leaf only what `FileReceiver8266` shares with `FileReceiver`, and the
steps that differ are handled where an announce and a reboot are.

*The leaf of a transfer is the receiver.*  The theorems about the receiver are
about an open system, in which any chunk of any file and any increment number of
one may arrive at any moment.  `LeafIsReceiver` shows by step simulation that
`OtaTransfer` implements that system (`R == INSTANCE FileReceiver8266`): every
step of the composition is a step of the leaf or leaves it alone (`LeafSteps`).
What has to be shown is that the real bridge sends nothing else.  `FitInv` says
so of every frame in flight (`Fits`: a chunk is one of the file it names, a
BLAST_COMPLETE has a counter and an increment some file has), and, as they are
what the next frames are made of, of the manager's increment and of the chunks
it has asked for or queued (`SourceOK`).  `CountersAssumed`, that any
positive number is a counter, is the only hypothesis: `TxCounters` is the set of
counters that may arrive in the open system, and the bridge's are not bounded
here (section 8).  `TransferIsSafe` and `TransferNeverBricks` carry the receiver's
theorems over (`P == INSTANCE FileReceiverProofs`); the lemmas `Same...` say
that the two instances define the same operators.

*The flash queue.*  Handlers and the worker change rows and files through a
handful of operations on `store`.  Each keeps `StoreOK` (a row's path is where
its file is, a file at the active path belongs to a job that has not ended,
queue numbers are below the rows ever used and only one is 0) and changes
neither a row in use to unused nor a status against the life of a job
(`Evolves`).  `WorkerOK` and `SuspendedOK` say what survives an await: the
worker has a row except in "pick" and "sleep", and the path `ota_abort` read is
the active one as long as the file lies there.

*The session.*  First every handler and every branch of the two `loop()`s, of the
ESP32 and of the ESP8266, is reduced to what it does to the other side
(`Steps`).  The leaf's session goes on, with a key that stays or is made of a
JOIN_ACK, a STATE waited for that stays or is of now, and frames that are those
(`GoesOn`, `MaySend`), or it starts over with a new nonce (`StartsOver`).  The
bridge's session proceeds, is new with a nonce of now, or is gone (`Proceeds`,
`Renews`, `Clears`).  The radio only takes away and swaps (`Mixes`).  Then
`SessionInv`, over these three kinds of step:

- `Typed`: types, what the flags of the leaf's route recovery imply, and that a
  schema that counts as whole, received or cached, is of one firmware.
- `KeysOK`: nobody has a key of a nonce that is still to come, and a joined leaf
  has one of its own nonce.  A frame of a session of before can therefore never
  be mistaken for one of now.
- `SchemaOK`: what the bridge has a key for it takes for the firmware of that
  key, every part on its way is of it, and no part that is asked for has one
  missing before it.  The last is why the arrival of the last entity may stand
  for the whole schema.
- `CommandsOK`: a command keeps its counter wherever it waits, and one that was
  carried out is not newer than the leaf's last one of its entity.
- `StatesOK`, while nobody defers acks: nothing published or on its way is ahead
  of the entity; of two STATEs of an entity the later counter has the newer
  value; one the bridge would still take is no older than what is shown; the one
  waited for is the newest; an ack of it means it was published.

The hypothesis `Sinks = FALSE` is the bridge without a client or broker that
confirms states, which acks at once; with one the two properties do not hold
(section 6).  Counters are natural numbers in the model (section 8), and so here.

*Fragments.*  `FragInv`: an active assembly holds bytes of one message that was
sent to its entity, and their counters have been seen; messages take disjoint
ranges of counters; what was handed up last is whole and, for commands, not
newer than the counter the receiver keeps.  The counters seen are what orders
schemas, which are compared fragment by fragment.  `HeldOK`, for the reserve:
an entry that is there has a message in `sent`, there is room for `MaxPending`
of them, and the reserve is the sum of what they hold.  `SizesAssumption` keeps
that sum below the width of the counter (8 assemblies of at most 255 fragments,
32 bits).  Facts about the sums (`SumTakesOut`, `SumBound`) are proved by the
least set size at which they fail, since the library's induction theorems
cannot be applied.

*Relays.*  A downstream frame was relayed at most as often as its hop count
says, and the count never passes `MaxHops`; the type invariant carries what the
fields of a remote have to do with one another (a NORMAL remote has joined and
has a parent, no remote is its own parent).

That routes lead back needs the frames in the air (`WaysInv`).  The way up of a
leaf is the least set of remotes that has the leaf and the parent of each of its
remotes; nothing is assumed of its shape, since parents may form a circle.  While
nothing of a leaf from before the last move can reach the bridge, its frames on
the way up are on that way, each on the way to the next (`FramesOnWay`).  One of
them has marked the remotes it passed, unless the way leads in a circle
(`FramesMark`): on a way that ends at the bridge no two remotes have the same
parent (`OneChild`), so a later frame puts the same mark where one is.  The
frame that arrives ends the way and has marked it all (`FreshMarked`).  In a
circle two frames do overwrite each other's marks, and neither arrives.

Only model-checked: all liveness (the prover has neither fairness nor ENABLED).
Every safety invariant and action property of a passing run is stated by a
theorem, `AckedIsPublished` and `Mirrors` for the bridge without confirmations,
`SuccessMeansFlashed` within the bound given, `NeverBricked` on the ESP8266 with
`BeginUnstages`.  How many bytes a chunk has is not modelled; the formulas
for chunks and increments are, with their casts, and the lemmas of
`OtaFramesProofs` cover them.

## 6. Findings

`session_clean` (`CleanIsAcked`): `handle_ack_` clears the dirty flag of the
entity whose STATE was acknowledged without asking whether the value changed
since.  A change while a STATE is under way finds the flag set, the ACK of the
old value clears it, and the new value is not sent until the next change.
`docs/esptree_radio_v3_spec.md:1269`: "An entity is marked clean only on
`ACK(ACK_STATE)` confirming end-to-end MQTT delivery".

Also met while modelling.  Where a property is named it is defined, no run
checks it, and it is violated at once under the configuration given.

*Transfer*

- `SuccessMeansFlashed` (`MCOtaTransfer.cfg`, no faults): `on_file_ack` gives a
  COMPLETE ack to `handle_complete_` in any busy state and does not compare what
  it refers to (`bridge_ota_manager.cpp:243`), although
  `docs/esptree_radio_v3_spec.md:1471` has `ref_tx_counter` be the counter "of
  the ANNOUNCE packet being acked".  The leaf sends five; one of them may end
  the *next* transfer to that leaf as a success, while it is being announced
  (`AcceptedSuccessIsTrue`: not later).
- `CommittedIncrementIsReacked` (`MCFileReceiver.cfg`): after the last increment
  a repeated BLAST_COMPLETE is ignored, because the state test comes before the
  test for a written increment.  If the one ack of the last increment is lost
  the transfer fails after all data arrived.
- `WrittenMatchesCommitted` (`MCFileReceiver.cfg`): a flash write that fails
  after the first chunk of an increment is retried from its first chunk, behind
  what was already appended; END then finds the wrong length.
- `RebootOnlyAfterVerification` (`MCFileReceiver.cfg`): an abort in the complete
  phase leaves the new slot selected.  The next transfer rewrites that slot, and
  a power cut on the way boots from a slot other than the running one.  The
  device still comes up (`NeverBricked`).
- ESP8266: should `begin` not forget a staged update (`BeginUnstages = FALSE`),
  an announce accepted in the second between END and the restart overwrites what
  the boot loader is about to copy, and `NeverBricked` fails.
- `pump_queued_chunks_` (`bridge_ota_manager.cpp:556`) sends with the mutex
  released, then takes the queue's front for the chunk it sent without looking
  again.

*OTA job*

- `api_ota_abort` leaves `ota_manager_prev_public_state_` as it was
  ("TRANSFERRING").  A job started next whose ACCEPT arrives before the first
  poll shows no change of state, stays WAITING_FOR_LEAF and is never asked for
  chunks: it fails on silence.
- `close_client` of the WebSocket (`bridge_api_proto_ws.cpp:665`) takes the
  socket out before the session's task ends, so `finish_session` returns early
  (`:370`): the callbacks and the pending sequences stay until the next client
  or until a peer that never authenticated hangs up.  Meanwhile
  `emit_ota_events_` goes on and remembers as requested what no client got.
- `finish_session` clears the callbacks after it has let go of the mutex: a
  client that authenticates in between would be left without them.  `BridgeJob`
  takes it as one step and does not have this.
- After a reconnect no chunk request is sent again:
  `ota_last_requested_sequences_` is not cleared, and
  `send_current_ota_chunk_request` (`bridge_api_proto_ws.cpp:456`) is never
  called.  `AwaitedIsAsked` counts a request as made even if its client left.
- `docs/esptree_api_protobuf_spec.md` has `OtaAborted` be sent "if aborted by
  either side"; `on_ota_aborted` is never called.
- Once a batch is stale, each stale answer triggers another request.
- With a stale COMPLETE before the leaf accepted, the manager ends with SUCCESS
  and the client is told "failed before leaf accepted".
- The `ota_upload_*` part of `loop()` (`esp_tree_bridge.cpp:2510`) is dead code.

*Session*

- After a command was given up the leaf is shown offline while it stays NORMAL,
  and its heartbeats do not bring it back (`bridge_protocol.cpp:1336`):
  `Converges` (`MCSessionLive.cfg`) is violated.
- `OldIsHanded` (`MCFragments.cfg`): the leaf keeps
  `last_completed_command_message_tx_base` over a rejoin, a bridge that has
  restarted or evicted the session counts from 1, and its commands are taken for
  old ones and not answered until its counter passes the old one.
- A JOIN_ACK(COMPLETE) that arrives after the leaf gave up is accepted: the leaf
  is NORMAL with a key nobody shares, or, in route recovery, with a parent of
  all zeros.  It recovers (`Settles`, `Heals`).
- A NORMAL leaf that gets a SCHEMA_REQUEST stops sending states until the 120 s
  without outbound progress reboot it.
- An ANNOUNCE handled after the leaf moved to the next channel is taken for one
  of that channel.
- With a client that confirms states, one that answers out of order publishes an
  older value last: `Mirrors` does not hold with `Sinks` and "overtake".
- A confirmation the bridge waits for (up to 2 s, `STATE_DELIVERY_TIMEOUT_MS`)
  outlives a rejoin of the leaf.  `confirm_state_delivery_`
  (`bridge_protocol.cpp:1256`, from `esp_tree_bridge.cpp:2962`) then acks the old
  counter under the new key and takes it for the last one completed: the leaf
  finds its own STATE of the same counter acknowledged, which was not published
  and is afterwards dropped as a repeat.  `AckedIsPublished` does not hold with
  `Sinks`, "restart", "early" and five faults.  Receipts of the API compare
  session ids, those of MQTT do not.
- A command carried out before a reboot is carried out again by its retry.
- A schema retry after an entity asks again for the entity just received
  (`bridge_protocol.cpp:1147`).
- `docs/esptree_radio_v3_spec.md:905` has "The transition to NORMAL MUST be
  driven by JOIN_ACK(stage=100)"; `adopt_best_parent_candidate_` makes it as
  well.

*Fragments*

- `NothingLeaks` (`MCFragments.cfg`): a message that replaces an unfinished one
  of another length is not accounted for.  A shorter one leaves bytes reserved
  until the next join; a longer one returns more than was reserved, the counter
  passes below zero, and later messages are refused.
- A new entry's bytes count twice against the limit
  (`bridge_protocol.cpp:1016` and `:1025`).
- An entry refused for room stays, inactive; it never expires and keeps its
  place and its bytes until a message of the same entity succeeds.
- `docs/esptree_radio_v3_spec.md:460`, "Receiver tolerates duplicate or
  out-of-order fragment arrival": a SCHEMA_PUSH out of order is dropped by the
  test of the frame's counter (`bridge_protocol.cpp:989`).
- A value longer than `max_assembly_bytes` is sent by the leaf unchecked and
  never acknowledged; the leaf falls into route recovery again and again, and
  the entities behind it starve.
- The identity and entity 0 share a key of `pending_schema_assemblies`.

*Relays*

- `UpstreamDies` (`MCRelay.cfg`): `docs/esptree_radio_v3_spec.md:670` has
  "Relay increments hop_count before forwarding"; `forward_packet_` adds nothing
  upstream, and a frame goes round as long as a loop of parents lasts.
- `NoParentLoop` (`MCRelay.cfg`): the same document, line 25, has "no loop
  prevention needed"; a remote in recovery takes its own child for a parent.
  `Heals` shows that it does not last while states are sent, in the instances
  of `relay_live`; a loop of idle remotes is not noticed.
- `Heals` does not hold for every list of preferred parents.  With
  `Preferring(a :> <<b>>, Line, {}, 1, <<>>)` as the only scenario of
  `MCRelayLive.cfg`, a remote that prefers its child b, which has a child c, may
  stay cut off with both for ever: `preferred_index` comes before the hops
  (`remote_protocol.cpp:2328`), so a takes b at each recovery although the bridge
  answers as well, b takes c or a, and the distances never grow to `max_hops_`,
  since an own frame that comes back lowers `hops_to_bridge_` (`:693`).  Nor does
  it hold with `(a :> <<Bridge>>) @@ (b :> <<a>>)` in the line, where the
  refreshes of a and of b may break the way of b and c each time before it
  stands.  The triangle with a remote that prefers a child is not checked, for
  its size.  `Heals` holds where a prefers its only child, where the two of a pair
  prefer one another, after a SET_PARENT_MAC to any node in a pair, for lists of
  siblings in the triangle and for a remote in the line that prefers the parent it
  has.
- For a remote with a list `Heals` asks for a whole tree again and again, not for
  one that stays: each refresh takes the remote from its children for a while, and
  one of them may adopt its own child meanwhile.
- `docs/esptree_radio_v3_spec.md:886` has a preferred candidate of -85 dBm or more
  win and close the window early, and one below it count as any other;
  `select_parent_candidate_` does neither.
- A relay answers DISCOVER up to `max_hops` (`remote_protocol.cpp:1042`), a child
  accepts it (`:1087`), but frames with that count are dropped (`:665`): the
  children of the deepest relays cannot join.
- `routes_` is kept over a rediscovery; the hop counts of children and of the
  bridge go stale when a relay above moves; a late frame of a leaf that moved
  overwrites its new route until its next frame; the bridge takes over
  `next_hop` before it has validated the frame (`bridge_protocol.cpp:709`).

*Flash queue*

- `RetainedIsReachable` (`MCFlashJob.cfg`): `ota_abort` retains the path it read
  before the bridge answered.  The answer ran the worker's aborted handler
  first, which moved the file; the row ends with no path, the file with no row.
- `OneJobAtATime` (`MCFlashQueue.cfg`): `_dequeue_next` starts a queued job
  without asking whether one became active during the sleep or the await.
- `AbortedStaysAborted` (`MCFlashJob.cfg`): the updates after `ota_start`, after
  `send_chunks` and in `on_status` overwrite ABORTED.
- `MovedToBack` (`MCFlashQueue.cfg`, with `AlwaysOn` empty): a job "moved to back
  of queue" gets the order the last one has, and stays in front of it if it is
  older.  An offline device's job can so hold up the others, the case
  `QueueIsServed` leaves out.
- `BackMeansLast` (`MCFlashQueue.cfg`, with three jobs): dequeuing does not
  number the rest again, so a job that is not last can be refused as "already at
  the back of the queue".

## 7. Plan

What the models above are laid out for, most important first.

1. The WebSocket task *inside* the manager's `loop()`: `ota_mutex_` taken and
   released as the code does.  `BridgeJob` has its handlers between the parts of
   `loop()`; splitting `PumpQueuedChunks` at the send is the next step.
2. The add-on's *bridge clients* (request matching, reconnects), and
   `FlashQueue` composed with `BridgeJob` through them.
3. The *compile queue* beside `FlashQueue`: cancellation during the installation
   and during the build, auto-flash, restart.

## 8. Not modelled

- The WebSocket task inside `loop()`: see the plan.
- Byte formats, encryption, MD5 and COBS: their properties are not about
  behaviour.  An ack whose trailing bytes do not parse is an ack with `ok`
  FALSE; a frame that fails authentication is a lost frame.
- ESPHome entities, MQTT discovery and the web pages of the bridge
  (`bridge_mqtt_export.cpp`, `esp_tree_remote.cpp` but for its settings):
  formatting around callbacks; `Session` has the effect of a state published
  and of a command received.
- Commands and snapshots of the API, its authentication and framing.
- The contents of progress reports, logs and web pages.
- Wear, brown-outs inside one flash write and bootloader rollback: the slot not
  running may hold anything short of a whole image, which the model allows.
- In the flash queue: compile rows (their files appear when a flash job is made
  of them), exceptions of the database, `stop()`, job events and percentages.
- In the session: several leaves at once but for the join slot; a counter that
  wraps at 2^32, which takes years; the contents of a schema.
- The add-on's bridge clients and compile queue (planned), the user interface,
  other HTTP handlers and the Home Assistant platforms: request handlers around
  the parts above.
