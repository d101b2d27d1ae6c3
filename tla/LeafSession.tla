---------------------------- MODULE LeafSession ----------------------------
(***************************************************************************)
(* A leaf's session with the bridge: class RemoteProtocol of               *)
(* esp_tree_remote, without its relay half (Relay) and its OTA half        *)
(* (FileReceiver).  One leaf, in direct range of the bridge; Leaf8266 is   *)
(* the build for the ESP8266.                                              *)
(*                                                                         *)
(* Actions are handlers and the branches of loop(); ok is what             *)
(* esp_now_send returned.  Values and nonces are numbers, a session key is *)
(* the pair of nonces it is derived from.  An answer to a request of the   *)
(* bridge carries its counter.  Time is left out: when a timer may fire is *)
(* up to Session.                                                          *)
(***************************************************************************)
EXTENDS Radio, FiniteSetsExt

CONSTANTS
    NumEntities,    \* entity_records_.size()
    MaxRetries      \* ESPNOW_MAX_RETRIES

ASSUME LeafAssumption ==
    /\ NumEntities \in Nat \ {0}
    /\ MaxRetries \in Nat \ {0}

VARIABLE leaf

\* entity_records_, by index.
Entities == 1 .. NumEntities

NoKey == <<0, 0>>
NoConfig == [tx |-> 0, result |-> "NONE"]

\* counter_is_newer: no behaviour here is long enough for the 32 bits to wrap.
Newer(c, seen) == c > seen

-----------------------------------------------------------------------------
(* Frames of the leaf.                                                     *)

Discover == [type |-> "DISCOVER"]
Join(l) == [type |-> "JOIN", tx |-> l.tx, nonce |-> l.nonce, hash |-> l.hash,
            dirty |-> Cardinality({e \in Entities : l.dirty[e]})]
Heartbeat(l) == [type |-> "HEARTBEAT", tx |-> l.tx, key |-> l.key]
State(l, e, v) == [type |-> "STATE", tx |-> l.tx, key |-> l.key, entity |-> e, value |-> v,
                   more |-> \E i \in Entities : i > e /\ l.dirty[i]]
Ack(l, kind, ref) == [type |-> "ACK", tx |-> l.tx, key |-> l.key, kind |-> kind, ref |-> ref]
SchemaPush(l, d) == [type |-> "SCHEMA_PUSH", tx |-> l.tx, key |-> l.key, desc |-> d,
                     of |-> l.hash]

-----------------------------------------------------------------------------
(* Sending.                                                                *)

HasParent(l) == l.parent # "none"

\* consecutive_send_failures_ and last_successful_outbound_ms_ after a send;
\* failures count up to MaxRetries.
Counted(l, ok) ==
    [l EXCEPT !.fails = IF ok THEN 0 ELSE Min({MaxRetries, @ + 1}), !.out = @ \/ ok]

NextTx(l) == [l EXCEPT !.tx = @ + 1]

\* send_frame_ to the parent, made from l: the radio takes f or not.
Air(l, f, ok) == IF ok /\ l.parent = "bridge" THEN ToBridge(up, f, tuned) ELSE up

\* The leaf becomes l and f, numbered with l's counter, is handed to the radio.
Send(l, f, ok) ==
    /\ leaf' = Counted(NextTx(l), ok)
    /\ up' = Air(l, f, ok)

Silent(l) == leaf' = l /\ UNCHANGED up

\* send_heartbeat_.
SendHeartbeat(l, ok) ==
    IF l.joined /\ HasParent(l) /\ l.normal
    THEN Send(l, Heartbeat(l), ok)
    ELSE Silent(l)

\* send_join_: what the leaf becomes when it is not refused at once.
Joining(l, ok) ==
    [l EXCEPT !.delayed = FALSE, !.inFlight = ok, !.joinRetry = IF ok THEN @ + 1 ELSE @]

CanJoin(l) == HasParent(l) /\ l.best # 0

\* send_state_ of entity e with value v; fresh is reset_retry_state.
CanSendState(l) == l.joined /\ HasParent(l) /\ l.push

\* Mutant of StateSent: a pending value is never replaced.
StateSentStale(l, e, v, fresh) ==
    [l EXCEPT !.base = l.tx, !.field = e, !.pval = IF @ = 0 THEN v ELSE @, !.waiting = TRUE,
              !.retry = IF fresh THEN 0 ELSE @ + 1]

StateSent(l, e, v, fresh) ==
    [l EXCEPT !.base = l.tx, !.field = e, !.pval = v, !.waiting = TRUE,
              !.retry = IF fresh THEN 0 ELSE @ + 1]

StateRefused(l, e) == [l EXCEPT !.dirty[e] = TRUE, !.waiting = FALSE]

SendState(l, e, v, fresh, ok) ==
    Send(IF ok THEN StateSent(l, e, v, fresh) ELSE StateRefused(l, e), State(l, e, v), ok)

\* send_command_ack_, and send_config_ack_ through send_ack_.
SendAck(l, kind, ref, ok) ==
    IF l.joined /\ HasParent(l) THEN Send(l, Ack(l, kind, ref), ok) ELSE Silent(l)

\* send_identity_descriptor_ (d = 0) and send_schema_push_.
SendSchema(l, d, ok) ==
    IF l.joined /\ HasParent(l) /\ d \in {0} \cup Entities
    THEN Send(l, SchemaPush(l, d), ok)
    ELSE Silent(l)

-----------------------------------------------------------------------------
(* Session state as a whole.                                               *)

\* clear_session_state_(false, preserve_route).
ClearSession(l, preserve) ==
    LET c == [l EXCEPT !.joined = FALSE, !.normal = FALSE, !.inFlight = FALSE,
                       !.discovering = ~preserve, !.keyValid = FALSE, !.lastSeen = 0,
                       !.cfg = NoConfig, !.joinRetry = 0, !.waitRejects = 0,
                       !.delayed = FALSE, !.push = FALSE, !.waiting = FALSE, !.retry = 0,
                       !.base = 0, !.field = 1, !.pval = 0, !.syncTimer = FALSE,
                       !.stateOk = FALSE, !.out = FALSE, !.fails = 0]
    IN IF preserve THEN c
       ELSE [c EXCEPT !.parent = "none", !.best = 0, !.fast = FALSE, !.resume = FALSE,
                      !.again = FALSE]

\* fill_random_bytes: a nonce not used before.
FreshNonce(l) == [l EXCEPT !.nonce = @ + 1]

\* Mutant of NewSweep: the sweep is not opened again.
OldSweep(l) == [l EXCEPT !.discovering = TRUE, !.tries = 0, !.chIdx = 0]

NewSweep(l) == [l EXCEPT !.discovering = TRUE, !.tries = 0, !.chIdx = 0, !.sweep = FALSE]

\* start_discovery_cycle_ of a leaf without WiFi.  The channel is set by Retune.
StartDiscovery(l) == FreshNonce(NewSweep(ClearSession(l, FALSE)))

\* start_config_full_rediscovery_: the parent of old stays until the next one.
StartRediscovery(l) ==
    FreshNonce(NewSweep([ClearSession(l, TRUE) EXCEPT !.fast = FALSE, !.resume = FALSE,
                                                      !.again = FALSE]))

\* start_route_recovery_cycle_: the session stays, the parent is looked for.
StartRecovery(l) ==
    [NewSweep(l) EXCEPT !.fast = TRUE, !.resume = TRUE, !.normal = FALSE,
              !.best = 0, !.push = FALSE, !.inFlight = FALSE, !.joinRetry = 0,
              !.delayed = FALSE, !.waiting = FALSE, !.retry = 0, !.again = FALSE,
              !.stateOk = FALSE, !.out = FALSE]

\* A leaf after power-up and its first loop() pass; hash is its firmware's schema.
Booted(nonce, values, hash) ==
    [joined |-> FALSE, normal |-> FALSE, discovering |-> TRUE, sweep |-> FALSE,
     resume |-> FALSE, fast |-> FALSE, again |-> FALSE, tries |-> 0, chIdx |-> 0,
     lastChan |-> 1, parent |-> "none", best |-> 0, inFlight |-> FALSE, joinRetry |-> 0,
     delayed |-> FALSE, waitRejects |-> 0, nonce |-> nonce, key |-> NoKey,
     keyValid |-> FALSE, lastSeen |-> 0, tx |-> 1, push |-> FALSE, waiting |-> FALSE,
     base |-> 0, field |-> 1, pval |-> 0, retry |-> 0, syncTimer |-> FALSE,
     stateOk |-> FALSE, out |-> FALSE, fails |-> 0, val |-> values,
     dirty |-> [e \in Entities |-> TRUE], cmd |-> [e \in Entities |-> 0],
     cfg |-> NoConfig, hash |-> hash]

LeafInit == leaf = Booted(1, [e \in Entities |-> 1], 0)

\* esp_wifi_set_channel; StartDiscovery and StartRediscovery go to the first one.
Retune(c) == tuned' = c
Untouched == UNCHANGED tuned

-----------------------------------------------------------------------------
(* Entities.                                                               *)

\* on_entity_state_change: the entity's callback with a new value.
EntityChange(e) ==
    /\ Silent([leaf EXCEPT !.val[e] = @ + 1, !.dirty[e] = TRUE])
    /\ Untouched

\* command_fn_: the entity acts on the command and publishes its new state,
\* or was in that state and publishes nothing.
CommandEffect(l, e, published) ==
    IF published THEN [l EXCEPT !.val[e] = @ + 1, !.dirty[e] = TRUE] ELSE l

-----------------------------------------------------------------------------
(* loop(): discovery.                                                      *)

\* The sweep has a parent and the session is to go on with it.
AdoptReady == leaf.discovering /\ leaf.sweep /\ leaf.best # 0 /\ leaf.resume

\* adopt_best_parent_candidate_(true).
Adopted(l) ==
    [l EXCEPT !.parent = "bridge", !.lastChan = l.best, !.discovering = FALSE,
              !.sweep = FALSE, !.fast = FALSE, !.again = FALSE, !.tries = 0,
              !.normal = TRUE, !.joined = TRUE, !.push = TRUE,
              !.stateOk = FALSE, !.out = FALSE]

AdoptParent(ok) ==
    /\ AdoptReady
    /\ SendHeartbeat(Adopted(leaf), ok)
    /\ Untouched

\* Mutant of JoinRetriesLeft: one retry more.
JoinRetryMore(n) == n <= MaxRetries

JoinRetriesLeft(n) == n < MaxRetries

\* The JOIN branch; it waits out a WAIT rejection and, with a JOIN in
\* flight, the backoff.
TryJoin(ok) ==
    /\ leaf.discovering /\ ~leaf.resume /\ leaf.sweep /\ leaf.best # 0 /\ ~leaf.joined
    /\ JoinRetriesLeft(leaf.joinRetry)
    /\ LET l == [leaf EXCEPT !.lastChan = leaf.best, !.inFlight = FALSE, !.parent = "bridge"]
       IN Send(Joining(l, ok), Join(l), ok)
    /\ Untouched

Due == leaf.discovering /\ ~leaf.sweep

\* The collection window closes on a candidate.
CloseWindow ==
    /\ Due /\ leaf.best # 0
    /\ Silent([leaf EXCEPT !.sweep = TRUE])
    /\ Untouched

\* send_on_channel: DISCOVER is broadcast, has no counter and needs no parent.
Broadcast(l, c, ok) ==
    /\ leaf' = Counted(l, ok)
    /\ up' = IF ok THEN ToBridge(up, Discover, c) ELSE up
    /\ Retune(c)

\* discover_retry_count_ beyond 2 is not told apart.
MoreTries(n) == Min({2, n + 1})

\* The next channel of the sweep.
SweepOn(l, i, ok) == Broadcast([l EXCEPT !.chIdx = i + 1], i + 1, ok)

\* send_discover_: one channel tried twice, then the sweep, for a leaf that
\* had a parent; the sweep alone for one that had none.
SendDiscover(ok) ==
    /\ Due /\ leaf.best = 0
    /\ \/ /\ leaf.again /\ leaf.fast
          /\ Broadcast([leaf EXCEPT !.again = FALSE, !.tries = MoreTries(@)], leaf.lastChan, ok)
       \/ /\ leaf.again /\ ~leaf.fast
          /\ SweepOn([leaf EXCEPT !.again = FALSE],
                     IF leaf.chIdx >= NumChannels THEN 0 ELSE leaf.chIdx, ok)
       \/ /\ ~leaf.again /\ leaf.fast /\ leaf.tries = 0
          /\ Broadcast([leaf EXCEPT !.tries = 1], leaf.lastChan, ok)
       \/ /\ ~leaf.again /\ leaf.fast /\ leaf.tries = 1 /\ ok
          /\ Silent([leaf EXCEPT !.again = TRUE]) /\ Untouched
       \/ /\ ~leaf.again /\ leaf.fast /\ leaf.tries > 1
          /\ SweepOn([leaf EXCEPT !.fast = FALSE, !.tries = 0, !.resume = TRUE], 0, ok)
       \/ /\ ~leaf.again /\ ~leaf.fast /\ leaf.chIdx >= NumChannels /\ ok
          /\ Silent([leaf EXCEPT !.again = TRUE, !.chIdx = 0]) /\ Untouched
       \/ /\ ~leaf.again /\ ~leaf.fast /\ leaf.chIdx < NumChannels
          /\ SweepOn(leaf, leaf.chIdx, ok)

\* The last JOIN is not waited for.
JoinExhausted ==
    /\ leaf.inFlight /\ ~JoinRetriesLeft(leaf.joinRetry) /\ ~leaf.joined
    /\ Silent(StartDiscovery(leaf))
    /\ Retune(1)

-----------------------------------------------------------------------------
(* loop(): a joined leaf.                                                  *)

\* What is before the joined branch has nothing to do.
InSession == leaf.joined /\ ~AdoptReady

SendsFail == leaf.fails >= MaxRetries

JoinedTimeout ==
    /\ InSession /\ ~leaf.normal /\ leaf.syncTimer
    /\ Silent(StartDiscovery(leaf))
    /\ Retune(1)

\* rejoin_due_to_transmit_stall_: repeated send failures.
SendFailureStall ==
    /\ InSession /\ SendsFail
    /\ Silent(StartRecovery(leaf))
    /\ Untouched

\* ... and no STATE acknowledged for 30 s, which may all have passed before
\* the one that is waited for was sent.
StateStall ==
    /\ InSession /\ ~SendsFail
    /\ leaf.waiting /\ leaf.stateOk
    /\ Silent(StartRecovery(leaf))
    /\ Untouched

\* Nothing got out for two minutes: the leaf restarts.
OutboundStall ==
    /\ InSession /\ ~SendsFail /\ leaf.out
    /\ Silent(Booted(leaf.nonce + 1, leaf.val, leaf.hash))
    /\ Retune(1)

\* The entity loop() pushes next.
FirstDirty(l) == Min({e \in Entities : l.dirty[e]})

\* The first dirty entity is pushed.
PushDirty(ok) ==
    /\ InSession /\ ~SendsFail /\ ~leaf.waiting
    /\ CanSendState(leaf) /\ \E e \in Entities : leaf.dirty[e]
    /\ LET e == FirstDirty(leaf) IN SendState(leaf, e, leaf.val[e], TRUE, ok)
    /\ Untouched

\* A retry sends the value of the first attempt under a new counter.  One
\* that the radio refuses is followed, in the same pass, by a fresh push.
StateRetry(ok, ok2) ==
    /\ InSession /\ ~SendsFail
    /\ leaf.waiting /\ leaf.retry < MaxRetries
    /\ CanSendState(leaf)
    /\ IF ok THEN SendState(leaf, leaf.field, leaf.pval, FALSE, TRUE)
       ELSE LET l == Counted(NextTx(StateRefused(leaf, leaf.field)), FALSE)
                e == FirstDirty(l)
            IN SendState(l, e, l.val[e], TRUE, ok2)
    /\ Untouched

StateExhausted ==
    /\ InSession /\ ~SendsFail
    /\ leaf.waiting /\ leaf.retry >= MaxRetries
    /\ Silent(StartRecovery([leaf EXCEPT !.waiting = FALSE, !.retry = 0,
                                         !.dirty[leaf.field] = TRUE]))
    /\ Untouched

\* The heartbeat is due.
HeartbeatDue(ok) ==
    /\ InSession /\ ~SendsFail /\ leaf.push /\ leaf.normal
    /\ SendHeartbeat(leaf, ok)
    /\ Untouched

\* The link to the parent is weak, or a better parent is preferred.
TopologyRefresh ==
    /\ leaf.normal /\ ~leaf.waiting /\ leaf.fails = 0 /\ ~leaf.discovering
    /\ Silent(StartRecovery(leaf))
    /\ Untouched

-----------------------------------------------------------------------------
(* Frames of the bridge.                                                   *)

\* validate_session_.
Valid(f) == leaf.keyValid /\ f.key = leaf.key

\* handle_discover_announce_ and select_parent_candidate_ with one responder.
HandleAnnounce ==
    /\ Silent([leaf EXCEPT !.best = IF @ = 0 THEN tuned ELSE @])
    /\ Untouched

\* handle_join_ack_, not accepted: another leaf is joining.
JoinRejected(l) ==
    LET r == [l EXCEPT !.keyValid = FALSE, !.fast = FALSE, !.waitRejects = @ + 1]
    IN IF r.waitRejects >= MaxRetries
       THEN StartDiscovery(r)
       ELSE [r EXCEPT !.inFlight = FALSE, !.delayed = TRUE, !.joinRetry = 0]

\* ... accepted.  Nothing ties the ack to the JOIN it answers.
JoinAccepted(l, f) ==
    [l EXCEPT !.key = <<f.nonce, l.nonce>>, !.keyValid = TRUE, !.joined = TRUE,
              !.fast = FALSE, !.discovering = FALSE, !.inFlight = FALSE, !.joinRetry = 0,
              !.lastSeen = f.tx]

\* Stage SEND_STATE.
Resync(l) ==
    [l EXCEPT !.push = TRUE, !.waiting = FALSE, !.retry = 0, !.syncTimer = TRUE,
              !.dirty = [e \in Entities |-> TRUE]]

\* Stage COMPLETE.  The candidate is taken for the parent, valid or not.
JoinComplete(l) ==
    [l EXCEPT !.normal = TRUE, !.syncTimer = FALSE, !.push = TRUE, !.fails = 0,
              !.stateOk = FALSE, !.out = FALSE, !.parent = IF l.best # 0 THEN "bridge" ELSE "zero"]

HandleJoinAck(f, ok) ==
    IF leaf.joined /\ ~Newer(f.tx, leaf.lastSeen) THEN Silent(leaf) /\ Untouched
    ELSE IF ~f.accepted
    THEN /\ Silent(JoinRejected(leaf))
         /\ IF leaf.waitRejects + 1 >= MaxRetries THEN Retune(1) ELSE Untouched
    ELSE LET l == JoinAccepted(leaf, f) IN
         /\ Untouched
         /\ CASE f.stage = "SCHEMA_REFRESH" ->
                    Silent(IF l.normal THEN l ELSE [l EXCEPT !.push = FALSE, !.syncTimer = TRUE])
              [] f.stage = "SEND_STATE" -> Silent(IF l.normal THEN l ELSE Resync(l))
              [] f.stage = "COMPLETE" -> SendHeartbeat(JoinComplete(l), ok)

\* Mutant of AckMatches: any STATE ack will do.
AnyStateAck(f) == leaf.waiting

AckMatches(f) == leaf.waiting /\ f.ref = leaf.base

\* handle_ack_ of ACK_STATE.
HandleAck(f) ==
    /\ \/ /\ leaf.joined /\ Newer(f.tx, leaf.lastSeen) /\ Valid(f)
          /\ LET l == [leaf EXCEPT !.lastSeen = f.tx]
             IN Silent(IF AckMatches(f)
                       THEN [l EXCEPT !.waiting = FALSE, !.retry = 0, !.stateOk = TRUE,
                                      !.dirty[leaf.field] = FALSE]
                       ELSE l)
       \/ ~(leaf.joined /\ Newer(f.tx, leaf.lastSeen) /\ Valid(f)) /\ Silent(leaf)
    /\ Untouched

\* Mutant of FreshCommand: a repeated command is carried out again.
AnyCommand(f) == f.tx >= leaf.cmd[f.entity]

FreshCommand(f) == Newer(f.tx, leaf.cmd[f.entity])

\* handle_command_ of a command in one fragment.  An older one is not answered.
HandleCommand(f, published, ok) ==
    /\ IF leaf.joined /\ Valid(f)
       THEN IF FreshCommand(f)
            THEN LET l == [leaf EXCEPT !.lastSeen = Max({@, f.tx}), !.dirty[f.entity] = FALSE,
                                       !.cmd[f.entity] = f.tx]
                 IN SendAck(CommandEffect(l, f.entity, published), "COMMAND", f.tx, ok)
            ELSE IF f.tx = leaf.cmd[f.entity]
            THEN SendAck(leaf, "COMMAND", f.tx, ok)
            ELSE Silent(leaf)
       ELSE Silent(leaf)
    /\ Untouched

\* handle_config_: the answer to f, remembered for a repetition.
ConfigAnswer(f) ==
    [leaf EXCEPT !.lastSeen = f.tx,
                 !.cfg = [tx |-> f.tx, result |-> IF leaf.normal THEN "OK" ELSE "BUSY"]]

\* What an accepted config command does once its ack is out.
ConfigEffect(l, command) ==
    CASE command = "REBOOT" -> Booted(l.nonce + 1, l.val, l.hash)
      [] command = "FORCE_REDISCOVER" -> StartRediscovery(l)
      [] command = "SET_PARENT_MAC" -> [StartRecovery(l) EXCEPT !.fast = FALSE]
      [] OTHER -> l

HandleConfig(f, ok) ==
    IF ~(leaf.joined /\ Valid(f)) THEN Silent(leaf) /\ Untouched
    ELSE IF leaf.cfg.tx = f.tx THEN SendAck(leaf, "CONFIG", f.tx, ok) /\ Untouched
    ELSE IF ~Newer(f.tx, leaf.lastSeen) THEN Silent(leaf) /\ Untouched
    ELSE LET l == ConfigAnswer(f)
             taken == leaf.normal /\ HasParent(l) /\ ok
         IN /\ up' = IF HasParent(l) THEN Air(l, Ack(l, "CONFIG", f.tx), ok) ELSE up
            /\ LET s == IF HasParent(l) THEN Counted(NextTx(l), ok) ELSE l
               IN leaf' = IF taken THEN ConfigEffect(s, f.command) ELSE s
            /\ IF taken /\ f.command \in {"REBOOT", "FORCE_REDISCOVER"}
               THEN Retune(1) ELSE Untouched

\* handle_schema_request_.
HandleSchemaRequest(f, ok) ==
    /\ IF leaf.joined /\ Newer(f.tx, leaf.lastSeen) /\ Valid(f)
       THEN SendSchema([leaf EXCEPT !.lastSeen = f.tx, !.push = FALSE, !.stateOk = FALSE],
                       f.desc, ok)
       ELSE Silent(leaf)
    /\ Untouched

\* handle_deauth_: no counter is looked at.  The leaf joins again over the
\* route it has, or starts over.
HandleDeauth(ok) ==
    LET l == FreshNonce([ClearSession(leaf, TRUE) EXCEPT
                            !.discovering = TRUE, !.sweep = TRUE, !.fast = FALSE,
                            !.resume = FALSE])
    IN IF CanJoin(l)
       THEN /\ up' = Air(l, Join(l), ok)
            /\ LET s == Counted(NextTx(Joining(l, ok)), ok)
               IN leaf' = IF ok THEN s ELSE StartDiscovery(s)
            /\ IF ok THEN Untouched ELSE Retune(1)
       ELSE Silent(StartDiscovery(l)) /\ Retune(1)

-----------------------------------------------------------------------------
\* on_espnow_frame of a frame for this leaf.
OnFrame(f, ok) ==
    \/ f.type = "ANNOUNCE" /\ HandleAnnounce
    \/ f.type = "JOIN_ACK" /\ HandleJoinAck(f, ok)
    \/ f.type = "ACK" /\ HandleAck(f)
    \/ f.type = "COMMAND" /\ \E published \in BOOLEAN : HandleCommand(f, published, ok)
    \/ f.type = "CONFIG" /\ HandleConfig(f, ok)
    \/ f.type = "SCHEMA_REQUEST" /\ HandleSchemaRequest(f, ok)
    \/ f.type = "DEAUTH" /\ HandleDeauth(ok)

\* Power fails; the firmware may be another one afterwards.
LeafRestart(hash) ==
    /\ Silent(Booted(leaf.nonce + 1, leaf.val, hash))
    /\ Retune(1)
=============================================================================
