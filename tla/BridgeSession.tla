--------------------------- MODULE BridgeSession ---------------------------
(***************************************************************************)
(* The bridge's side of one leaf's session: class BridgeProtocol, and the  *)
(* part of ESPTreeBridge that delivers states to Home Assistant.  Other    *)
(* leaves exist only as the holder of the one join slot.                   *)
(*                                                                         *)
(* ok, ok2 say whether esp_now_send took the first and the second frame of *)
(* a step.  A message fits one frame.                                      *)
(***************************************************************************)
EXTENDS Leaf8266

CONSTANTS
    MaxCommandRetries,  \* COMMAND_MAX_RETRIES
    MaxConfigRetries,   \* CONFIG_MAX_RETRIES
    Sinks               \* a client of the API or a broker confirms states

ASSUME BridgeAssumption ==
    /\ MaxCommandRetries \in Nat
    /\ MaxConfigRetries \in Nat
    /\ Sinks \in BOOLEAN

VARIABLE brg

\* A schema is held as the firmware, by hash, each entity's part came from.
NoHash == 99
NoSchema == [e \in Entities |-> NoHash]
NoCache == [hash |-> NoHash, got |-> NoSchema]
LastEntity == NumEntities

\* A BridgeSession as ensure_session_ makes it.
NoSession ==
    [exists |-> FALSE, named |-> FALSE, key |-> NoKey, keyValid |-> FALSE, nonce |-> 0,
     tx |-> 1, lastSeen |-> 0, lastState |-> 0, jip |-> FALSE, jcp |-> FALSE, jcRetry |-> 0,
     schema |-> FALSE, got |-> NoSchema, hash |-> NoHash, req |-> FALSE, want |-> 0,
     reqRetry |-> 0, sync |-> FALSE, more |-> FALSE, discOk |-> FALSE, online |-> FALSE,
     state |-> "NONE", announce |-> FALSE]

\* brg.s is the session; the rest outlives it.
BridgeInit ==
    brg = [s |-> NoSession, nonces |-> 0, slot |-> "none", cache |-> NoCache,
           cmds |-> <<>>, cfgs |-> <<>>, deliveries |-> {},
           pub |-> [e \in Entities |-> 0]]

-----------------------------------------------------------------------------
(* Frames of the bridge, from session s.                                   *)

Announce == [type |-> "ANNOUNCE"]
Deauth == [type |-> "DEAUTH"]
JoinAck(s, accepted, stage) ==
    [type |-> "JOIN_ACK", tx |-> s.tx, accepted |-> accepted, stage |-> stage, nonce |-> s.nonce]
StateAck(s, ref) == [type |-> "ACK", tx |-> s.tx, key |-> s.key, ref |-> ref]
SchemaRequest(s, d) == [type |-> "SCHEMA_REQUEST", tx |-> s.tx, key |-> s.key, desc |-> d]
Command(s, c) == [type |-> "COMMAND", tx |-> c.base, key |-> s.key, entity |-> c.entity, id |-> c.id]
Config(s, c) == [type |-> "CONFIG", tx |-> c.base, key |-> s.key, command |-> c.command]

\* send_plain_psk_ and send_encrypted_: the radio takes f, or not.
Put(q, f, ok) == IF ok THEN ToLeaf(q, f) ELSE q

Become(b) == brg' = b
Respond(b, f, ok) == Become(b) /\ down' = Put(down, f, ok)
Quietly(b) == Become(b) /\ UNCHANGED down

Bump(s) == [s EXCEPT !.tx = @ + 1]
WithSession(s) == [brg EXCEPT !.s = s]

-----------------------------------------------------------------------------
(* Joining.                                                                *)

\* send_join_ack_, accepted: the slot is taken if it is free and wanted.
ClaimSlot(b) == [b EXCEPT !.slot = IF @ = "none" THEN "me" ELSE @]
Accepted(s) == [Bump(s) EXCEPT !.jip = TRUE]

\* send_join_complete_: whoever holds the slot loses it.
Completed(b, reset) ==
    [b EXCEPT !.slot = "none",
              !.s = [Accepted(b.s) EXCEPT !.jcp = TRUE, !.jip = FALSE,
                                          !.jcRetry = IF reset THEN 0 ELSE @]]

\* A join that cannot be answered is dropped.
Dropped(s) ==
    [s EXCEPT !.jip = FALSE, !.online = FALSE, !.state = "NONE", !.schema = FALSE,
              !.req = FALSE, !.keyValid = FALSE]

\* The stage a repeated JOIN is answered with.
RetryStage(s) ==
    IF s.jcp THEN "COMPLETE"
    ELSE IF s.sync \/ s.schema THEN "SEND_STATE" ELSE "SCHEMA_REFRESH"

\* handle_join_ up to the look into the schema cache.
FreshSession(b, f) ==
    [b.s EXCEPT !.exists = TRUE, !.jip = FALSE, !.nonce = b.nonces + 1,
                !.key = <<b.nonces + 1, f.nonce>>, !.keyValid = TRUE, !.jcp = FALSE,
                !.jcRetry = 0, !.named = FALSE, !.hash = f.hash, !.state = "JOINED",
                !.lastSeen = f.tx, !.want = 0, !.reqRetry = 0, !.req = FALSE,
                !.lastState = 0, !.sync = FALSE]

\* Mutant of CacheHit: the name alone decides.
NamedHit(b, f) == b.s.named /\ b.cache # NoCache

\* The cache is keyed by the name the session had before the JOIN.
CacheHit(b, f) == b.s.named /\ b.cache.hash = f.hash

\* handle_join_ on a cache hit.
JoinCached(b, s, f, ok) ==
    LET h == [s EXCEPT !.named = TRUE, !.got = b.cache.got, !.schema = TRUE]
        y == [h EXCEPT !.sync = TRUE, !.more = TRUE]
    IN IF f.dirty = 0
       THEN Respond(Completed([b EXCEPT !.s = h], TRUE), JoinAck(h, TRUE, "COMPLETE"), ok)
       ELSE Respond([b EXCEPT !.slot = "none",
                              !.s = IF ok THEN Accepted(y) ELSE Dropped(Accepted(y))],
                    JoinAck(y, TRUE, "SEND_STATE"), ok)

\* ... and on a miss: JOIN_ACK and the first SCHEMA_REQUEST, for the identity.
JoinUncached(b, s, ok, ok2) ==
    LET m == [s EXCEPT !.got = NoSchema, !.schema = FALSE]
        a == Accepted(m)
    IN IF ~ok
       THEN Quietly([b EXCEPT !.slot = "none", !.s = Dropped(a)])
       ELSE /\ Become([b EXCEPT !.slot = "none",
                                !.s = IF ok2 THEN [Bump(a) EXCEPT !.req = TRUE]
                                      ELSE Dropped(Bump(a))])
            /\ down' = Put(ToLeaf(down, JoinAck(m, TRUE, "SCHEMA_REFRESH")),
                           SchemaRequest(a, 0), ok2)

SlotBusy(b) == b.slot = "other"

HandleJoin(f, ok, ok2) ==
    LET s == [brg.s EXCEPT !.exists = TRUE] IN
    IF SlotBusy(brg)
    THEN Respond(WithSession(Bump(s)), JoinAck(s, FALSE, "NONE"), ok)
    ELSE IF s.jip /\ s.key[2] = f.nonce /\ s.hash = f.hash
    THEN Respond(WithSession([Accepted(s) EXCEPT !.lastSeen = f.tx]),
                 JoinAck(s, TRUE, RetryStage(s)), ok)
    ELSE LET b == [brg EXCEPT !.nonces = @ + 1]
             n == FreshSession(brg, f)
         IN IF CacheHit(brg, f) THEN JoinCached(b, n, f, ok) ELSE JoinUncached(b, n, ok, ok2)

-----------------------------------------------------------------------------
(* The other frames of the leaf.                                           *)

Known(f) == brg.s.exists /\ brg.s.keyValid
Authentic(f) == Known(f) /\ f.key = brg.s.key

\* send_deauth_; without a session nothing is counted.
Reject(ok) ==
    Respond(IF brg.s.exists THEN WithSession(Bump(brg.s)) ELSE brg, Deauth, ok)

\* mark_online_.
MarkOnline(s, tx) == [s EXCEPT !.online = TRUE, !.lastSeen = tx]
OnlineIfNormal(s, tx) == IF s.state = "NORMAL" /\ ~s.online THEN MarkOnline(s, tx) ELSE s

\* handle_discover_.
HandleDiscover == Quietly(WithSession([brg.s EXCEPT !.exists = TRUE, !.announce = TRUE]))

\* The last entity is in: refresh_schema_cache_, discovery, and the leaf is
\* asked for its states.
SchemaDone(s, f, ok) ==
    LET d == [s EXCEPT !.got[f.desc] = f.of, !.schema = TRUE, !.req = FALSE, !.want = 0,
                       !.reqRetry = 0, !.discOk = TRUE, !.sync = TRUE, !.more = TRUE]
    IN Respond(ClaimSlot([brg EXCEPT !.s = Accepted(d),
                                  !.cache = [hash |-> s.hash, got |-> d.got]]),
               JoinAck(d, TRUE, "SEND_STATE"), ok)

\* The identity (desc = 0) or an entity that is not the last: the next is
\* asked for; a retry asks for the one before it once more, if that was an entity.
SchemaNext(s, f, ok) ==
    LET n == [s EXCEPT !.got = IF f.desc = 0 THEN @ ELSE [@ EXCEPT ![f.desc] = f.of],
                       !.named = @ \/ f.desc = 0, !.reqRetry = IF f.desc = 0 THEN 0 ELSE 1]
    IN Respond(WithSession([Bump(n) EXCEPT !.req = ok, !.want = Max({1, f.desc})]),
               SchemaRequest(n, f.desc + 1), ok)

\* handle_schema_push_.
HandleSchemaPush(f, ok) ==
    IF Authentic(f) /\ Newer(f.tx, brg.s.lastSeen)
    THEN LET s == [brg.s EXCEPT !.lastSeen = f.tx]
         IN IF f.desc = LastEntity THEN SchemaDone(s, f, ok) ELSE SchemaNext(s, f, ok)
    ELSE Quietly(brg)

\* handle_heartbeat_.  A leaf that is NORMAL and offline stays offline.
HandleHeartbeat(f, ok) ==
    IF ~Known(f) THEN Reject(ok)
    ELSE IF ~Authentic(f) \/ ~Newer(f.tx, brg.s.lastSeen) THEN Quietly(brg)
    ELSE LET s == [brg.s EXCEPT !.lastSeen = f.tx, !.jcp = FALSE, !.jcRetry = 0, !.jip = FALSE]
         IN Quietly(WithSession(IF s.state = "NORMAL" THEN s
                                ELSE MarkOnline([s EXCEPT !.state = "NORMAL"], f.tx)))

Without(q, i) == SubSeq(q, 1, i - 1) \o SubSeq(q, i + 1, Len(q))

\* handle_ack_ of a command or config: the first one with that counter goes.
Matching(q, f) == {i \in DOMAIN q : q[i].base = f.ref}
Answered(q, f) == IF Matching(q, f) = {} THEN q ELSE Without(q, Min(Matching(q, f)))

HandleLeafAck(f, ok) ==
    IF ~Known(f) THEN Reject(ok)
    ELSE IF ~Authentic(f) \/ ~Newer(f.tx, brg.s.lastSeen) THEN Quietly(brg)
    ELSE LET b == [brg EXCEPT !.s.lastSeen = f.tx]
             o == [b EXCEPT !.s = OnlineIfNormal(@, f.tx)]
         IN Quietly(IF f.kind = "COMMAND" THEN [o EXCEPT !.cmds = Answered(@, f)]
                    ELSE IF Matching(b.cfgs, f) # {}
                    THEN [o EXCEPT !.cfgs = Answered(@, f)]
                    ELSE b)

-----------------------------------------------------------------------------
(* States.                                                                 *)

SyncOver(s) == s.sync /\ ~s.more /\ s.discOk

\* confirm_state_delivery_, from bridge state b: COMPLETE if this was the
\* last state of the sync, then the ack.
Confirm(b, base, ok, ok2) ==
    LET c == IF Newer(base, b.s.lastState) THEN [b EXCEPT !.s.lastState = base] ELSE b
        over == Newer(base, b.s.lastState) /\ SyncOver(c.s)
        d == IF over THEN Completed([c EXCEPT !.s.sync = FALSE], TRUE) ELSE c
        q == IF over THEN Put(down, JoinAck(c.s, TRUE, "COMPLETE"), ok) ELSE down
    IN IF ~b.s.exists THEN Quietly(b)
       ELSE IF ~d.s.keyValid THEN Become(d) /\ down' = q
       ELSE Become([d EXCEPT !.s = Bump(@)]) /\ down' = Put(q, StateAck(d.s, base), ok2)

Repeated(s, f) == ~Newer(f.tx, s.lastState)

\* handle_state_ and the publish function of setup_transport_: with nobody
\* to confirm it the state is confirmed at once.
HandleState(f, ok, ok2) ==
    IF ~Authentic(f) THEN Reject(ok)
    ELSE IF Repeated(brg.s, f)
    THEN IF f.tx = brg.s.lastState
         THEN Respond(WithSession(Bump(brg.s)), StateAck(brg.s, f.tx), ok2)
         ELSE Quietly(brg)
    ELSE LET s == [brg.s EXCEPT !.lastSeen = Max({@, f.tx}),
                                !.more = IF brg.s.sync THEN f.more ELSE @]
             b == [brg EXCEPT !.s = OnlineIfNormal(s, f.tx), !.pub[f.entity] = f.value]
         IN IF Sinks
            THEN Quietly([b EXCEPT !.deliveries = @ \cup {[entity |-> f.entity, base |-> f.tx]}])
            ELSE Confirm(b, f.tx, ok, ok2)

\* mark_state_sink_delivered_ of the last sink.
Delivered(d, ok, ok2) ==
    /\ d \in brg.deliveries
    /\ Confirm([brg EXCEPT !.deliveries = @ \ {d}], d.base, ok, ok2)

\* expire_state_deliveries_: the leaf gets no ack.
DeliveryExpired(d) ==
    /\ d \in brg.deliveries
    /\ Quietly([brg EXCEPT !.deliveries = @ \ {d}])

-----------------------------------------------------------------------------
(* loop().                                                                 *)

SendAnnounce(ok) ==
    /\ brg.s.announce
    /\ Respond(WithSession([brg.s EXCEPT !.announce = FALSE]), Announce, ok)

OfflineTimeout ==
    /\ brg.s.online
    /\ Quietly(WithSession([brg.s EXCEPT !.online = FALSE, !.state = "NONE"]))

SchemaOverdue == brg.s.online /\ ~brg.s.schema /\ brg.s.req

SchemaRetry(ok) ==
    /\ SchemaOverdue /\ brg.s.reqRetry < MaxRetries
    /\ Respond(WithSession([Bump(brg.s) EXCEPT !.reqRetry = @ + 1, !.req = ok]),
               SchemaRequest(brg.s, brg.s.want), ok)

SchemaGiveUp ==
    /\ SchemaOverdue /\ brg.s.reqRetry >= MaxRetries
    /\ Quietly(WithSession([brg.s EXCEPT !.online = FALSE, !.state = "NONE", !.req = FALSE,
                                         !.keyValid = FALSE, !.jip = FALSE]))

SyncTimeout ==
    /\ brg.s.sync /\ ~brg.s.jcp
    /\ Quietly(WithSession([brg.s EXCEPT !.sync = FALSE, !.jip = FALSE]))

CompleteRetry(ok) ==
    /\ brg.s.jcp /\ brg.s.jcRetry < MaxRetries
    /\ LET b == Completed(brg, FALSE)
       IN Respond(IF ok THEN [b EXCEPT !.s.jcRetry = @ + 1] ELSE b,
                  JoinAck(brg.s, TRUE, "COMPLETE"), ok)

CompleteGiveUp ==
    /\ brg.s.jcp /\ brg.s.jcRetry >= MaxRetries
    /\ Quietly(WithSession([brg.s EXCEPT !.jcp = FALSE, !.jcRetry = 0, !.jip = FALSE,
                                         !.online = FALSE, !.state = "NONE", !.req = FALSE]))

\* The join slot is freed after 45 s.
SlotTimeout ==
    /\ brg.slot # "none"
    /\ Quietly([brg EXCEPT !.slot = "none"])

\* evict_sessions_for_ram_, or the cleanup when there are too many.
Evict ==
    /\ brg.s.exists
    /\ Quietly([brg EXCEPT !.s = NoSession, !.cache = IF brg.s.named THEN NoCache ELSE @])

\* A command or config can be sent.
Reachable == brg.s.exists /\ brg.s.online /\ brg.s.keyValid

\* send_command_to_leaf: command id for entity e.
SendCommand(id, e, ok) ==
    /\ Reachable
    /\ LET c == [id |-> id, entity |-> e, base |-> brg.s.tx, retry |-> 0]
       IN Respond([brg EXCEPT !.s = Bump(@), !.cmds = IF ok THEN Append(@, c) ELSE @],
                  Command(brg.s, c), ok)

\* A retry repeats the counter and goes out under the key of now.
CommandRetry(i, ok) ==
    /\ i \in DOMAIN brg.cmds /\ brg.cmds[i].retry < MaxCommandRetries
    /\ IF Reachable
       THEN Respond([brg EXCEPT !.cmds[i].retry = @ + 1], Command(brg.s, brg.cmds[i]), ok)
       ELSE Quietly([brg EXCEPT !.cmds = Without(@, i)])

\* The leaf is taken for offline; its state stays what it was.
CommandGiveUp(i) ==
    /\ i \in DOMAIN brg.cmds /\ brg.cmds[i].retry >= MaxCommandRetries
    /\ Quietly([brg EXCEPT !.cmds = Without(@, i), !.s.online = FALSE])

\* send_config_to_leaf and its retries.
SendConfig(command, ok) ==
    /\ Reachable
    /\ LET c == [command |-> command, base |-> brg.s.tx, retry |-> 0]
       IN Respond([brg EXCEPT !.s = Bump(@), !.cfgs = IF ok THEN Append(@, c) ELSE @],
                  Config(brg.s, c), ok)

ConfigRetry(i, ok) ==
    /\ i \in DOMAIN brg.cfgs
    /\ IF brg.cfgs[i].retry < MaxConfigRetries /\ Reachable
       THEN Respond([brg EXCEPT !.cfgs[i].retry = @ + 1], Config(brg.s, brg.cfgs[i]), ok)
       ELSE Quietly([brg EXCEPT !.cfgs = Without(@, i)])

\* send_force_rejoin.
ForceRejoin ==
    /\ brg.s.exists
    /\ Quietly(WithSession([brg.s EXCEPT !.sync = TRUE]))

\* Another leaf joins and takes the slot, and leaves it.
OtherJoins == brg.slot = "none" /\ Quietly([brg EXCEPT !.slot = "other"])
OtherJoined == brg.slot = "other" /\ Quietly([brg EXCEPT !.slot = "none"])

\* Everything is in RAM.  Nonces are random, so never those of before.
BridgeRestart ==
    Quietly([brg EXCEPT !.s = NoSession, !.slot = "none", !.cache = NoCache, !.cmds = <<>>,
                        !.cfgs = <<>>, !.deliveries = {}])
=============================================================================
