------------------------------ MODULE Leaf8266 ------------------------------
(***************************************************************************)
(* The leaf of the ESP8266: class RemoteProtocol of espnow_82xx_remote.    *)
(* It is a copy of the ESP32's (LeafSession) that cannot relay, goes back  *)
(* to the channel of its parent before a JOIN, a heartbeat or a STATE, and *)
(* forgets fewer timers.  What the copy left as it was has the name of the *)
(* original here with 8266 after it; what it changed is written out.       *)
(***************************************************************************)
EXTENDS LeafSession

-----------------------------------------------------------------------------
(* Sending: set_wifi_channel_with_recovery(last_known_channel_) first.     *)

Home(l) == tuned' = l.lastChan

SendHome(l, f, ok) ==
    /\ leaf' = Counted(NextTx(l), ok)
    /\ up' = IF ok /\ l.parent = "bridge" THEN ToBridge(up, f, l.lastChan) ELSE up
    /\ Home(l)

SendHeartbeat8266(l, ok) ==
    IF l.joined /\ HasParent(l) /\ l.normal
    THEN SendHome(l, Heartbeat(l), ok)
    ELSE Silent(l) /\ Untouched

Joining8266(l, ok) == Joining(l, ok)
CanJoin8266(l) == CanJoin(l)
CanSendState8266(l) == CanSendState(l)

SendState8266(l, e, v, fresh, ok) ==
    SendHome(IF ok THEN StateSent(l, e, v, fresh) ELSE StateRefused(l, e), State(l, e, v), ok)

SendAck8266(l, kind, ref, ok) == SendAck(l, kind, ref, ok)
SendIdentity8266(l, ok) == SendSchema(l, 0, ok)
SendSchemaPush8266(l, d, ok) == SendSchema(l, d, ok)
Validate8266(f) == Valid(f)

-----------------------------------------------------------------------------
(* Session state as a whole.                                               *)

ClearSession8266(l, preserve) == ClearSession(l, preserve)
StartDiscovery8266(l) == StartDiscovery(l)
StartRediscovery8266(l) == StartRediscovery(l)
EntityChange8266(e) == EntityChange(e)
CommandEffect8266(l, e, published) == CommandEffect(l, e, published)

\* start_route_recovery_cycle_ and adopt_best_parent_candidate_ leave
\* last_successful_state_ms_ and last_successful_outbound_ms_ as they are.
StartRecovery8266(l) == [StartRecovery(l) EXCEPT !.stateOk = l.stateOk, !.out = l.out]
Adopted8266(l) == [Adopted(l) EXCEPT !.stateOk = l.stateOk, !.out = l.out]

-----------------------------------------------------------------------------
(* loop().                                                                 *)

AdoptParent8266(ok) == AdoptReady /\ SendHeartbeat8266(Adopted8266(leaf), ok)

TryJoin8266(ok) ==
    /\ leaf.discovering /\ ~leaf.resume /\ leaf.sweep /\ leaf.best # 0 /\ ~leaf.joined
    /\ JoinRetriesLeft(leaf.joinRetry)
    /\ LET l == [leaf EXCEPT !.lastChan = leaf.best, !.inFlight = FALSE, !.parent = "bridge"]
       IN SendHome(Joining8266(l, ok), Join(l), ok)

CloseWindow8266 == CloseWindow
SendDiscover8266(ok) == SendDiscover(ok)
JoinExhausted8266 == JoinExhausted
JoinedTimeout8266 == JoinedTimeout
OutboundStall8266 == OutboundStall

\* A session is given up for a new route.
Recover == Silent(StartRecovery8266(leaf)) /\ Untouched

SendFailureStall8266 == InSession /\ SendsFail /\ Recover

StateStall8266 == InSession /\ ~SendsFail /\ leaf.waiting /\ leaf.stateOk /\ Recover

TopologyRefresh8266 ==
    /\ leaf.normal /\ ~leaf.waiting /\ leaf.fails = 0 /\ ~leaf.discovering
    /\ Recover

PushDirty8266(ok) ==
    /\ InSession /\ ~SendsFail /\ ~leaf.waiting
    /\ CanSendState8266(leaf) /\ \E e \in Entities : leaf.dirty[e]
    /\ LET e == FirstDirty(leaf) IN SendState8266(leaf, e, leaf.val[e], TRUE, ok)

StateRetry8266(ok, ok2) ==
    /\ InSession /\ ~SendsFail
    /\ leaf.waiting /\ leaf.retry < MaxRetries
    /\ CanSendState8266(leaf)
    /\ IF ok THEN SendState8266(leaf, leaf.field, leaf.pval, FALSE, TRUE)
       ELSE LET l == Counted(NextTx(StateRefused(leaf, leaf.field)), FALSE)
                e == FirstDirty(l)
            IN SendState8266(l, e, l.val[e], TRUE, ok2)

StateExhausted8266 ==
    /\ InSession /\ ~SendsFail
    /\ leaf.waiting /\ leaf.retry >= MaxRetries
    /\ Silent(StartRecovery8266([leaf EXCEPT !.waiting = FALSE, !.retry = 0,
                                             !.dirty[leaf.field] = TRUE]))
    /\ Untouched

HeartbeatDue8266(ok) ==
    InSession /\ ~SendsFail /\ leaf.push /\ leaf.normal /\ SendHeartbeat8266(leaf, ok)

-----------------------------------------------------------------------------
(* Frames of the bridge.                                                   *)

HandleAnnounce8266 == HandleAnnounce
JoinAccepted8266(l, f) == JoinAccepted(l, f)

HandleJoinAck8266(f, ok) ==
    IF f.stage = "COMPLETE" /\ f.accepted /\ ~(leaf.joined /\ ~Newer(f.tx, leaf.lastSeen))
    THEN SendHeartbeat8266(JoinComplete(JoinAccepted8266(leaf, f)), ok)
    ELSE HandleJoinAck(f, ok)

HandleAck8266(f) == HandleAck(f)

HandleCommand8266(f, published, ok) ==
    /\ IF leaf.joined /\ Validate8266(f) /\ FreshCommand(f)
       THEN LET l == [leaf EXCEPT !.lastSeen = Max({@, f.tx}), !.dirty[f.entity] = FALSE,
                                  !.cmd[f.entity] = f.tx]
            IN SendAck8266(CommandEffect8266(l, f.entity, published), "COMMAND", f.tx, ok)
       ELSE IF leaf.joined /\ Validate8266(f) /\ f.tx = leaf.cmd[f.entity]
       THEN SendAck8266(leaf, "COMMAND", f.tx, ok)
       ELSE Silent(leaf)
    /\ Untouched

HandleSchemaRequest8266(f, ok) ==
    /\ IF leaf.joined /\ Newer(f.tx, leaf.lastSeen) /\ Validate8266(f)
       THEN LET l == [leaf EXCEPT !.lastSeen = f.tx, !.push = FALSE, !.stateOk = FALSE]
            IN IF f.desc = 0 THEN SendIdentity8266(l, ok) ELSE SendSchemaPush8266(l, f.desc, ok)
       ELSE Silent(leaf)
    /\ Untouched

\* SET_PARENT_MAC goes through the recovery that keeps the timers.
HandleConfig8266(f, ok) ==
    IF /\ f.command = "SET_PARENT_MAC" /\ leaf.joined /\ Valid(f)
       /\ leaf.cfg.tx # f.tx /\ Newer(f.tx, leaf.lastSeen)
       /\ leaf.normal /\ HasParent(leaf) /\ ok
    THEN LET l == ConfigAnswer(f)
         IN /\ up' = Air(l, Ack(l, "CONFIG", f.tx), TRUE)
            /\ leaf' = [StartRecovery8266(Counted(NextTx(l), TRUE)) EXCEPT !.fast = FALSE]
            /\ Untouched
    ELSE HandleConfig(f, ok)

\* The JOIN goes out on the channel of the parent.
HandleDeauth8266(ok) ==
    LET l == FreshNonce([ClearSession8266(leaf, TRUE) EXCEPT
                            !.discovering = TRUE, !.sweep = TRUE, !.fast = FALSE,
                            !.resume = FALSE])
    IN IF CanJoin8266(l) /\ ok THEN SendHome(Joining8266(l, TRUE), Join(l), TRUE)
       ELSE IF CanJoin8266(l)
       THEN /\ leaf' = StartDiscovery8266(Counted(NextTx(Joining8266(l, FALSE)), FALSE))
            /\ UNCHANGED up /\ Retune(1)
       ELSE Silent(StartDiscovery8266(l)) /\ Retune(1)

OnFrame8266(f, ok) ==
    \/ f.type = "ANNOUNCE" /\ HandleAnnounce8266
    \/ f.type = "JOIN_ACK" /\ HandleJoinAck8266(f, ok)
    \/ f.type = "ACK" /\ HandleAck8266(f)
    \/ f.type = "COMMAND" /\ \E published \in BOOLEAN : HandleCommand8266(f, published, ok)
    \/ f.type = "CONFIG" /\ HandleConfig8266(f, ok)
    \/ f.type = "SCHEMA_REQUEST" /\ HandleSchemaRequest8266(f, ok)
    \/ f.type = "DEAUTH" /\ HandleDeauth8266(ok)
=============================================================================
