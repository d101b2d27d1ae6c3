------------------------------ MODULE Session ------------------------------
(***************************************************************************)
(* A leaf (LeafSession or Leaf8266) and the bridge (BridgeSession) over    *)
(* the radio.                                                              *)
(*                                                                         *)
(* Time: a timer fires for nothing once the radio and both loops have      *)
(* nothing else to do, for the timeouts are long beside the flight of a    *)
(* frame; one that fires while an answer is on its way costs a fault, as a *)
(* lost frame, a refused send or a restart does.                           *)
(***************************************************************************)
EXTENDS BridgeSession

CONSTANTS
    Esp8266,        \* the leaf is an ESP8266
    Faults,         \* the kinds of fault that may happen
    Hashes,         \* schema hashes of the leaf's firmwares
    ConfigCommands, \* config commands Home Assistant sends
    MaxValue,       \* bound on the changes of an entity
    MaxCommands,    \* bound on commands sent
    MaxConfigs      \* bound on config commands sent

FaultKinds == {"loss", "overtake", "early", "refused", "restart", "firmware", "bridge",
               "evict", "other", "weak", "rejoin", "offline"}

ASSUME SessionAssumption ==
    /\ Esp8266 \in BOOLEAN
    /\ Faults \subseteq FaultKinds
    /\ 0 \in Hashes /\ Hashes \subseteq 0 .. 98
    /\ ConfigCommands \subseteq {"REBOOT", "FORCE_REDISCOVER", "SET_PARENT_MAC", "OTHER"}
    /\ {MaxValue, MaxCommands, MaxConfigs} \subseteq Nat

\* History: what was sent from Home Assistant, the commands carried out since
\* the leaf booted, and the value of the last acknowledged STATE by entity.
VARIABLE hist

vars == <<radioVars, leaf, brg, hist>>

Init ==
    /\ RadioInit
    /\ LeafInit
    /\ BridgeInit
    /\ hist = [issued |-> 0, configs |-> 0, applied |-> <<>>,
               acked |-> [e \in Entities |-> 0]]

-----------------------------------------------------------------------------
(* Faults and timers.                                                      *)

\* A fault of a kind, paid for.
Fault(kind) == kind \in Faults /\ Spend(1)

\* A send refused costs one, and so does a timer that is early.
Free == UNCHANGED faults
Sends(ok) == IF ok THEN Free ELSE Fault("refused")

\* What loop() of the leaf does without waiting.
JoinReady ==
    /\ leaf.discovering /\ ~leaf.resume /\ leaf.sweep /\ leaf.best # 0 /\ ~leaf.joined
    /\ ~leaf.inFlight /\ ~leaf.delayed /\ JoinRetriesLeft(leaf.joinRetry)
PushReady ==
    /\ InSession /\ ~leaf.waiting /\ CanSendState(leaf) /\ \E e \in Entities : leaf.dirty[e]
LeafBusy ==
    \/ AdoptReady
    \/ JoinReady
    \/ PushReady
    \/ InSession /\ SendsFail /\ ~leaf.discovering

Idle ==
    /\ up = <<>> /\ down = <<>>
    /\ ~brg.s.announce /\ brg.deliveries = {}
    /\ ~LeafBusy

\* ... and no other leaf is in the middle of its join.
Quiet == Idle /\ brg.slot # "other"

\* ... nor a retransmission due, which take a few seconds at most.
Calm ==
    /\ Quiet /\ ~(leaf.waiting /\ leaf.push) /\ ~leaf.inFlight
    /\ ~brg.s.jcp /\ ~SchemaOverdue /\ brg.cmds = <<>> /\ brg.cfgs = <<>>

\* A retransmission timer, and one of the long timeouts (30 s and more).
Timer == IF Quiet THEN Free ELSE Fault("early")
TimerSends(ok) == IF Quiet THEN Sends(ok) ELSE ok /\ Fault("early")

LongTimer == IF Calm THEN Free ELSE Fault("early")

\* The leaf is one the bridge's heartbeat timer should not catch.
InTouch == leaf.normal /\ leaf.key = brg.s.key /\ leaf.parent = "bridge"

-----------------------------------------------------------------------------
(* The leaf.                                                               *)

LeafOnly == UNCHANGED <<down, brg>>

\* A reboot forgets the commands of before.
Forget == IF leaf'.tx = 1 THEN <<>> ELSE hist.applied
Boots == hist' = [hist EXCEPT !.applied = Forget]
Unseen == UNCHANGED hist

Carried(f) ==
    hist' = [hist EXCEPT !.applied =
                IF leaf.joined /\ Valid(f) /\ FreshCommand(f) THEN Append(@, f.id) ELSE @]

Acknowledged(f) ==
    hist' = IF leaf.joined /\ Newer(f.tx, leaf.lastSeen) /\ Valid(f) /\ AckMatches(f)
            THEN [hist EXCEPT !.acked[leaf.field] = leaf.pval] ELSE hist

\* What the history keeps of a frame the leaf receives.
Recorded(f) ==
    CASE f.type = "ACK" -> Acknowledged(f)
      [] f.type = "COMMAND" -> Carried(f)
      [] f.type = "CONFIG" -> Boots
      [] OTHER -> Unseen

\* drain_received_frames_ of the leaf.
LeafReceive(ok) ==
    /\ down # <<>> /\ down' = Tail(down) /\ UNCHANGED brg
    /\ Sends(ok)
    /\ \/ ~Esp8266 /\ OnFrame(Head(down), ok)
       \/ Esp8266 /\ OnFrame8266(Head(down), ok)
    /\ Recorded(Head(down))
    /\ ok \/ leaf'.fails # leaf.fails

\* A leaf that has nobody to send to, or no leave to, sends nothing.
Mute == ~leaf.discovering /\ ~(leaf.normal /\ leaf.push)

\* loop() of the leaf: what it does at once, and its timers.
Loop32 ==
    \/ \E ok \in BOOLEAN :
         /\ Unseen
         /\ \/ Sends(ok) /\ AdoptParent(ok)
            \/ JoinReady /\ Sends(ok) /\ TryJoin(ok)
            \/ Sends(ok) /\ PushDirty(ok)
            \/ ~JoinReady /\ TimerSends(ok) /\ TryJoin(ok)
            \/ TimerSends(ok) /\ SendDiscover(ok)
            \/ TimerSends(ok) /\ \E ok2 \in BOOLEAN : (ok \/ ok2) /\ StateRetry(ok, ok2)
    \/ Timer /\ JoinExhausted /\ Unseen
    \/ Free /\ SendFailureStall /\ Unseen
    \/ Timer /\ CloseWindow /\ Unseen
    \/ LongTimer /\ JoinedTimeout /\ Unseen
    \/ Timer /\ StateExhausted /\ Unseen
    \/ LongTimer /\ Mute /\ OutboundStall /\ Boots

Loop8266 ==
    \/ \E ok \in BOOLEAN :
         /\ Unseen
         /\ \/ Sends(ok) /\ AdoptParent8266(ok)
            \/ JoinReady /\ Sends(ok) /\ TryJoin8266(ok)
            \/ Sends(ok) /\ PushDirty8266(ok)
            \/ ~JoinReady /\ TimerSends(ok) /\ TryJoin8266(ok)
            \/ TimerSends(ok) /\ SendDiscover8266(ok)
            \/ TimerSends(ok) /\ \E ok2 \in BOOLEAN : (ok \/ ok2) /\ StateRetry8266(ok, ok2)
    \/ Timer /\ JoinExhausted8266 /\ Unseen
    \/ Free /\ SendFailureStall8266 /\ Unseen
    \/ Timer /\ CloseWindow8266 /\ Unseen
    \/ LongTimer /\ JoinedTimeout8266 /\ Unseen
    \/ Timer /\ StateExhausted8266 /\ Unseen
    \/ LongTimer /\ Mute /\ OutboundStall8266 /\ Boots

LeafLoop ==
    /\ LeafOnly
    /\ \/ ~Esp8266 /\ Loop32
       \/ Esp8266 /\ Loop8266

\* A heartbeat, left out where the bridge would make nothing of it: it is
\* not heard or not decrypted, or tells nothing new.
Heard ==
    /\ (IF Esp8266 THEN leaf.lastChan ELSE tuned) = BridgeChannel
    /\ leaf.parent = "bridge"
Told ==
    \/ ~brg.s.exists
    \/ ~brg.s.keyValid
    \/ leaf.key = brg.s.key /\ brg.s.state # "NORMAL"

LeafHeartbeat(ok) ==
    /\ LeafOnly /\ Unseen
    /\ Heard /\ Told /\ Calm
    /\ Sends(ok)
    /\ \/ ~Esp8266 /\ HeartbeatDue(ok)
       \/ Esp8266 /\ HeartbeatDue8266(ok)

\* What happens to the leaf from outside.
LeafChance ==
    /\ LeafOnly
    /\ \/ Fault("weak") /\ ~Esp8266 /\ (TopologyRefresh \/ StateStall) /\ Unseen
       \/ Fault("weak") /\ Esp8266 /\ (TopologyRefresh8266 \/ StateStall8266) /\ Unseen
       \/ Fault("refused") /\ leaf.fails > 0 /\ OutboundStall /\ Boots
       \/ Fault("restart") /\ LeafRestart(leaf.hash) /\ Boots
       \/ Fault("firmware") /\ \E h \in Hashes \ {leaf.hash} : LeafRestart(h) /\ Boots

Change(e) ==
    /\ leaf.val[e] < MaxValue
    /\ \/ ~Esp8266 /\ EntityChange(e)
       \/ Esp8266 /\ EntityChange8266(e)
    /\ LeafOnly /\ Unseen /\ Free

-----------------------------------------------------------------------------
(* The bridge.                                                             *)

BridgeOnly == UNCHANGED <<leaf, up, tuned>>

\* drain_received_frames_ and on_espnow_frame of the bridge.
BridgeReceive(ok, ok2) ==
    /\ up # <<>> /\ up' = Tail(up) /\ UNCHANGED <<leaf, tuned, hist>>
    /\ Sends(ok /\ ok2) /\ (ok \/ ok2)
    /\ LET f == Head(up) IN
       \/ f.type = "DISCOVER" /\ HandleDiscover
       \/ f.type = "JOIN" /\ HandleJoin(f, ok, ok2)
       \/ f.type = "SCHEMA_PUSH" /\ HandleSchemaPush(f, ok)
       \/ f.type = "HEARTBEAT" /\ HandleHeartbeat(f, ok)
       \/ f.type = "STATE" /\ HandleState(f, ok, ok2)
       \/ f.type = "ACK" /\ HandleLeafAck(f, ok)
    /\ (ok /\ ok2) \/ brg'.s.tx # brg.s.tx

Confirmed(d) ==
    /\ BridgeOnly /\ Unseen
    /\ \E ok, ok2 \in BOOLEAN : (ok \/ ok2) /\ Sends(ok /\ ok2) /\ Delivered(d, ok, ok2)

\* loop() of the bridge.
BridgeLoop ==
    /\ BridgeOnly /\ Unseen
    /\ \/ \E ok \in BOOLEAN :
            \/ Sends(ok) /\ SendAnnounce(ok)
            \/ TimerSends(ok) /\ SchemaRetry(ok)
            \/ TimerSends(ok) /\ CompleteRetry(ok)
            \/ TimerSends(ok) /\ \E i \in DOMAIN brg.cmds : CommandRetry(i, ok)
            \/ TimerSends(ok) /\ \E i \in DOMAIN brg.cfgs : ConfigRetry(i, ok)
       \/ Timer /\ SchemaGiveUp
       \/ Timer /\ CompleteGiveUp
       \/ LongTimer /\ SyncTimeout
       \/ Idle /\ Free /\ SlotTimeout
       \/ Free /\ \E i \in DOMAIN brg.cmds : CommandGiveUp(i)
       \/ (IF InTouch THEN Fault("offline") ELSE LongTimer) /\ OfflineTimeout

\* What happens to the bridge from outside.
BridgeChance ==
    /\ BridgeOnly /\ Unseen
    /\ \/ Fault("early") /\ \E d \in brg.deliveries : DeliveryExpired(d)
       \/ Fault("evict") /\ Evict
       \/ Fault("bridge") /\ BridgeRestart
       \/ Fault("rejoin") /\ ForceRejoin
       \/ Fault("other") /\ OtherJoins
       \/ Free /\ OtherJoined

\* Home Assistant sends a command, or a config command.
IssueCommand(e, ok) ==
    /\ hist.issued < MaxCommands
    /\ Sends(ok) /\ SendCommand(hist.issued + 1, e, ok)
    /\ hist' = [hist EXCEPT !.issued = @ + 1]
    /\ BridgeOnly

IssueConfig(command, ok) ==
    /\ hist.configs < MaxConfigs
    /\ Sends(ok) /\ SendConfig(command, ok)
    /\ hist' = [hist EXCEPT !.configs = @ + 1]
    /\ BridgeOnly

-----------------------------------------------------------------------------
(* The radio.                                                              *)

RadioFault ==
    /\ UNCHANGED <<leaf, brg, hist>>
    /\ \/ "loss" \in Faults /\ Lose
       \/ "overtake" \in Faults /\ Overtake

-----------------------------------------------------------------------------

Receive ==
    \/ \E ok \in BOOLEAN : LeafReceive(ok)
    \/ \E ok, ok2 \in BOOLEAN : BridgeReceive(ok, ok2)

Next ==
    \/ Receive
    \/ LeafLoop
    \/ \E ok \in BOOLEAN : LeafHeartbeat(ok)
    \/ LeafChance
    \/ \E e \in Entities : Change(e)
    \/ BridgeLoop
    \/ \E d \in brg.deliveries : Confirmed(d)
    \/ BridgeChance
    \/ \E e \in Entities, ok \in BOOLEAN : IssueCommand(e, ok)
    \/ \E c \in ConfigCommands, ok \in BOOLEAN : IssueConfig(c, ok)
    \/ RadioFault

Spec == Init /\ [][Next]_vars

\* Both loops run for ever, frames in flight arrive, sinks answer.
Fairness ==
    /\ WF_vars(\E ok \in BOOLEAN : LeafReceive(ok))
    /\ WF_vars(\E ok, ok2 \in BOOLEAN : BridgeReceive(ok, ok2))
    /\ WF_vars(LeafLoop)
    /\ WF_vars(\E ok \in BOOLEAN : LeafHeartbeat(ok))
    /\ WF_vars(BridgeLoop)
    /\ WF_vars(\E d \in brg.deliveries : Confirmed(d))
    /\ WF_vars(BridgeOnly /\ Unseen /\ Free /\ OtherJoined)

FairSpec == Spec /\ Fairness

-----------------------------------------------------------------------------
(* Properties.                                                             *)

\* The leaf's and the bridge's session have their types, and so do the
\* counters that are bounded: no retry counter passes its limit, no entity
\* index leaves entity_records_, and no queue outgrows MAX_PENDING_RX_FRAMES.
TypeOK ==
    /\ tuned \in 1 .. NumChannels /\ faults \in 0 .. MaxFaults
    /\ Len(up) <= QueueLimit /\ Len(down) <= QueueLimit
    /\ leaf.parent \in {"none", "bridge", "zero"}
    /\ leaf.best \in 0 .. NumChannels /\ leaf.lastChan \in 1 .. NumChannels
    /\ leaf.chIdx \in 0 .. NumChannels
    /\ leaf.joinRetry \in 0 .. MaxRetries /\ leaf.waitRejects \in 0 .. MaxRetries - 1
    /\ leaf.retry \in 0 .. MaxRetries /\ leaf.fails \in 0 .. MaxRetries
    /\ leaf.key \in Nat \X Nat /\ leaf.field \in Entities
    /\ leaf.val \in [Entities -> Nat \ {0}]
    /\ leaf.dirty \in [Entities -> BOOLEAN]
    /\ leaf.cmd \in [Entities -> Nat]
    /\ brg.slot \in {"none", "me", "other"}
    /\ brg.s.got \in [Entities -> Hashes \cup {NoHash}] /\ brg.s.want \in 0 .. NumEntities
    /\ brg.s.reqRetry \in 0 .. MaxRetries /\ brg.s.jcRetry \in 0 .. MaxRetries
    /\ brg.s.state \in {"NONE", "JOINED", "NORMAL"}
    /\ \A i \in DOMAIN brg.cmds : brg.cmds[i].retry \in 0 .. MaxCommandRetries
    /\ \A i \in DOMAIN brg.cfgs : brg.cfgs[i].retry \in 0 .. MaxConfigRetries
    /\ brg.pub \in [Entities -> Nat]

M == INSTANCE Mirror WITH cur <- leaf.val, pub <- brg.pub

\* Home Assistant shows a value the entity had and never falls back to an
\* older one, whatever is lost, repeated by a retry or answered late.
Mirrors == M!Spec

\* A STATE the leaf counts as acknowledged was published.
AckedIsPublished == \A e \in Entities : brg.pub[e] >= hist.acked[e]

\* Between two boots of the leaf no command is carried out twice, though
\* each is repeated until its ACK gets through.
CommandOnce ==
    \A i, j \in DOMAIN hist.applied : hist.applied[i] = hist.applied[j] => i = j

\* The schema the bridge takes for whole, received or from its cache, is that
\* of the firmware of the leaf it shares a key with, to the last entity.
SchemaCurrent ==
    brg.s.schema /\ leaf.joined /\ leaf.key = brg.s.key =>
        brg.s.got = [e \in Entities |-> leaf.hash]

\* A clean entity of a joined leaf is one whose value was acknowledged, as
\* esptree_radio_v3_spec.md has it; commands, which clear the flag, aside.
CleanIsAcked ==
    leaf.normal /\ hist.issued = 0 =>
        \A e \in Entities : ~leaf.dirty[e] => hist.acked[e] = leaf.val[e]

\* The leaf and the bridge are one, and nothing is left to tell.
Clean == \A e \in Entities : ~leaf.dirty[e]
InSync ==
    /\ leaf.normal /\ ~leaf.waiting /\ leaf.key = brg.s.key /\ brg.s.keyValid
    /\ Clean /\ brg.s.state = "NORMAL" /\ brg.s.schema

\* The leaf believes itself joined and has nothing to tell, but what it sends
\* is not heard or not decrypted.
Stranded ==
    /\ leaf.normal /\ ~leaf.waiting /\ Clean
    /\ ~Heard \/ leaf.key # brg.s.key

Settles == <>[](InSync \/ Stranded)

\* Once nothing goes wrong any more the leaf is joined, online, and has
\* nothing left to tell.
Converges == <>[](InSync /\ brg.s.online)
=============================================================================
