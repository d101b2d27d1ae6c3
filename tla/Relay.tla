------------------------------- MODULE Relay -------------------------------
(***************************************************************************)
(* The tree: remotes that join through one another and forward each        *)
(* other's frames (the relay half of RemoteProtocol), and what the bridge  *)
(* keeps of routes.  The session is reduced to what moves the tree: a JOIN *)
(* that reaches the bridge is answered with COMPLETE, a STATE with an ACK; *)
(* LeafSession and BridgeSession have the rest.  Every remote may relay.   *)
(*                                                                         *)
(* A loss stands for the loss of every retry.  A timer fires for nothing   *)
(* once its answer can no longer come, and costs a fault before.           *)
(***************************************************************************)
EXTENDS Naturals, FiniteSets, FiniteSetsExt, Sequences

CONSTANTS
    Remotes, Bridge,
    Scenarios,      \* bounds: who is in range of whom, whom each prefers, how
                    \* many frames are in the air, and what may go wrong
    MaxHops,        \* max_hops_
    MaxPending,     \* max_discover_pending_
    None, Zero      \* no address, and the address of all zeros

Nodes == Remotes \cup {Bridge}
FaultKinds == {"loss", "early", "recover", "restart", "prune", "parent"}

ASSUME RelayAssumption ==
    /\ IsFiniteSet(Remotes) /\ Bridge \notin Remotes
    /\ {None, Zero} \cap Nodes = {} /\ None # Zero
    /\ \A s \in Scenarios : /\ s.place.links \subseteq SUBSET Nodes
                            /\ s.place.weak \subseteq Remotes
                            /\ s.place.room \in Nat
                            /\ s.place.preferred \in [Remotes -> Seq(Nodes)]
                            /\ s.budget \in [FaultKinds -> Nat]
    /\ {MaxHops, MaxPending} \subseteq Nat \ {0}

VARIABLES
    remote,     \* each remote's fields of the session
    preferred,  \* preferred_parents_ of each, the most wanted first
    routes,     \* routes_ of each: the next hop to a leaf, or None
    announces,  \* announce queues, and DISCOVER_ANNOUNCE in the air
    net,        \* frames in the air, each on its way to the next hop
    session,    \* the bridge's next_hop_mac and hops_to_bridge of a leaf
    place,      \* links: the pairs {m, n} in radio range of each other,
                \* weak: the remotes that may find their parent too faint,
                \* preferred: the parents a remote is configured with,
                \* room: for frames in the air
    budget,     \* how often each kind of fault may still happen
    fresh       \* history: leaves the bridge heard since the tree last moved,
                \* by a frame no earlier one of theirs can follow

vars == <<remote, preferred, routes, announces, net, session, place, budget, fresh>>

Unknown == 255              \* hops_to_bridge_ = 0xFF
Unlisted == 255             \* preferred_index = 0xFF
OneMore(hops) == (hops + 1) % 256
NoCandidate == [via |-> None, hops |-> Unknown]

\* A frame that loops is not counted beyond this.
Laps == Cardinality(Remotes) + MaxHops + 1

Neighbours(n) == {m \in Nodes \ {n} : {m, n} \in place.links}

-----------------------------------------------------------------------------
(* A remote's fields; due: topology_refresh_due_ms_ is past.                *)

Booted ==
    [joined |-> FALSE, normal |-> FALSE, discovering |-> TRUE, resume |-> FALSE,
     closed |-> FALSE, joining |-> FALSE, waiting |-> FALSE, due |-> FALSE,
     parent |-> None, hops |-> Unknown, best |-> NoCandidate]

\* refresh_can_relay_.
CanRelay(r) == r.normal /\ r.parent # None /\ r.hops # Unknown

\* start_discovery_cycle_; routes_ stay.
Cleared(r) == Booted

\* Mutant of Recovering: the remote goes on relaying.
RecoveringNormal(r) ==
    [r EXCEPT !.discovering = TRUE, !.resume = TRUE, !.closed = FALSE, !.best = NoCandidate,
              !.joining = FALSE, !.waiting = FALSE, !.due = FALSE]

\* Mutant of Recovering: the candidate of the last discovery is kept.
RecoveringBest(r) ==
    [r EXCEPT !.discovering = TRUE, !.resume = TRUE, !.closed = FALSE, !.normal = FALSE,
              !.joining = FALSE, !.waiting = FALSE, !.due = FALSE]

\* start_route_recovery_cycle_.
Recovering(r) ==
    [r EXCEPT !.discovering = TRUE, !.resume = TRUE, !.closed = FALSE, !.normal = FALSE,
              !.best = NoCandidate, !.joining = FALSE, !.waiting = FALSE, !.due = FALSE]

\* The candidate becomes the parent.
TakeParent(r) == [r EXCEPT !.parent = r.best.via, !.hops = OneMore(r.best.hops)]

\* adopt_best_parent_candidate_(true).
Adopted(r) ==
    [TakeParent(r) EXCEPT !.discovering = FALSE, !.closed = FALSE, !.normal = TRUE,
                          !.joined = TRUE, !.due = FALSE]

\* Stage COMPLETE of handle_join_ack_; best_parent_ may have been reset, then the
\* remote is NORMAL at no hops from the bridge.
JoinComplete(r) ==
    [r EXCEPT !.joined = TRUE, !.normal = TRUE, !.discovering = FALSE, !.joining = FALSE,
              !.parent = IF r.best.via = None THEN Zero ELSE r.best.via,
              !.hops = OneMore(r.best.hops)]

Init ==
    /\ remote = [n \in Remotes |-> Booted]
    /\ routes = [n \in Remotes |-> [l \in Remotes |-> None]]
    /\ announces = {}
    /\ net = {}
    /\ session = [l \in Remotes |-> [next |-> None, hops |-> 0]]
    /\ \E s \in Scenarios : place = s.place /\ budget = s.budget
    /\ preferred = place.preferred
    /\ fresh = {}

-----------------------------------------------------------------------------
(* Frames and faults.                                                      *)

FramesOf(n) == {f \in net : f.leaf = n}
Circling == {f \in net : f.fwd = Laps}
HasRoom == Cardinality(net) < place.room

\* old: of the tree of before, or sent while one of the leaf was on its way.
Frame(type, leaf, up, count, from, to) ==
    [type |-> type, leaf |-> leaf, up |-> up, count |-> count, from |-> from, to |-> to,
     fwd |-> 0, old |-> \E f \in FramesOf(leaf) : f.up]

\* What a remote sends goes to its parent, with its own distance as the count;
\* a heartbeat, like the ACK of a CONFIG, asks for no answer.
Up(n, type, r) == Frame(type, n, TRUE, r.hops, n, r.parent)

\* A frame sent to nobody in range is gone.
Sent(f) == IF {f.from, f.to} \in place.links THEN {f} ELSE {}
Beat(n, r) == IF HasRoom THEN Sent(Up(n, "HEARTBEAT", r)) ELSE {}

\* A parent, or its readiness to relay, changed.
Aged(frames) == {[f EXCEPT !.old = TRUE] : f \in frames}
Moved(n, r) ==
    /\ remote' = [remote EXCEPT ![n] = r]
    /\ fresh' = {}

\* What else a move puts in the air.
Still == UNCHANGED fresh

Free == UNCHANGED budget
Fault(kind) ==
    /\ budget[kind] > 0
    /\ budget' = [budget EXCEPT ![kind] = @ - 1]

\* The parent is looked for again as soon as the interval has passed and no
\* answer is waited for.
RefreshDue(n) ==
    remote[n].normal /\ ~remote[n].waiting /\ remote[n].due /\ preferred[n] # <<>>

\* An answer to n can still come: its frames have not gone in circles yet.
\* Retries take seconds, a refresh that is due does not wait for them.
Expects(n) == \E f \in FramesOf(n) : f.fwd <= Cardinality(Remotes)
Timer(n) ==
    /\ ~\E m \in Remotes : RefreshDue(m)
    /\ IF Expects(n) THEN Fault("early") ELSE Free

\* Answers to n's DISCOVER can still come.
Listening(n) == \E a \in announces : a.to = n
WindowTimer(n) == IF Listening(n) THEN Fault("early") ELSE Free

-----------------------------------------------------------------------------
(* Discovery.                                                              *)

\* What a node that hears a DISCOVER announces, and whether it does.
HopsOf(m) == IF m = Bridge THEN 0 ELSE remote[m].hops
Answers(m) ==
    \/ m = Bridge
    \/ /\ CanRelay(remote[m]) /\ remote[m].hops <= MaxHops
       /\ Cardinality({a \in announces : a.from = m}) < MaxPending

\* send_discover_ of n, on the right channel, and handle_discover_ of who is
\* in range.
SendDiscover(n) ==
    /\ remote[n].discovering /\ ~remote[n].closed /\ remote[n].best = NoCandidate
    /\ ~Listening(n)
    /\ announces' = announces \cup
          {[from |-> m, to |-> n, hops |-> HopsOf(m)] : m \in {i \in Neighbours(n) : Answers(i)}}
    /\ UNCHANGED <<remote, routes, net, session, budget, fresh>>

\* The rank of m among the parents n prefers.
PreferredIndex(n, m) == Min({i \in DOMAIN preferred[n] : preferred[n][i] = m} \cup {Unlisted})

\* select_parent_candidate_: a preferred parent before any other, then fewer
\* hops, then a stronger signal.  The list only changes when there is no
\* candidate, so the rank a candidate was taken with is the one it has now.
Better(a, best, stronger) ==
    LET index == PreferredIndex(a.to, a.from)
        held  == PreferredIndex(a.to, best.via)
    IN  \/ best = NoCandidate
        \/ index < held
        \/ index = held /\ (a.hops < best.hops \/ (a.hops = best.hops /\ stronger))

\* The announce is flushed and reaches n: handle_discover_announce_.
HandleAnnounce(a) ==
    /\ a \in announces
    /\ announces' = announces \ {a}
    /\ \E stronger \in BOOLEAN :
         remote' = IF a.hops <= MaxHops /\ Better(a, remote[a.to].best, stronger)
                   THEN [remote EXCEPT ![a.to].best = [via |-> a.from, hops |-> a.hops]]
                   ELSE remote
    /\ UNCHANGED <<routes, net, session, budget, fresh>>

CloseWindow(n) ==
    /\ remote[n].discovering /\ ~remote[n].closed /\ remote[n].best # NoCandidate
    /\ WindowTimer(n)
    /\ remote' = [remote EXCEPT ![n].closed = TRUE]
    /\ UNCHANGED <<routes, announces, net, session, fresh>>

-----------------------------------------------------------------------------
(* A remote takes a parent, and loses it.                                  *)

AdoptParent(n) ==
    LET r == Adopted(remote[n]) IN
    /\ remote[n].discovering /\ remote[n].closed /\ remote[n].resume
    /\ remote[n].best # NoCandidate
    /\ Moved(n, r)
    /\ net' = Aged(net) \cup Beat(n, r)
    /\ UNCHANGED <<routes, announces, session, budget>>

\* A JOIN, or a retry of it to a candidate that was heard since: best_parent_ is
\* taken anew.
TryJoin(n) ==
    LET r == [TakeParent(remote[n]) EXCEPT !.joining = TRUE] IN
    /\ remote[n].discovering /\ remote[n].closed /\ ~remote[n].resume
    /\ ~remote[n].joined /\ remote[n].best # NoCandidate
    /\ \/ ~remote[n].joining /\ Free
       \/ remote[n].joining /\ r # remote[n] /\ Timer(n)
    /\ HasRoom
    /\ Moved(n, r)
    /\ net' = Aged(net) \cup Sent(Up(n, "JOIN", r))
    /\ UNCHANGED <<routes, announces, session>>

JoinExhausted(n) ==
    /\ remote[n].joining /\ ~remote[n].joined
    /\ Timer(n)
    /\ Moved(n, Cleared(remote[n]))
    /\ net' = Aged(net)
    /\ announces' = {a \in announces : a.from # n}
    /\ UNCHANGED <<routes, session>>

Recover(n) ==
    /\ Moved(n, Recovering(remote[n]))
    /\ net' = Aged(net)
    /\ UNCHANGED <<routes, announces, session>>

\* The STATE a remote waits for is not acknowledged.
StateExhausted(n) == remote[n].joined /\ remote[n].waiting /\ Timer(n) /\ Recover(n)

\* The periodic refresh of a remote that prefers a parent.
RefreshParent(n) == RefreshDue(n) /\ Recover(n) /\ Free

\* ESPNOW_TOPOLOGY_REFRESH_INTERVAL_MS pass.  Two minutes are long: by then no
\* remote is in the middle of anything.
Quiet ==
    /\ \A n \in Remotes :
         Neighbours(n) # {} => remote[n].normal /\ ~remote[n].waiting
    /\ announces = {} /\ net = {}
RefreshIntervalPasses ==
    /\ Quiet
    /\ \E n \in Remotes : preferred[n] # <<>>
    /\ remote' = [n \in Remotes |-> [remote[n] EXCEPT !.due = preferred[n] # <<>>]]
    /\ UNCHANGED <<routes, announces, net, session, budget, fresh>>

\* CFG_CMD_SET_PARENT_MAC: m is put first, in front of the list or alone.
SetParent(n, m, clear) ==
    LET others == IF clear THEN <<>> ELSE SelectSeq(preferred[n], LAMBDA i : i # m) IN
    /\ remote[n].joined
    /\ Fault("parent")
    /\ preferred' = [preferred EXCEPT ![n] = <<m>> \o others]
    /\ Moved(n, Recovering(remote[n]))
    /\ net' = Aged(net \cup Beat(n, remote[n]))
    /\ UNCHANGED <<routes, announces, session>>

\* A weak link, refused sends.
LinkLost(n) == remote[n].normal /\ n \in place.weak /\ Fault("recover") /\ Recover(n)

PushState(n) ==
    /\ remote[n].normal /\ ~remote[n].waiting /\ ~RefreshDue(n) /\ HasRoom
    /\ remote' = [remote EXCEPT ![n].waiting = TRUE]
    /\ net' = net \cup Sent(Up(n, "STATE", remote[n]))
    /\ UNCHANGED <<routes, announces, session, budget, fresh>>

Restart(n) ==
    /\ Fault("restart")
    /\ Moved(n, Booted)
    /\ routes' = [routes EXCEPT ![n] = [l \in Remotes |-> None]]
    /\ announces' = {a \in announces : n \notin {a.from, a.to}}
    /\ net' = Aged({f \in net : f.to # n})
    /\ preferred' = [preferred EXCEPT ![n] = place.preferred[n]]
    /\ UNCHANGED session

\* prune_routes_.
PruneRoute(n, l) ==
    /\ routes[n][l] # None
    /\ Fault("prune")
    /\ routes' = [routes EXCEPT ![n][l] = None]
    /\ fresh' = {}
    /\ net' = Aged(net)
    /\ UNCHANGED <<remote, announces, session>>

-----------------------------------------------------------------------------
(* Frames arrive: on_espnow_frame.                                         *)

\* Mutant of HopsAfter: relays never count.
HopsKept(f) == f.count

\* forward_packet_: hop_count_delta is 1 downstream and 0 upstream.
HopsAfter(f) == IF f.up THEN f.count ELSE f.count + 1

Forwarded(f, m, to) ==
    Sent([f EXCEPT !.from = m, !.to = to, !.count = HopsAfter(f), !.fwd = Min({@ + 1, Laps})])

\* The count is looked at before anything else.
TooFar(f) == f.count >= MaxHops

\* A JOIN_ACK of a joined remote counts if its counter is newer.
OwnJoinAck(f, n) ==
    \/ /\ Moved(n, JoinComplete(remote[n]))
       /\ net' = Aged(net \ {f}) \cup Beat(n, JoinComplete(remote[n]))
    \/ /\ remote[n].joined
       /\ net' = net \ {f}
       /\ UNCHANGED remote /\ Still

\* Own frames are not relayed; one that went in a circle may shorten
\* hops_to_bridge_.
OwnFrame(f, n) ==
    IF ~f.up /\ f.type = "JOIN_ACK" THEN OwnJoinAck(f, n)
    ELSE /\ net' = net \ {f} /\ Still
         /\ remote' = IF f.up THEN [remote EXCEPT ![n].hops = Min({@, f.count})]
                      ELSE IF remote[n].joined THEN [remote EXCEPT ![n].waiting = FALSE]
                      ELSE remote

\* Mutant of Learnt: the first route to a leaf stays.
LearntOnce(n, f) == IF routes[n][f.leaf] = None THEN f.from ELSE routes[n][f.leaf]

\* refresh_route_: the way back to the leaf is where its frame came from.
Learnt(n, f) == f.from

\* handle_upstream_ and handle_downstream_ of a relay.
RelayFrame(f, n) ==
    /\ UNCHANGED remote /\ Still
    /\ IF f.up
       THEN /\ routes' = [routes EXCEPT ![n][f.leaf] = Learnt(n, f)]
            /\ net' = (net \ {f}) \cup Forwarded(f, n, remote[n].parent)
       ELSE /\ UNCHANGED routes
            /\ net' = (net \ {f}) \cup
                  (IF routes[n][f.leaf] = None THEN {} ELSE Forwarded(f, n, routes[n][f.leaf]))

Dropped(f) == net' = net \ {f} /\ UNCHANGED <<remote, routes>> /\ Still

RemoteReceive(f) ==
    /\ f \in net /\ f.to \in Remotes
    /\ LET n == f.to IN
       IF TooFar(f) THEN Dropped(f)
       ELSE IF f.leaf = n THEN OwnFrame(f, n) /\ UNCHANGED routes
       ELSE IF CanRelay(remote[n]) THEN RelayFrame(f, n)
       ELSE Dropped(f)
    /\ UNCHANGED <<announces, session, budget>>

\* The bridge answers over the hop the frame came from.
Down(f) ==
    IF f.type = "JOIN" THEN Sent(Frame("JOIN_ACK", f.leaf, FALSE, 0, Bridge, f.from))
    ELSE IF f.type = "STATE" THEN Sent(Frame("ACK", f.leaf, FALSE, 0, Bridge, f.from))
    ELSE {}

BridgeReceive(f) ==
    /\ f \in net /\ f.to = Bridge
    /\ session' = [session EXCEPT ![f.leaf] = [next |-> f.from, hops |-> f.count]]
    /\ net' = (net \ {f}) \cup Down(f)
    /\ fresh' = IF f.old THEN fresh ELSE fresh \cup {f.leaf}
    /\ UNCHANGED <<remote, routes, announces, budget>>

\* What goes round and round may be lost at no cost.
Lose(f) ==
    /\ f \in net
    /\ IF f \in Circling THEN Free ELSE Fault("loss")
    /\ net' = net \ {f}
    /\ UNCHANGED <<remote, routes, announces, session, fresh>>

LoseAnnounce(a) ==
    /\ a \in announces
    /\ Fault("loss")
    /\ announces' = announces \ {a}
    /\ UNCHANGED <<remote, routes, net, session, fresh>>

-----------------------------------------------------------------------------

In(A) == A /\ UNCHANGED <<place, preferred>>

Loop(n) ==
    \/ SendDiscover(n) \/ CloseWindow(n)
    \/ AdoptParent(n) \/ TryJoin(n) \/ JoinExhausted(n)
    \/ StateExhausted(n) \/ RefreshParent(n) \/ PushState(n)

Deliver(n) == \E f \in FramesOf(n) : RemoteReceive(f) \/ BridgeReceive(f)

Discovery == \E a \in announces : HandleAnnounce(a)

Next ==
    \/ \E n \in Remotes : In(Loop(n)) \/ In(Deliver(n)) \/ In(LinkLost(n))
    \/ \E n \in Remotes : Restart(n) /\ UNCHANGED place
    \/ \E n \in Remotes, m \in Nodes, clear \in BOOLEAN : SetParent(n, m, clear) /\ UNCHANGED place
    \/ In(RefreshIntervalPasses)
    \/ \E n, l \in Remotes : In(PruneRoute(n, l))
    \/ In(Discovery)
    \/ \E f \in net : In(Lose(f))
    \/ \E a \in announces : In(LoseAnnounce(a))

Spec == Init /\ [][Next]_vars

\* loop() runs for ever and what is in the air arrives, or is lost in the end if it
\* goes in a circle; the bound on frames in the air, which the code does not have,
\* keeps nobody from sending for ever.
FairSpec ==
    /\ Spec
    /\ \A n \in Remotes : WF_vars(In(Loop(n))) /\ WF_vars(In(Deliver(n)))
    /\ \A n \in Remotes : SF_vars(In(TryJoin(n))) /\ SF_vars(In(PushState(n)))
    /\ WF_vars(In(Discovery)) /\ WF_vars(\E f \in Circling : In(Lose(f)))

-----------------------------------------------------------------------------
(* Properties.                                                             *)

FrameTypes == {"JOIN", "JOIN_ACK", "STATE", "ACK", "HEARTBEAT"}

\* Types; a NORMAL remote joined, took a parent and is not looking for one, and
\* who awaits an ACK has joined.
TypeOK ==
    /\ \A n \in Remotes : LET r == remote[n] IN
         /\ r.parent \in (Nodes \ {n}) \cup {None, Zero}
         /\ r.best.via \in (Nodes \ {n}) \cup {None}
         /\ r.hops \in 0 .. MaxHops + 1 \cup {Unknown}
         /\ r.normal => r.joined /\ r.parent # None /\ ~r.discovering
         /\ r.waiting => r.joined
         /\ routes[n] \in [Remotes -> (Remotes \ {n}) \cup {None}]
    /\ \A f \in net :
         /\ f.type \in FrameTypes /\ f.leaf \in Remotes /\ {f.from, f.to} \subseteq Nodes
         /\ f.fwd \in 0 .. Laps
    /\ \A l \in Remotes : session[l].next \in Remotes \cup {None}
    /\ budget \in [FaultKinds -> Nat] /\ fresh \subseteq Remotes

\* The node k steps up from n along parents.
Above(n) ==
    LET up[k \in Nat] == IF k = 0 THEN n
                         ELSE IF up[k - 1] \in Remotes THEN remote[up[k - 1]].parent ELSE None
    IN up
Depths == 1 .. Cardinality(Remotes)

\* A downstream frame is relayed at most max_hops times, whatever the
\* routes are: a stale route that leads in a circle does no more harm.
DownstreamDies == \A f \in net : ~f.up => f.fwd <= MaxHops

\* Once the bridge has heard a leaf over the tree of now, and no frame of the
\* leaf from before can follow, the routes to the leaf are its parents the other
\* way round, whatever routes earlier trees left behind.
RoutesLeadBack ==
    \A l \in fresh : \A k \in Depths :
        LET up == Above(l) IN
        /\ up[k] \in Remotes => routes[up[k]][l] = up[k - 1]
        /\ up[k] = Bridge => session[l].next = up[k - 1]

\* Every remote in range of anybody has a way up to the bridge.
Connected ==
    \A n \in Remotes : Neighbours(n) # {} =>
        remote[n].normal /\ \E k \in Depths : Above(n)[k] = Bridge

\* As long as states are sent the tree grows whole again, even out of a parent
\* loop: a STATE that goes in a circle is not acknowledged, and recovery starts.
\* It stays whole unless somebody prefers a parent: each refresh takes that remote
\* from its children for a while, and may have it adopt one of them.
Heals ==
    /\ []<>Connected
    /\ <>[](Connected \/ \E n \in Remotes : preferred[n] # <<>>)

\* What the protocol's specification has of it, and the code has not: no run
\* checks these two, which a parent lost in the line violates.

\* Relays count upstream as well.
UpstreamDies == \A f \in net : f.up => f.fwd <= MaxHops

\* No loop prevention is needed: NORMAL remotes are never one another's parents
\* in a circle.
NoParentLoop ==
    \A n \in Remotes : remote[n].normal =>
        ~\E k \in Depths : /\ Above(n)[k] = n
                           /\ \A i \in 0 .. k : remote[Above(n)[i]].normal

=============================================================================
