---------------------------- MODULE RelayProofs ----------------------------
(***************************************************************************)
(* The types of Relay, that a downstream frame dies, and that the routes   *)
(* to a leaf the bridge has heard are its parents the other way round: for *)
(* every set of remotes, every radio range and every max_hops_.            *)
(***************************************************************************)
EXTENDS Relay, FiniteSetTheorems, WellFoundedInduction, TLAPS

Hops == 0 .. MaxHops + 1 \cup {Unknown}

RemoteFields ==
    [joined : BOOLEAN, normal : BOOLEAN, discovering : BOOLEAN, resume : BOOLEAN,
     closed : BOOLEAN, joining : BOOLEAN, waiting : BOOLEAN, due : BOOLEAN,
     parent : Nodes \cup {None, Zero}, hops : Hops, best : [via : Nodes \cup {None}, hops : Hops]]

\* What a remote n keeps; its candidate, if any, is near enough.
RemoteOK(n, r) ==
    /\ r \in RemoteFields
    /\ r.parent # n /\ r.best.via # n
    /\ r.normal => r.joined /\ r.parent # None /\ ~r.discovering
    /\ r.waiting => r.joined
    /\ r.best = NoCandidate \/ (r.best.via # None /\ r.best.hops \in 0 .. MaxHops)

AnnounceOK(a) ==
    a \in [from : Nodes, to : Remotes, hops : Hops] /\ a.from # a.to

\* The hop count of a downstream frame counts how often it was relayed.
FrameOK(f) ==
    /\ f \in [type : FrameTypes, leaf : Remotes, up : BOOLEAN, count : Nat,
              from : Nodes, to : Nodes, fwd : 0 .. Laps, old : BOOLEAN]
    /\ f.from # f.to
    /\ f.up => f.from \in Remotes /\ f.count \in Hops
    /\ ~f.up => f.to \in Remotes /\ f.fwd <= f.count /\ f.count <= MaxHops

RemotesOK == DOMAIN remote = Remotes /\ \A n \in Remotes : RemoteOK(n, remote[n])
RoutesOK ==
    /\ routes \in [Remotes -> [Remotes -> Remotes \cup {None}]]
    /\ \A n, l \in Remotes : routes[n][l] # n
AnnouncesOK == \A a \in announces : AnnounceOK(a)
NetOK == \A f \in net : FrameOK(f)
SessionOK == session \in [Remotes -> [next : Remotes \cup {None}, hops : Nat]]
RestOK ==
    /\ place.links \subseteq SUBSET Nodes
    /\ budget \in [FaultKinds -> Nat] /\ fresh \subseteq Remotes

IInv == RemotesOK /\ RoutesOK /\ AnnouncesOK /\ NetOK /\ SessionOK /\ RestOK

-----------------------------------------------------------------------------
(* Constants and counts.                                                   *)

LEMMA LapsNat == Laps \in Nat /\ MaxHops \in Nat /\ MaxHops > 0 /\ Laps > MaxHops
PROOF
  <1>1. IsFiniteSet(Remotes) /\ MaxHops \in Nat \ {0}
    BY RelayAssumption
  <1>2. Cardinality(Remotes) \in Nat
    BY <1>1, FS_CardinalityType, Zenon
  <1> QED BY <1>1, <1>2 DEF Laps

LEMMA Addresses ==
    /\ None \notin Nodes /\ Zero \notin Nodes /\ None # Zero
    /\ Bridge \in Nodes /\ Remotes \subseteq Nodes /\ Bridge \notin Remotes
    /\ None \notin Remotes
  BY RelayAssumption, Zenon DEF Nodes

\* The smaller of two is one of them and at most the other.
LEMMA MinOfTwo ==
    ASSUME NEW a \in Int, NEW b \in Int
    PROVE  Min({a, b}) \in {a, b} /\ Min({a, b}) <= a /\ Min({a, b}) <= b
PROOF
  <1>1. \E x \in {a, b} : \A y \in {a, b} : x =< y
    <2>1. CASE a <= b BY <2>1
    <2>2. CASE b <= a BY <2>2
    <2> QED BY <2>1, <2>2
  <1>2. Min({a, b}) \in {a, b} /\ \A y \in {a, b} : Min({a, b}) =< y
    BY <1>1, Zenon DEF Min
  <1> QED BY <1>2

LEMMA OneMoreOK ==
    /\ \A h \in 0 .. MaxHops : OneMore(h) \in Hops
    /\ OneMore(Unknown) \in Hops
  BY LapsNat DEF OneMore, Hops, Unknown

-----------------------------------------------------------------------------
(* A remote's fields.                                                      *)

LEMMA BootedOK == \A n \in Remotes : RemoteOK(n, Booted)
  BY Addresses, LapsNat DEF RemoteOK, RemoteFields, Booted, NoCandidate, Hops, Unknown

LEMMA RecoveringOK ==
    ASSUME NEW n \in Remotes, NEW r, RemoteOK(n, r)
    PROVE  RemoteOK(n, Recovering(r))
PROOF
  <1> DEFINE q == Recovering(r)
  <1>1. NoCandidate \in [via : Nodes \cup {None}, hops : Hops]
    BY DEF NoCandidate, Hops
  <1>2. q \in RemoteFields
    BY <1>1 DEF RemoteOK, RemoteFields, Recovering
  <1>3. /\ q.parent = r.parent /\ q.best = NoCandidate
        /\ q.normal = FALSE /\ q.waiting = FALSE
    BY DEF RemoteOK, RemoteFields, Recovering
  <1>4. NoCandidate.via = None
    BY DEF NoCandidate
  <1> QED BY <1>2, <1>3, <1>4, Addresses DEF RemoteOK

\* A candidate leads to a distance in range.
LEMMA BestHops ==
    ASSUME NEW n \in Remotes, NEW r, RemoteOK(n, r)
    PROVE  OneMore(r.best.hops) \in Hops
  BY OneMoreOK DEF RemoteOK, NoCandidate

LEMMA AdoptedOK ==
    ASSUME NEW n \in Remotes, NEW r, RemoteOK(n, r), r.best # NoCandidate
    PROVE  RemoteOK(n, Adopted(r))
PROOF
  <1>1. OneMore(r.best.hops) \in Hops
    BY BestHops
  <1> QED BY <1>1, Addresses DEF RemoteOK, RemoteFields, Adopted, TakeParent

LEMMA JoiningOK ==
    ASSUME NEW n \in Remotes, NEW r, RemoteOK(n, r), r.best # NoCandidate
    PROVE  RemoteOK(n, [TakeParent(r) EXCEPT !.joining = TRUE])
PROOF
  <1>1. OneMore(r.best.hops) \in Hops
    BY BestHops
  <1> QED BY <1>1, Addresses DEF RemoteOK, RemoteFields, TakeParent

LEMMA JoinCompleteOK ==
    ASSUME NEW n \in Remotes, NEW r, RemoteOK(n, r)
    PROVE  RemoteOK(n, JoinComplete(r))
PROOF
  <1>1. OneMore(r.best.hops) \in Hops
    BY BestHops
  <1>2. CASE r.best.via = None
    <2>1. JoinComplete(r).parent = Zero
      BY <1>2 DEF JoinComplete, RemoteOK, RemoteFields
    <2> QED BY <1>1, <2>1, Addresses, ZenonT(60) DEF RemoteOK, RemoteFields, JoinComplete
  <1>3. CASE r.best.via # None
    <2>1. JoinComplete(r).parent = r.best.via
      BY <1>3 DEF JoinComplete, RemoteOK, RemoteFields
    <2> QED BY <1>1, <1>3, <2>1, Addresses DEF RemoteOK, RemoteFields, JoinComplete
  <1> QED BY <1>2, <1>3

-----------------------------------------------------------------------------
(* Frames.                                                                 *)

\* What is sent is in range, so both ends are nodes.
LEMMA UpOK ==
    ASSUME IInv, NEW n \in Remotes, NEW r, RemoteOK(n, r), NEW type \in FrameTypes
    PROVE  \A g \in Sent(Up(n, type, r)) : FrameOK(g)
PROOF
  <1> DEFINE f == Up(n, type, r)
  <1>1. SUFFICES ASSUME {f.from, f.to} \in place.links PROVE FrameOK(f)
    BY Zenon DEF Sent
  <1>2. f.from = n /\ f.to = r.parent
    BY DEF Up, Frame
  <1>3. r.parent \in Nodes
    BY <1>1, <1>2 DEF IInv, RestOK
  <1>4. r.hops \in Nat /\ r.hops \in Hops /\ r.parent # n
    BY LapsNat DEF RemoteOK, RemoteFields, Hops, Unknown
  <1>5. (\E g \in FramesOf(n) : g.up) \in BOOLEAN
    OBVIOUS
  <1> QED BY <1>3, <1>4, <1>5, Addresses, LapsNat DEF FrameOK, Up, Frame

LEMMA BeatOK ==
    ASSUME IInv, NEW n \in Remotes, NEW r, RemoteOK(n, r)
    PROVE  \A g \in Beat(n, r) : FrameOK(g)
PROOF
  <1>1. "HEARTBEAT" \in FrameTypes
    BY DEF FrameTypes
  <1> QED BY <1>1, UpOK, Zenon DEF Beat

LEMMA AgedFrames ==
    ASSUME NEW S, \A f \in S : FrameOK(f)
    PROVE  \A g \in Aged(S) : FrameOK(g) /\ g.old = TRUE
PROOF
  <1>1. ASSUME NEW f, FrameOK(f)
        PROVE  FrameOK([f EXCEPT !.old = TRUE]) /\ [f EXCEPT !.old = TRUE].old = TRUE
    BY <1>1, LapsNat DEF FrameOK
  <1> QED BY <1>1, Zenon DEF Aged

LEMMA AgedOK ==
    ASSUME NetOK, NEW S \in SUBSET net
    PROVE  \A g \in Aged(S) : FrameOK(g)
  BY AgedFrames, Zenon DEF NetOK

\* A frame passed on to another node, with counts that agree.
LEMMA PassedOnOK ==
    ASSUME NEW f, FrameOK(f), NEW m \in Remotes, NEW to \in Nodes, to # m,
           NEW c \in Nat, NEW w \in 0 .. Laps,
           f.up => c = f.count,
           ~f.up => to \in Remotes /\ w <= c /\ c <= MaxHops
    PROVE  FrameOK([f EXCEPT !.from = m, !.to = to, !.count = c, !.fwd = w])
PROOF
  <1> DEFINE g == [f EXCEPT !.from = m, !.to = to, !.count = c, !.fwd = w]
  <1>1. g \in [type : FrameTypes, leaf : Remotes, up : BOOLEAN, count : Nat,
               from : Nodes, to : Nodes, fwd : 0 .. Laps, old : BOOLEAN]
    BY Addresses DEF FrameOK
  <1>2. /\ g.from = m /\ g.to = to /\ g.count = c /\ g.fwd = w
        /\ g.up = f.up /\ f.up \in BOOLEAN /\ (f.up => f.count \in Hops)
    BY DEF FrameOK
  <1> HIDE DEF g
  <1>3. g.from # g.to
    BY <1>2
  <1>4. g.up => g.from \in Remotes /\ g.count \in Hops
    BY <1>2
  <1>5. ~g.up => g.to \in Remotes /\ g.fwd <= g.count /\ g.count <= MaxHops
    BY <1>2
  <1>6. FrameOK(g)
    BY <1>1, <1>3, <1>4, <1>5 DEF FrameOK
  <1> QED BY <1>6 DEF g

\* Relaying adds one to both counts of a downstream frame.
LEMMA ForwardedOK ==
    ASSUME IInv, NEW f \in net, ~TooFar(f), f.to \in Remotes,
           NEW to, to # f.to, ~f.up => to \in Remotes
    PROVE  \A g \in Forwarded(f, f.to, to) : FrameOK(g)
PROOF
  <1> DEFINE w == Min({f.fwd + 1, Laps})
             c == HopsAfter(f)
             g == [f EXCEPT !.from = f.to, !.to = to, !.count = c, !.fwd = w]
  <1>1. SUFFICES ASSUME {g.from, g.to} \in place.links PROVE FrameOK(g)
    BY DEF Sent, Forwarded
  <1>2. FrameOK(f)
    BY DEF IInv, NetOK
  <1>3. to \in Nodes
    <2>1. g.to = to
      BY <1>2 DEF FrameOK
    <2> QED BY <1>1, <2>1 DEF IInv, RestOK
  <1>4. /\ f.fwd \in Nat /\ f.count \in Nat /\ f.count < MaxHops
        /\ f.up \in BOOLEAN /\ (~f.up => f.fwd <= f.count)
    BY <1>2, LapsNat DEF FrameOK, TooFar
  <1>5. w \in 0 .. Laps /\ w <= f.fwd + 1
    <2>1. f.fwd + 1 \in Int /\ Laps \in Int
      BY <1>4, LapsNat
    <2>2. w \in {f.fwd + 1, Laps} /\ w <= f.fwd + 1 /\ w <= Laps
      BY <2>1, MinOfTwo, Zenon
    <2> HIDE DEF w
    <2> QED BY <1>4, <2>2, LapsNat
  <1>6. c \in Nat /\ (f.up => c = f.count) /\ (~f.up => c = f.count + 1)
    BY <1>4 DEF HopsAfter
  <1> HIDE DEF w, c
  <1>7. ~f.up => to \in Remotes /\ w <= c /\ c <= MaxHops
    BY <1>4, <1>5, <1>6, LapsNat
  <1> QED BY <1>2, <1>3, <1>5, <1>6, <1>7, PassedOnOK

-----------------------------------------------------------------------------
(* Steps.                                                                  *)

\* One remote's fields change.
LEMMA RemoteChanges ==
    ASSUME RemotesOK, NEW n \in Remotes, NEW r, RemoteOK(n, r),
           remote' = [remote EXCEPT ![n] = r]
    PROVE  RemotesOK'
PROOF
  <1>1. DOMAIN remote' = Remotes
    BY DEF RemotesOK
  <1>2. ASSUME NEW m \in Remotes PROVE RemoteOK(m, remote'[m])
    <2>1. CASE m = n
      <3>1. remote'[m] = r
        BY <2>1 DEF RemotesOK
      <3> QED BY <2>1, <3>1
    <2>2. CASE m # n
      <3>1. remote'[m] = remote[m]
        BY <2>2 DEF RemotesOK
      <3> QED BY <3>1 DEF RemotesOK
    <2> QED BY <2>1, <2>2
  <1> QED BY <1>1, <1>2 DEF RemotesOK

\* Frames leave and others that are well formed come.
LEMMA FramesChange ==
    ASSUME NetOK, NEW new, \A g \in new : FrameOK(g), net' \subseteq net \cup new
    PROVE  NetOK'
  BY DEF NetOK

\* A remote moves: the frames in the air age, and it sends what it sends.
LEMMA MoveOK ==
    ASSUME IInv, NEW n \in Remotes, NEW r, RemoteOK(n, r), Moved(n, r),
           NEW S \in SUBSET net, NEW new, \A g \in new : FrameOK(g),
           net' = Aged(S) \cup new
    PROVE  RemotesOK' /\ NetOK' /\ fresh' = {}
PROOF
  <1>1. RemotesOK'
    BY RemoteChanges, Zenon DEF IInv, Moved
  <1>2. \A g \in Aged(S) : FrameOK(g)
    BY AgedOK, Zenon DEF IInv
  <1>3. NetOK'
    BY <1>2 DEF NetOK
  <1> QED BY <1>1, <1>3 DEF Moved

LEMMA FewerAnnounces ==
    ASSUME AnnouncesOK, announces' \subseteq announces
    PROVE  AnnouncesOK'
  BY DEF AnnouncesOK

LEMMA FaultOK ==
    ASSUME RestOK, NEW k \in FaultKinds, Fault(k)
    PROVE  budget' \in [FaultKinds -> Nat]
  BY DEF RestOK, Fault

LEMMA TimerOK ==
    ASSUME RestOK, NEW n, Timer(n) \/ WindowTimer(n)
    PROVE  budget' \in [FaultKinds -> Nat]
PROOF
  <1>1. "early" \in FaultKinds
    BY DEF FaultKinds
  <1> QED BY <1>1, FaultOK DEF RestOK, Timer, WindowTimer, Free

\* What no step but those of the radio range changes.
LEMMA RestKept ==
    ASSUME RestOK, UNCHANGED place, budget' \in [FaultKinds -> Nat], fresh' \subseteq Remotes
    PROVE  RestOK'
  BY DEF RestOK

LEMMA SendDiscoverStep ==
    ASSUME IInv, NEW n \in Remotes, In(SendDiscover(n))
    PROVE  IInv'
PROOF
  <1>1. ASSUME NEW m \in Neighbours(n), Answers(m)
        PROVE  AnnounceOK([from |-> m, to |-> n, hops |-> HopsOf(m)])
    <2>1. m \in Nodes /\ m # n
      BY <1>1 DEF Neighbours
    <2>2. CASE m = Bridge
      BY <2>1, <2>2, LapsNat DEF HopsOf, AnnounceOK, Hops
    <2>3. CASE m # Bridge
      <3>1. m \in Remotes
        BY <2>1, <2>3 DEF Nodes
      <3>2. remote[m].hops \in Hops
        BY <3>1 DEF IInv, RemotesOK, RemoteOK, RemoteFields
      <3> QED BY <2>1, <2>3, <3>2 DEF HopsOf, AnnounceOK
    <2> QED BY <2>2, <2>3
  <1>2. AnnouncesOK'
    BY <1>1 DEF IInv, AnnouncesOK, In, SendDiscover
  <1>3. UNCHANGED <<remote, routes, net, session, budget, fresh, place>>
    BY DEF In, SendDiscover
  <1> QED BY <1>2, <1>3 DEF IInv, RemotesOK, RoutesOK, NetOK, SessionOK, RestOK

LEMMA HandleAnnounceStep ==
    ASSUME IInv, NEW a \in announces, In(HandleAnnounce(a))
    PROVE  IInv'
PROOF
  <1> DEFINE n == a.to
             near == [remote[n] EXCEPT !.best = [via |-> a.from, hops |-> a.hops]]
  <1>1. AnnounceOK(a) /\ n \in Remotes
    BY DEF IInv, AnnouncesOK, AnnounceOK
  <1>2. RemoteOK(n, remote[n])
    BY <1>1 DEF IInv, RemotesOK
  <1>3. remote' = remote \/ (a.hops <= MaxHops /\ remote' = [remote EXCEPT ![n] = near])
    <2>1. \/ remote' = remote
          \/ a.hops <= MaxHops
             /\ remote' = [remote EXCEPT ![a.to].best = [via |-> a.from, hops |-> a.hops]]
      BY DEF In, HandleAnnounce
    <2> QED BY <1>1, <2>1 DEF IInv, RemotesOK
  <1>4. ASSUME a.hops <= MaxHops PROVE RemoteOK(n, near)
    <2>1. a.hops \in 0 .. MaxHops \/ a.hops = Unknown
      BY <1>1, <1>4, LapsNat DEF AnnounceOK, Hops
    <2>2. a.hops \in 0 .. MaxHops
      BY <1>4, <2>1, LapsNat DEF Unknown
    <2>3. /\ a.from \in Nodes /\ a.from # n /\ a.hops \in Hops
      BY <1>1 DEF AnnounceOK
    <2>4. near \in RemoteFields
      BY <1>2, <2>3 DEF RemoteOK, RemoteFields
    <2>5. /\ near.parent = remote[n].parent /\ near.normal = remote[n].normal
          /\ near.joined = remote[n].joined /\ near.discovering = remote[n].discovering
          /\ near.waiting = remote[n].waiting
          /\ near.best.via = a.from /\ near.best.hops = a.hops
      BY <1>2 DEF RemoteOK, RemoteFields
    <2> HIDE DEF near
    <2> QED BY <1>2, <2>2, <2>3, <2>4, <2>5, Addresses DEF RemoteOK
  <1>5. RemotesOK'
    <2>1. CASE remote' = remote
      BY <2>1 DEF IInv, RemotesOK
    <2>2. CASE a.hops <= MaxHops /\ remote' = [remote EXCEPT ![n] = near]
      <3> HIDE DEF near
      <3> QED BY <1>1, <1>4, <2>2, RemoteChanges DEF IInv
    <2> QED BY <1>3, <2>1, <2>2
  <1>6. announces' \subseteq announces /\ UNCHANGED <<routes, net, session, budget, fresh, place>>
    BY DEF In, HandleAnnounce
  <1> QED BY <1>5, <1>6 DEF IInv, AnnouncesOK, RoutesOK, NetOK, SessionOK, RestOK

LEMMA CloseWindowStep ==
    ASSUME IInv, NEW n \in Remotes, In(CloseWindow(n))
    PROVE  IInv'
PROOF
  <1> DEFINE r == [remote[n] EXCEPT !.closed = TRUE]
  <1>1. RemoteOK(n, remote[n])
    BY DEF IInv, RemotesOK
  <1>2. RemoteOK(n, r)
    BY <1>1 DEF RemoteOK, RemoteFields
  <1>3. remote' = [remote EXCEPT ![n] = r]
    BY DEF In, CloseWindow
  <1>4. RemotesOK'
    <2> HIDE DEF r
    <2> QED BY <1>2, <1>3, RemoteChanges DEF IInv
  <1>5. budget' \in [FaultKinds -> Nat]
    BY TimerOK DEF IInv, In, CloseWindow
  <1>6. UNCHANGED <<routes, announces, net, session, fresh, place>>
    BY DEF In, CloseWindow
  <1> QED BY <1>4, <1>5, <1>6 DEF IInv, AnnouncesOK, RoutesOK, NetOK, SessionOK, RestOK

LEMMA AdoptParentStep ==
    ASSUME IInv, NEW n \in Remotes, In(AdoptParent(n))
    PROVE  IInv'
PROOF
  <1> DEFINE r == Adopted(remote[n])
  <1>1. RemoteOK(n, r)
    BY AdoptedOK DEF IInv, RemotesOK, In, AdoptParent
  <1>2. Moved(n, r) /\ net' = Aged(net) \cup Beat(n, r)
    BY DEF In, AdoptParent
  <1> HIDE DEF r
  <1>3. RemotesOK' /\ NetOK' /\ fresh' = {}
    BY <1>1, <1>2, BeatOK, MoveOK
  <1>4. UNCHANGED <<routes, announces, session, budget, place>>
    BY DEF In, AdoptParent
  <1> QED BY <1>3, <1>4 DEF IInv, AnnouncesOK, RoutesOK, SessionOK, RestOK

LEMMA TryJoinStep ==
    ASSUME IInv, NEW n \in Remotes, In(TryJoin(n))
    PROVE  IInv'
PROOF
  <1> DEFINE r == [TakeParent(remote[n]) EXCEPT !.joining = TRUE]
  <1>1. RemoteOK(n, r)
    BY JoiningOK DEF IInv, RemotesOK, In, TryJoin
  <1>2. Moved(n, r) /\ net' = Aged(net) \cup Sent(Up(n, "JOIN", r))
    BY DEF In, TryJoin
  <1>3. "JOIN" \in FrameTypes
    BY DEF FrameTypes
  <1> HIDE DEF r
  <1>4. RemotesOK' /\ NetOK' /\ fresh' = {}
    BY <1>1, <1>2, <1>3, UpOK, MoveOK
  <1>5. UNCHANGED <<routes, announces, session, place>>
    BY DEF In, TryJoin
  <1>6. budget' \in [FaultKinds -> Nat]
    <2>1. Free \/ Timer(n)
      BY DEF In, TryJoin
    <2> QED BY <2>1, TimerOK DEF IInv, RestOK, Free
  <1> QED BY <1>4, <1>5, <1>6 DEF IInv, AnnouncesOK, RoutesOK, SessionOK, RestOK

\* A remote moves and sends nothing.
LEMMA QuietMove ==
    ASSUME IInv, NEW n \in Remotes, NEW r, RemoteOK(n, r), Moved(n, r),
           NEW S \in SUBSET net, net' = Aged(S)
    PROVE  RemotesOK' /\ NetOK' /\ fresh' = {}
PROOF
  <1> DEFINE none == {}
  <1>1. net' = Aged(S) \cup none /\ \A g \in none : FrameOK(g)
    OBVIOUS
  <1> HIDE DEF none
  <1> QED BY <1>1, MoveOK, Zenon

LEMMA JoinExhaustedStep ==
    ASSUME IInv, NEW n \in Remotes, In(JoinExhausted(n))
    PROVE  IInv'
PROOF
  <1> DEFINE r == Cleared(remote[n])
  <1>1. RemoteOK(n, r)
    BY BootedOK DEF Cleared
  <1>2. Moved(n, r) /\ net' = Aged(net)
    BY DEF In, JoinExhausted
  <1> HIDE DEF r
  <1>3. RemotesOK' /\ NetOK' /\ fresh' = {}
    BY <1>1, <1>2, QuietMove
  <1>4. budget' \in [FaultKinds -> Nat]
    BY TimerOK DEF IInv, In, JoinExhausted
  <1>5. announces' \subseteq announces /\ UNCHANGED <<routes, session, place>>
    BY DEF In, JoinExhausted
  <1> QED BY <1>3, <1>4, <1>5 DEF IInv, AnnouncesOK, RoutesOK, SessionOK, RestOK

LEMMA RecoverStep ==
    ASSUME IInv, NEW n \in Remotes, In(Recover(n)), budget' \in [FaultKinds -> Nat]
    PROVE  IInv'
PROOF
  <1> DEFINE r == Recovering(remote[n])
  <1>1. RemoteOK(n, r)
    BY RecoveringOK DEF IInv, RemotesOK
  <1>2. Moved(n, r) /\ net' = Aged(net)
    BY DEF In, Recover
  <1> HIDE DEF r
  <1>3. RemotesOK' /\ NetOK' /\ fresh' = {}
    BY <1>1, <1>2, QuietMove
  <1>4. UNCHANGED <<routes, announces, session, place>>
    BY DEF In, Recover
  <1> QED BY <1>3, <1>4 DEF IInv, AnnouncesOK, RoutesOK, SessionOK, RestOK

LEMMA PushStateStep ==
    ASSUME IInv, NEW n \in Remotes, In(PushState(n))
    PROVE  IInv'
PROOF
  <1> DEFINE r == [remote[n] EXCEPT !.waiting = TRUE]
  <1>1. RemoteOK(n, remote[n]) /\ remote[n].normal
    BY DEF IInv, RemotesOK, In, PushState
  <1>2. RemoteOK(n, r)
    BY <1>1 DEF RemoteOK, RemoteFields
  <1>3. remote' = [remote EXCEPT ![n] = r]
    BY DEF In, PushState
  <1>4. RemotesOK'
    <2> HIDE DEF r
    <2> QED BY <1>2, <1>3, RemoteChanges DEF IInv
  <1>5. NetOK'
    <2>1. "STATE" \in FrameTypes
      BY DEF FrameTypes
    <2>2. \A g \in Sent(Up(n, "STATE", remote[n])) : FrameOK(g)
      BY <1>1, <2>1, UpOK
    <2> QED BY <2>2, FramesChange DEF IInv, In, PushState
  <1>6. UNCHANGED <<routes, announces, session, budget, fresh, place>>
    BY DEF In, PushState
  <1> QED BY <1>4, <1>5, <1>6 DEF IInv, AnnouncesOK, RoutesOK, SessionOK, RestOK

LEMMA RestartStep ==
    ASSUME IInv, NEW n \in Remotes, Restart(n), UNCHANGED place
    PROVE  IInv'
PROOF
  <1>1. RemoteOK(n, Booted)
    BY BootedOK
  <1> DEFINE S == {f \in net : f.to # n}
  <1>2. S \in SUBSET net /\ Moved(n, Booted) /\ net' = Aged(S)
    BY DEF Restart
  <1>3. RemotesOK' /\ NetOK' /\ fresh' = {}
    <2> HIDE DEF S
    <2> QED BY <1>1, <1>2, QuietMove
  <1>4. RoutesOK'
    <2>1. routes' = [routes EXCEPT ![n] = [l \in Remotes |-> None]]
      BY DEF Restart
    <2> QED BY <2>1, Addresses DEF IInv, RoutesOK
  <1>5. budget' \in [FaultKinds -> Nat]
    <2>1. "restart" \in FaultKinds
      BY DEF FaultKinds
    <2> QED BY <2>1, FaultOK DEF IInv, Restart
  <1>6. announces' \subseteq announces /\ UNCHANGED <<session, place>>
    BY DEF Restart
  <1> QED BY <1>3, <1>4, <1>5, <1>6 DEF IInv, AnnouncesOK, SessionOK, RestOK

LEMMA SetParentStep ==
    ASSUME IInv, NEW n \in Remotes, NEW m, NEW clear, SetParent(n, m, clear), UNCHANGED place
    PROVE  IInv'
PROOF
  <1> DEFINE r == Recovering(remote[n])
             S == net \cup Beat(n, remote[n])
  <1>1. RemoteOK(n, remote[n]) /\ RemoteOK(n, r)
    BY RecoveringOK DEF IInv, RemotesOK
  <1>2. Moved(n, r) /\ net' = Aged(S)
    BY DEF SetParent
  <1>3. \A f \in S : FrameOK(f)
    BY <1>1, BeatOK DEF IInv, NetOK
  <1> HIDE DEF r, S
  <1>4. RemotesOK' /\ fresh' = {}
    BY <1>1, <1>2, RemoteChanges DEF IInv, Moved
  <1>5. NetOK'
    BY <1>2, <1>3, AgedFrames, Zenon DEF NetOK
  <1>6. budget' \in [FaultKinds -> Nat]
    <2>1. "parent" \in FaultKinds
      BY DEF FaultKinds
    <2> QED BY <2>1, FaultOK DEF IInv, SetParent
  <1>7. UNCHANGED <<routes, announces, session>>
    BY DEF SetParent
  <1> QED BY <1>4, <1>5, <1>6, <1>7 DEF IInv, AnnouncesOK, RoutesOK, SessionOK, RestOK

LEMMA RefreshIntervalStep ==
    ASSUME IInv, In(RefreshIntervalPasses)
    PROVE  IInv'
PROOF
  <1>1. ASSUME NEW n \in Remotes PROVE RemoteOK(n, remote'[n])
    <2>1. RemoteOK(n, remote[n])
      BY DEF IInv, RemotesOK
    <2>2. \E d \in BOOLEAN : remote'[n] = [remote[n] EXCEPT !.due = d]
      BY DEF In, RefreshIntervalPasses
    <2> QED BY <2>1, <2>2 DEF RemoteOK, RemoteFields
  <1>2. RemotesOK'
    <2>1. DOMAIN remote' = Remotes
      BY DEF In, RefreshIntervalPasses
    <2> QED BY <1>1, <2>1 DEF RemotesOK
  <1>3. UNCHANGED <<routes, announces, net, session, budget, fresh, place>>
    BY DEF In, RefreshIntervalPasses
  <1> QED BY <1>2, <1>3 DEF IInv, AnnouncesOK, RoutesOK, NetOK, SessionOK, RestOK

LEMMA PruneRouteStep ==
    ASSUME IInv, NEW n \in Remotes, NEW l \in Remotes, In(PruneRoute(n, l))
    PROVE  IInv'
PROOF
  <1>1. NetOK'
    BY AgedOK DEF IInv, NetOK, In, PruneRoute
  <1>2. RoutesOK'
    BY Addresses DEF IInv, RoutesOK, In, PruneRoute
  <1>3. budget' \in [FaultKinds -> Nat]
    <2>1. "prune" \in FaultKinds
      BY DEF FaultKinds
    <2> QED BY <2>1, FaultOK DEF IInv, In, PruneRoute
  <1>4. fresh' = {} /\ UNCHANGED <<remote, announces, session, place>>
    BY DEF In, PruneRoute
  <1> QED BY <1>1, <1>2, <1>3, <1>4 DEF IInv, RemotesOK, AnnouncesOK, SessionOK, RestOK

LEMMA LoopStep ==
    ASSUME IInv, NEW n \in Remotes, In(Loop(n)) \/ In(LinkLost(n))
    PROVE  IInv'
PROOF
  <1>1. CASE In(StateExhausted(n))
    <2>1. In(Recover(n)) /\ Timer(n)
      BY <1>1 DEF In, StateExhausted
    <2> QED BY <2>1, RecoverStep, TimerOK DEF IInv
  <1>2. CASE In(LinkLost(n))
    <2>1. In(Recover(n)) /\ Fault("recover")
      BY <1>2 DEF In, LinkLost
    <2>2. "recover" \in FaultKinds
      BY DEF FaultKinds
    <2> QED BY <2>1, <2>2, RecoverStep, FaultOK DEF IInv
  <1>3. CASE In(RefreshParent(n))
    <2>1. In(Recover(n)) /\ Free
      BY <1>3 DEF In, RefreshParent
    <2> QED BY <2>1, RecoverStep DEF IInv, RestOK, Free
  <1> QED BY <1>1, <1>2, <1>3, SendDiscoverStep, CloseWindowStep, AdoptParentStep, TryJoinStep,
             JoinExhaustedStep, PushStateStep DEF In, Loop

-----------------------------------------------------------------------------
(* Frames arrive.                                                          *)

LEMMA FrameFacts ==
    ASSUME NetOK, NEW f \in net
    PROVE  /\ FrameOK(f) /\ f.leaf \in Remotes /\ f.up \in BOOLEAN
           /\ f.from \in Nodes /\ f.to \in Nodes /\ f.from # f.to
           /\ f.count \in Nat /\ f.type \in FrameTypes
           /\ f.up => f.from \in Remotes
           /\ ~f.up => f.to \in Remotes
  BY DEF NetOK, FrameOK

LEMMA OwnJoinAckStep ==
    ASSUME IInv, NEW f \in net, NEW n \in Remotes, OwnJoinAck(f, n)
    PROVE  RemotesOK' /\ NetOK' /\ fresh' \subseteq Remotes
PROOF
  <1> DEFINE r == JoinComplete(remote[n])
             S == net \ {f}
  <1>1. RemoteOK(n, r)
    BY JoinCompleteOK DEF IInv, RemotesOK
  <1>2. CASE Moved(n, r) /\ net' = Aged(S) \cup Beat(n, r)
    <2>1. S \in SUBSET net
      OBVIOUS
    <2> HIDE DEF r, S
    <2> QED BY <1>1, <1>2, <2>1, BeatOK, MoveOK
  <1>3. CASE net' = net \ {f} /\ UNCHANGED remote /\ Still
    BY <1>3 DEF IInv, RemotesOK, NetOK, RestOK, Still
  <1> QED BY <1>2, <1>3, Zenon DEF OwnJoinAck

LEMMA OwnFrameStep ==
    ASSUME IInv, NEW f \in net, NEW n \in Remotes, OwnFrame(f, n)
    PROVE  RemotesOK' /\ NetOK' /\ fresh' \subseteq Remotes
PROOF
  <1>1. FrameOK(f) /\ RemoteOK(n, remote[n])
    BY FrameFacts DEF IInv, RemotesOK
  <1>2. CASE ~f.up /\ f.type = "JOIN_ACK"
    BY <1>2, OwnJoinAckStep DEF OwnFrame
  <1>3. CASE ~(~f.up /\ f.type = "JOIN_ACK")
    <2>1. net' = net \ {f} /\ fresh' = fresh
      BY <1>3 DEF OwnFrame, Still
    <2> DEFINE h == Min({remote[n].hops, f.count})
               r == [remote[n] EXCEPT !.hops = h]
               q == [remote[n] EXCEPT !.waiting = FALSE]
    <2>2. \/ f.up /\ remote' = [remote EXCEPT ![n] = r]
          \/ remote' = [remote EXCEPT ![n] = q]
          \/ remote' = remote
      BY <1>3 DEF OwnFrame
    <2>3. CASE f.up /\ remote' = [remote EXCEPT ![n] = r]
      <3>1. f.count \in Hops /\ remote[n].hops \in Hops
        BY <1>1, <2>3 DEF FrameOK, RemoteOK, RemoteFields
      <3>2. f.count \in Int /\ remote[n].hops \in Int
        BY <3>1, LapsNat DEF Hops, Unknown
      <3>3. h \in {remote[n].hops, f.count}
        BY <3>2, MinOfTwo, Zenon
      <3> HIDE DEF h
      <3>4. h \in Hops
        BY <3>1, <3>3
      <3>5. RemoteOK(n, r)
        BY <1>1, <3>4 DEF RemoteOK, RemoteFields
      <3> HIDE DEF r
      <3>6. RemotesOK'
        BY <2>3, <3>5, RemoteChanges DEF IInv
      <3> QED BY <2>1, <3>6 DEF IInv, NetOK, RestOK
    <2>4. CASE remote' = [remote EXCEPT ![n] = q]
      <3>1. RemoteOK(n, q)
        BY <1>1 DEF RemoteOK, RemoteFields
      <3> HIDE DEF q
      <3>2. RemotesOK'
        BY <2>4, <3>1, RemoteChanges DEF IInv
      <3> QED BY <2>1, <3>2 DEF IInv, NetOK, RestOK
    <2>5. CASE remote' = remote
      BY <2>1, <2>5 DEF IInv, RemotesOK, NetOK, RestOK
    <2> QED BY <2>2, <2>3, <2>4, <2>5
  <1> QED BY <1>2, <1>3

LEMMA RelayFrameStep ==
    ASSUME IInv, NEW f \in net, f.to \in Remotes, ~TooFar(f), RelayFrame(f, f.to)
    PROVE  RoutesOK' /\ NetOK'
PROOF
  <1> DEFINE n == f.to
  <1>1. FrameOK(f) /\ f.leaf \in Remotes /\ f.from # n
    BY FrameFacts DEF IInv
  <1>2. CASE f.up
    <2>1. /\ routes' = [routes EXCEPT ![n][f.leaf] = f.from]
          /\ net' = (net \ {f}) \cup Forwarded(f, n, remote[n].parent)
      BY <1>2 DEF RelayFrame, Learnt
    <2>2. f.from \in Remotes
      BY <1>2, FrameFacts DEF IInv
    <2>3. RoutesOK'
      BY <1>1, <2>1, <2>2 DEF IInv, RoutesOK
    <2>4. remote[n].parent # n
      BY DEF IInv, RemotesOK, RemoteOK
    <2>5. \A g \in Forwarded(f, n, remote[n].parent) : FrameOK(g)
      BY <1>2, <2>4, ForwardedOK
    <2>6. NetOK'
      BY <2>1, <2>5, FramesChange DEF IInv
    <2> QED BY <2>3, <2>6
  <1>3. CASE ~f.up
    <2>1. routes' = routes /\ net' \subseteq net \cup Forwarded(f, n, routes[n][f.leaf])
      BY <1>3 DEF RelayFrame
    <2>2. CASE routes[n][f.leaf] = None
      BY <1>3, <2>2 DEF RelayFrame, IInv, RoutesOK, NetOK
    <2>3. CASE routes[n][f.leaf] # None
      <3>1. routes[n][f.leaf] \in Remotes /\ routes[n][f.leaf] # n
        BY <1>1, <2>3 DEF IInv, RoutesOK
      <3>2. \A g \in Forwarded(f, n, routes[n][f.leaf]) : FrameOK(g)
        BY <3>1, ForwardedOK
      <3>3. NetOK'
        BY <2>1, <3>2, FramesChange DEF IInv
      <3> QED BY <2>1, <3>3 DEF IInv, RoutesOK
    <2> QED BY <2>2, <2>3
  <1> QED BY <1>2, <1>3

LEMMA RemoteReceiveStep ==
    ASSUME IInv, NEW f \in net, In(RemoteReceive(f))
    PROVE  IInv'
PROOF
  <1>1. f.to \in Remotes /\ UNCHANGED <<announces, session, budget, place>>
    BY DEF In, RemoteReceive
  <1>2. CASE Dropped(f)
    BY <1>1, <1>2 DEF Dropped, Still, IInv, RemotesOK, RoutesOK, AnnouncesOK, NetOK, SessionOK, RestOK
  <1>3. CASE OwnFrame(f, f.to) /\ UNCHANGED routes
    <2>1. RemotesOK' /\ NetOK' /\ fresh' \subseteq Remotes
      BY <1>1, <1>3, OwnFrameStep
    <2> QED BY <1>1, <1>3, <2>1 DEF IInv, RoutesOK, AnnouncesOK, SessionOK, RestOK
  <1>4. CASE ~TooFar(f) /\ RelayFrame(f, f.to)
    <2>1. RoutesOK' /\ NetOK'
      BY <1>1, <1>4, RelayFrameStep
    <2>2. UNCHANGED <<remote, fresh>>
      BY <1>4 DEF RelayFrame, Still
    <2> QED BY <1>1, <2>1, <2>2 DEF IInv, RemotesOK, AnnouncesOK, SessionOK, RestOK
  <1> QED BY <1>2, <1>3, <1>4 DEF In, RemoteReceive

LEMMA BridgeReceiveStep ==
    ASSUME IInv, NEW f \in net, In(BridgeReceive(f))
    PROVE  IInv'
PROOF
  <1>1. f.to = Bridge /\ UNCHANGED <<remote, routes, announces, budget, place>>
    BY DEF In, BridgeReceive
  <1>2. /\ f.from \in Remotes /\ f.leaf \in Remotes /\ f.count \in Nat
    BY <1>1, FrameFacts, Addresses DEF IInv
  <1>3. ASSUME NEW type \in FrameTypes
        PROVE  \A g \in Sent(Frame(type, f.leaf, FALSE, 0, Bridge, f.from)) : FrameOK(g)
    <2>1. (\E g \in FramesOf(f.leaf) : g.up) \in BOOLEAN
      OBVIOUS
    <2>2. FrameOK(Frame(type, f.leaf, FALSE, 0, Bridge, f.from))
      BY <1>2, <2>1, Addresses, LapsNat DEF FrameOK, Frame
    <2> QED BY <2>2 DEF Sent
  <1>4. \A g \in Down(f) : FrameOK(g)
    BY <1>3 DEF Down, FrameTypes
  <1>5. NetOK'
    BY <1>4, FramesChange DEF IInv, In, BridgeReceive
  <1>6. SessionOK'
    BY <1>2 DEF IInv, SessionOK, In, BridgeReceive
  <1>7. fresh' \subseteq Remotes
    BY <1>2 DEF IInv, RestOK, In, BridgeReceive
  <1> QED BY <1>1, <1>5, <1>6, <1>7 DEF IInv, RemotesOK, RoutesOK, AnnouncesOK, RestOK

LEMMA LoseStep ==
    ASSUME IInv,
           \/ \E f \in net : In(Lose(f))
           \/ \E a \in announces : In(LoseAnnounce(a))
    PROVE  IInv'
PROOF
  <1>1. /\ net' \subseteq net /\ announces' \subseteq announces /\ (Fault("loss") \/ Free)
        /\ UNCHANGED <<remote, routes, session, fresh, place>>
    BY DEF In, Lose, LoseAnnounce
  <1>2. budget' \in [FaultKinds -> Nat]
    <2>1. "loss" \in FaultKinds
      BY DEF FaultKinds
    <2> QED BY <1>1, <2>1, FaultOK DEF IInv, RestOK, Free
  <1> QED BY <1>1, <1>2 DEF IInv, RemotesOK, RoutesOK, AnnouncesOK, NetOK, SessionOK, RestOK

-----------------------------------------------------------------------------
(* The way up of a leaf, and the marks its frames leave on it.             *)

\* The remotes on the way up from l, when par is who has whom for a parent: what
\* every set with l has that has the parent of each of its remotes.
Closed(par, C) == \A n \in C : par[n] \in Remotes => par[n] \in C
Way(par, l) == {m \in Remotes : \A C \in SUBSET Remotes : l \in C /\ Closed(par, C) => m \in C}
Rooted(par, l) == \E t \in Way(par, l) : par[t] = Bridge

Parents == [n \in Remotes |-> remote[n].parent]

\* A leaf of which nothing from before the last move can reach the bridge.
Live(l) == l \in fresh \/ \E f \in net : f.leaf = l /\ f.up /\ ~f.old

\* f went from its leaf through T to where it is, and left a route behind.
Trail(par, rts, f, T) ==
    /\ f.leaf \in T /\ f.from \in T
    /\ \A n \in T \ {f.from} : par[n] \in T /\ rts[par[n]][f.leaf] = n

\* Its frames are on its way up, each on the way to the next.
FramesOnWay ==
    \A f \in net : f.up /\ Live(f.leaf) =>
        f.from \in Way(Parents, f.leaf) /\ f.to = Parents[f.from]
\* A frame of the tree of now leaves marks from the leaf to where it is, as long
\* as the way does not lead in a circle.
FramesMark ==
    \A f \in net : f.up /\ ~f.old /\ Rooted(Parents, f.leaf) =>
        \E T \in SUBSET Way(Parents, f.leaf) : Trail(Parents, routes, f, T)
\* The whole way of a leaf the bridge has heard leads to the bridge and is marked.
FreshMarked ==
    \A l \in fresh :
        /\ Rooted(Parents, l)
        /\ \A n \in Way(Parents, l) :
              \/ Parents[n] = Bridge /\ session[l].next = n
              \/ Parents[n] \in Remotes /\ routes[Parents[n]][l] = n

WaysInv == FramesOnWay /\ FramesMark /\ FreshMarked

LEMMA WayFacts ==
    ASSUME NEW par, NEW l \in Remotes
    PROVE  /\ l \in Way(par, l) /\ Way(par, l) \subseteq Remotes
           /\ Closed(par, Way(par, l))
           /\ \A C \in SUBSET Remotes : l \in C /\ Closed(par, C) => Way(par, l) \subseteq C
  BY Zenon DEF Way, Closed

\* The way from l is l and the way from its parent.
LEMMA WaySplits ==
    ASSUME NEW par, NEW l \in Remotes
    PROVE  /\ par[l] \notin Remotes => Way(par, l) = {l}
           /\ par[l] \in Remotes => Way(par, l) \subseteq {l} \cup Way(par, par[l])
           /\ \A m \in Way(par, l) : Way(par, m) \subseteq Way(par, l)
PROOF
  <1>1. ASSUME par[l] \notin Remotes PROVE Way(par, l) = {l}
    <2>1. Closed(par, {l})
      BY <1>1 DEF Closed
    <2> QED BY <2>1, WayFacts
  <1>2. ASSUME par[l] \in Remotes PROVE Way(par, l) \subseteq {l} \cup Way(par, par[l])
    <2> DEFINE W == Way(par, par[l])
    <2>1. W \subseteq Remotes /\ Closed(par, W) /\ par[l] \in W
      BY <1>2, WayFacts, Zenon
    <2> HIDE DEF W
    <2>2. Closed(par, {l} \cup W)
      BY <2>1 DEF Closed
    <2>3. {l} \cup W \in SUBSET Remotes
      BY <2>1
    <2>4. Way(par, l) \subseteq {l} \cup W
      BY <2>2, <2>3, WayFacts
    <2> QED BY <2>4 DEF W
  <1>3. ASSUME NEW m \in Way(par, l) PROVE Way(par, m) \subseteq Way(par, l)
    <2>1. m \in Remotes /\ Way(par, l) \in SUBSET Remotes /\ Closed(par, Way(par, l))
      BY WayFacts
    <2> QED BY <2>1, WayFacts, Zenon
  <1> QED BY <1>1, <1>2, <1>3

\* Everybody on a way that ends at t leads to t.
LEMMA AllLeadToTop ==
    ASSUME NEW par, NEW l \in Remotes, NEW t \in Way(par, l), par[t] \notin Remotes,
           NEW m \in Way(par, l)
    PROVE  t \in Way(par, m)
PROOF
  <1> DEFINE C == {x \in Way(par, l) : t \in Way(par, x)}
  <1>1. C \in SUBSET Remotes /\ l \in C
    BY WayFacts
  <1>2. ASSUME NEW x \in C, par[x] \in Remotes PROVE par[x] \in C
    <2>1. x \in Way(par, l) /\ t \in Way(par, x) /\ x \in Remotes
      BY WayFacts
    <2>2. par[x] \in Way(par, l)
      BY <1>2, <2>1, WayFacts DEF Closed
    <2>3. x # t
      BY <1>2
    <2>4. t \in Way(par, par[x])
      BY <1>2, <2>1, <2>3, WaySplits
    <2> QED BY <2>2, <2>4
  <1>3. Closed(par, C)
    BY <1>2 DEF Closed
  <1>4. Way(par, l) \subseteq C
    BY <1>1, <1>3, WayFacts
  <1> QED BY <1>4

\* Who can come back to itself never gets to the top.
LEMMA NoWayBack ==
    ASSUME NEW par, NEW l \in Remotes, NEW t \in Way(par, l), par[t] \notin Remotes,
           NEW n \in Way(par, l), par[n] \in Remotes
    PROVE  n \notin Way(par, par[n])
PROOF
  <1> DEFINE m == par[n]
  <1>1. SUFFICES ASSUME n \in Way(par, m) PROVE FALSE
    OBVIOUS
  <1>2. n \in Remotes /\ m \in Way(par, l) /\ m \in Remotes
    BY WayFacts DEF Closed
  <1> DEFINE Z == {x \in Remotes : n \in Way(par, x)}
  <1>3. Z \in SUBSET Remotes /\ m \in Z
    BY <1>1, <1>2
  <1>4. ASSUME NEW x \in Z, par[x] \in Remotes PROVE par[x] \in Z
    <2>1. CASE x = n
      BY <1>3, <2>1
    <2>2. CASE x # n
      <3>1. n \in Way(par, x) /\ x \in Remotes
        OBVIOUS
      <3>2. n \in Way(par, par[x])
        BY <1>4, <2>2, <3>1, WaySplits
      <3> QED BY <1>4, <3>2
    <2> QED BY <2>1, <2>2
  <1>5. Closed(par, Z)
    BY <1>4 DEF Closed
  <1>6. Way(par, m) \subseteq Z
    BY <1>2, <1>3, <1>5, WayFacts
  <1>7. t \in Way(par, m)
    BY <1>2, AllLeadToTop, Zenon
  <1>8. n \in Way(par, t) /\ t \in Remotes
    BY <1>6, <1>7, WayFacts
  <1>9. n = t
    BY <1>8, WaySplits
  <1> QED BY <1>9

\* Of two on one way, one leads to the other.
LEMMA OneLine ==
    ASSUME NEW par, NEW l \in Remotes, NEW m \in Way(par, l), NEW n \in Way(par, l)
    PROVE  m \in Way(par, n) \/ n \in Way(par, m)
PROOF
  <1> DEFINE C == {x \in Way(par, l) : x \in Way(par, m) \/ m \in Way(par, x)}
  <1>1. C \in SUBSET Remotes /\ l \in C
    BY WayFacts
  <1>2. ASSUME NEW x \in C, par[x] \in Remotes PROVE par[x] \in C
    <2>1. x \in Way(par, l) /\ x \in Remotes /\ m \in Remotes
      BY WayFacts
    <2>2. par[x] \in Way(par, l)
      BY <1>2, <2>1, WayFacts DEF Closed
    <2>3. CASE x \in Way(par, m)
      <3>1. par[x] \in Way(par, m)
        BY <1>2, <2>1, <2>3, WayFacts DEF Closed
      <3> QED BY <2>2, <3>1
    <2>4. CASE m \in Way(par, x) /\ x # m
      <3>1. m \in Way(par, par[x])
        BY <1>2, <2>1, <2>4, WaySplits
      <3> QED BY <2>2, <3>1
    <2>5. m \in Way(par, m)
      BY <2>1, WayFacts
    <2> QED BY <2>3, <2>4, <2>5
  <1>3. Closed(par, C)
    BY <1>2 DEF Closed
  <1>4. Way(par, l) \subseteq C
    BY <1>1, <1>3, WayFacts
  <1> QED BY <1>4

\* On a way that ends, no two have the same parent.
LEMMA OneChild ==
    ASSUME NEW par, NEW l \in Remotes, Rooted(par, l),
           NEW m \in Way(par, l), NEW n \in Way(par, l), par[m] = par[n]
    PROVE  m = n
PROOF
  <1>1. PICK t \in Way(par, l) : par[t] \notin Remotes
    BY Addresses DEF Rooted
  <1>2. m \in Remotes /\ n \in Remotes
    BY WayFacts
  <1>3. CASE par[m] \notin Remotes
    <2>1. Way(par, m) = {m} /\ Way(par, n) = {n}
      BY <1>2, <1>3, WaySplits
    <2> QED BY <2>1, OneLine, Zenon
  <1>4. CASE par[m] \in Remotes
    <2>1. n \notin Way(par, par[m]) /\ m \notin Way(par, par[m])
      BY <1>1, <1>4, NoWayBack
    <2>2. Way(par, m) \subseteq {m} \cup Way(par, par[m]) /\ Way(par, n) \subseteq {n} \cup Way(par, par[m])
      BY <1>2, <1>4, WaySplits
    <2> QED BY <2>1, <2>2, OneLine
  <1> QED BY <1>3, <1>4

-----------------------------------------------------------------------------
(* Frames on the way.                                                      *)

LEMMA ParentsKept ==
    ASSUME \A n \in Remotes : remote'[n].parent = remote[n].parent
    PROVE  Parents' = Parents
  BY DEF Parents

\* What a remote sends starts on its way.
LEMMA UpFacts ==
    ASSUME NEW n, NEW type, NEW r, NEW g \in Sent(Up(n, type, r))
    PROVE  /\ g.leaf = n /\ g.up = TRUE /\ g.from = n /\ g.to = r.parent
           /\ ~g.old => \A f \in net : f.leaf = n => ~f.up
PROOF
  <1>1. g = Up(n, type, r)
    BY DEF Sent
  <1> QED BY <1>1 DEF Up, Frame, FramesOf

LEMMA OwnTrail ==
    ASSUME NEW par, NEW rts, NEW f, f.leaf \in Remotes, f.from = f.leaf
    PROVE  \E T \in SUBSET Way(par, f.leaf) : Trail(par, rts, f, T)
PROOF
  <1>1. {f.leaf} \in SUBSET Way(par, f.leaf)
    BY WayFacts
  <1>2. Trail(par, rts, f, {f.leaf})
    BY DEF Trail
  <1> QED BY <1>1, <1>2

LEMMA AgedFacts ==
    ASSUME NetOK, NEW S \in SUBSET net, NEW g \in Aged(S)
    PROVE  g.old = TRUE /\ \E f \in net : f.leaf = g.leaf /\ f.up = g.up
PROOF
  <1>1. PICK f \in S : g = [f EXCEPT !.old = TRUE]
    BY DEF Aged
  <1>2. FrameOK(f) /\ f \in net
    BY DEF NetOK
  <1>3. g.old = TRUE /\ f.leaf = g.leaf /\ f.up = g.up
    BY <1>1, <1>2 DEF FrameOK
  <1> QED BY <1>2, <1>3

\* After a move only what n has just sent can tell of the tree of now, and only
\* when nothing else of n is on its way up.
LEMMA MoveWays ==
    ASSUME NetOK, fresh' = {}, NEW n \in Remotes, NEW S \in SUBSET net, NEW new,
           net' = Aged(S) \cup new,
           \A g \in new : /\ g.leaf = n /\ g.up = TRUE /\ g.from = n /\ g.to = Parents'[n]
                          /\ ~g.old => \A f \in net : f.leaf = n => ~f.up
    PROVE  WaysInv'
PROOF
  <1>1. ASSUME NEW l, Live(l)'
        PROVE  l = n /\ \A f \in net : f.leaf = n => ~f.up
    <2>1. PICK g \in net' : g.leaf = l /\ g.up /\ ~g.old
      BY <1>1 DEF Live
    <2>2. g \in new
      BY <2>1, AgedFacts
    <2> QED BY <2>1, <2>2
  <1>2. FramesOnWay'
    <2> SUFFICES ASSUME NEW f \in net', f.up, Live(f.leaf)'
                 PROVE  f.from \in Way(Parents', f.leaf) /\ f.to = Parents'[f.from]
      BY DEF FramesOnWay
    <2>1. f.leaf = n /\ f \notin Aged(S)
      BY <1>1, AgedFacts
    <2>2. f.from = n /\ f.to = Parents'[n]
      BY <2>1
    <2>3. n \in Way(Parents', n)
      BY WayFacts
    <2> QED BY <2>1, <2>2, <2>3
  <1>3. FramesMark'
    <2> SUFFICES ASSUME NEW f \in net', f.up, ~f.old
                 PROVE  \E T \in SUBSET Way(Parents', f.leaf) : Trail(Parents', routes', f, T)
      BY DEF FramesMark
    <2>1. f \in new
      BY AgedFacts
    <2>2. f.leaf = n /\ f.from = n
      BY <2>1
    <2> QED BY <2>2, OwnTrail
  <1>4. FreshMarked'
    BY DEF FreshMarked
  <1> QED BY <1>2, <1>3, <1>4 DEF WaysInv

\* A move that sends nothing.
LEMMA QuietWays ==
    ASSUME NetOK, fresh' = {}, NEW n \in Remotes, NEW S \in SUBSET net, net' = Aged(S)
    PROVE  WaysInv'
PROOF
  <1> DEFINE none == {}
  <1>1. /\ net' = Aged(S) \cup none
        /\ \A g \in none : /\ g.leaf = n /\ g.up = TRUE /\ g.from = n /\ g.to = Parents'[n]
                           /\ ~g.old => \A f \in net : f.leaf = n => ~f.up
    OBVIOUS
  <1> HIDE DEF none
  <1> QED BY <1>1, MoveWays, Zenon

\* n moves and sends what tells of it.
LEMMA SendingMoveWays ==
    ASSUME IInv, NEW n \in Remotes, NEW r, Moved(n, r), NEW type, NEW S \in SUBSET net,
           net' = Aged(S) \cup Sent(Up(n, type, r)) \/ net' = Aged(S)
    PROVE  WaysInv'
PROOF
  <1>1. fresh' = {} /\ Parents'[n] = r.parent
    BY DEF Moved, Parents, IInv, RemotesOK
  <1>2. CASE net' = Aged(S)
    BY <1>1, <1>2, QuietWays DEF IInv
  <1>3. CASE net' = Aged(S) \cup Sent(Up(n, type, r))
    <2> DEFINE new == Sent(Up(n, type, r))
    <2>1. \A g \in new : /\ g.leaf = n /\ g.up = TRUE /\ g.from = n /\ g.to = Parents'[n]
                         /\ ~g.old => \A f \in net : f.leaf = n => ~f.up
      <3> TAKE g \in new
      <3>1. /\ g.leaf = n /\ g.up = TRUE /\ g.from = n /\ g.to = r.parent
            /\ ~g.old => \A f \in net : f.leaf = n => ~f.up
        BY UpFacts, Zenon
      <3> QED BY <1>1, <3>1, Zenon
    <2> HIDE DEF new
    <2>2. net' = Aged(S) \cup new
      BY <1>3 DEF new
    <2> QED BY <1>1, <2>1, <2>2, MoveWays DEF IInv
  <1> QED BY <1>2, <1>3

\* No frame goes further up and no route changes.
LEMMA StillWays ==
    ASSUME WaysInv, Parents' = Parents, \A g \in net' : g.up => g \in net,
           UNCHANGED <<routes, session, fresh>>
    PROVE  WaysInv'
PROOF
  <1>1. ASSUME NEW l, Live(l)' PROVE Live(l)
    BY <1>1 DEF Live
  <1>2. FramesOnWay'
    <2> SUFFICES ASSUME NEW f \in net', f.up, Live(f.leaf)'
                 PROVE  f.from \in Way(Parents', f.leaf) /\ f.to = Parents'[f.from]
      BY DEF FramesOnWay
    <2> QED BY <1>1 DEF WaysInv, FramesOnWay
  <1>3. FramesMark'
    BY DEF WaysInv, FramesMark
  <1>4. FreshMarked'
    BY DEF WaysInv, FreshMarked
  <1> QED BY <1>2, <1>3, <1>4 DEF WaysInv

LEMMA PushWays ==
    ASSUME IInv, WaysInv, NEW n \in Remotes, In(PushState(n))
    PROVE  WaysInv'
PROOF
  <1> DEFINE new == Sent(Up(n, "STATE", remote[n]))
  <1>1. net' = net \cup new /\ UNCHANGED <<routes, session, fresh>>
    BY DEF In, PushState
  <1>2. Parents' = Parents
    <2>1. \A m \in Remotes : remote'[m].parent = remote[m].parent
      BY DEF In, PushState, IInv, RemotesOK, RemoteOK, RemoteFields
    <2> QED BY <2>1, ParentsKept
  <1>3. ASSUME NEW g \in new
        PROVE  /\ g.leaf = n /\ g.up = TRUE /\ g.from = n /\ g.to = Parents[n]
               /\ ~g.old => \A f \in net : f.leaf = n => ~f.up
    <2>1. /\ g.leaf = n /\ g.up = TRUE /\ g.from = n /\ g.to = remote[n].parent
          /\ ~g.old => \A f \in net : f.leaf = n => ~f.up
      BY UpFacts, Zenon
    <2>2. Parents[n] = remote[n].parent
      BY DEF Parents
    <2> QED BY <2>1, <2>2, Zenon
  <1> HIDE DEF new
  <1>4. FramesOnWay'
    <2> SUFFICES ASSUME NEW f \in net', f.up, Live(f.leaf)'
                 PROVE  f.from \in Way(Parents, f.leaf) /\ f.to = Parents[f.from]
      BY <1>2 DEF FramesOnWay
    <2>1. CASE f \in new
      <3>1. f.leaf = n /\ f.from = n /\ f.to = Parents[n]
        BY <1>3, <2>1
      <3>2. n \in Way(Parents, n)
        BY WayFacts
      <3> QED BY <3>1, <3>2
    <2>2. CASE f \in net
      <3>1. Live(f.leaf)
        BY <1>1, <1>3, <2>2 DEF Live
      <3> QED BY <2>2, <3>1 DEF WaysInv, FramesOnWay
    <2> QED BY <1>1, <2>1, <2>2
  <1>5. FramesMark'
    <2> SUFFICES ASSUME NEW f \in net', f.up, ~f.old, Rooted(Parents, f.leaf)
                 PROVE  \E T \in SUBSET Way(Parents, f.leaf) : Trail(Parents, routes, f, T)
      BY <1>1, <1>2 DEF FramesMark
    <2>1. CASE f \in new
      <3>1. f.leaf = n /\ f.from = n
        BY <1>3, <2>1
      <3> QED BY <3>1, OwnTrail
    <2>2. CASE f \in net
      BY <2>2 DEF WaysInv, FramesMark
    <2> QED BY <1>1, <2>1, <2>2
  <1>6. FreshMarked'
    BY <1>1, <1>2 DEF WaysInv, FreshMarked
  <1> QED BY <1>4, <1>5, <1>6 DEF WaysInv

LEMMA ForwardedFacts ==
    ASSUME NEW f, FrameOK(f), NEW m, NEW to, NEW g \in Forwarded(f, m, to)
    PROVE  g.leaf = f.leaf /\ g.up = f.up /\ g.old = f.old /\ g.from = m /\ g.to = to
PROOF
  <1>1. PICK c : c = HopsAfter(f)
    OBVIOUS
  <1>2. PICK w : w = Min({f.fwd + 1, Laps})
    OBVIOUS
  <1>3. g = [f EXCEPT !.from = m, !.to = to, !.count = c, !.fwd = w]
    BY <1>1, <1>2 DEF Forwarded, Sent
  <1> QED BY <1>3 DEF FrameOK

\* A relay learns the way back: the mark it puts on the way of a leaf is where
\* the one remote below it is, so no mark there changes but to what it should be.
LEMMA RelayUpWays ==
    ASSUME IInv, WaysInv, NEW f \in net, f.to \in Remotes, RelayFrame(f, f.to), f.up,
           UNCHANGED session
    PROVE  WaysInv'
PROOF
  <1> DEFINE m == f.to
             l == f.leaf
             sent == Forwarded(f, m, remote[m].parent)
  <1>1. FrameOK(f) /\ l \in Remotes /\ f.from \in Remotes
    BY FrameFacts DEF IInv
  <1>2. /\ routes' = [routes EXCEPT ![m][l] = f.from]
        /\ net' = (net \ {f}) \cup sent
        /\ UNCHANGED <<remote, fresh>>
    BY DEF RelayFrame, Learnt, Still
  <1>3. Parents' = Parents /\ Parents[m] = remote[m].parent
    BY <1>2, ParentsKept DEF Parents
  <1>4. ASSUME NEW g \in sent
        PROVE  /\ g.leaf = l /\ g.up = TRUE /\ g.old = f.old
               /\ g.from = m /\ g.to = Parents[m]
    BY <1>1, <1>3, ForwardedFacts DEF FrameOK
  <1>5. \A i, k \in Remotes : routes'[i][k] = IF i = m /\ k = l THEN f.from ELSE routes[i][k]
    BY <1>1, <1>2 DEF IInv, RoutesOK
  <1> HIDE DEF sent
  <1>6. ASSUME NEW k, Live(k)' PROVE Live(k)
    <2>1. CASE k \in fresh
      BY <2>1 DEF Live
    <2>2. CASE \E g \in net' : g.leaf = k /\ g.up /\ ~g.old
      <3>1. PICK g \in net' : g.leaf = k /\ g.up /\ ~g.old
        BY <2>2
      <3>2. CASE g \in net
        BY <3>1, <3>2 DEF Live
      <3>3. CASE g \in sent
        <4>1. f.leaf = k /\ ~f.old
          BY <1>4, <3>1, <3>3
        <4> QED BY <4>1 DEF Live
      <3> QED BY <1>2, <3>2, <3>3
    <2> QED BY <1>2, <1>6, <2>1, <2>2 DEF Live
  <1>7. ASSUME Live(l)
        PROVE  f.from \in Way(Parents, l) /\ m = Parents[f.from] /\ m \in Way(Parents, l)
    <2>1. f.from \in Way(Parents, l) /\ m = Parents[f.from]
      BY <1>7 DEF WaysInv, FramesOnWay
    <2> QED BY <1>1, <2>1, WayFacts DEF Closed
  \* The marks of a rooted way stay.
  <1>8. ASSUME NEW k \in Remotes, Live(k), Rooted(Parents, k), NEW n \in Way(Parents, k),
               Parents[n] \in Remotes, routes[Parents[n]][k] = n
        PROVE  routes'[Parents[n]][k] = n
    <2>1. CASE Parents[n] = m /\ k = l
      <3>1. f.from \in Way(Parents, l) /\ Parents[n] = Parents[f.from]
        BY <1>7, <1>8, <2>1
      <3>2. n = f.from
        BY <1>8, <2>1, <3>1, OneChild
      <3> QED BY <1>5, <1>8, <2>1, <3>2
    <2>2. CASE ~(Parents[n] = m /\ k = l)
      BY <1>5, <1>8, <2>2
    <2> QED BY <2>1, <2>2
  <1>9. FramesOnWay'
    <2> SUFFICES ASSUME NEW g \in net', g.up, Live(g.leaf)'
                 PROVE  g.from \in Way(Parents, g.leaf) /\ g.to = Parents[g.from]
      BY <1>3 DEF FramesOnWay
    <2>1. Live(g.leaf)
      BY <1>6
    <2>2. CASE g \in net
      BY <2>1, <2>2 DEF WaysInv, FramesOnWay
    <2>3. CASE g \in sent
      BY <1>4, <1>7, <2>1, <2>3
    <2> QED BY <1>2, <2>2, <2>3
  <1>10. FramesMark'
    <2> SUFFICES ASSUME NEW g \in net', g.up, ~g.old, Rooted(Parents, g.leaf)
                 PROVE  \E T \in SUBSET Way(Parents, g.leaf) : Trail(Parents, routes', g, T)
      BY <1>3 DEF FramesMark
    <2>1. CASE g \in net
      <3>1. Live(g.leaf) /\ g.leaf \in Remotes
        BY <2>1, FrameFacts DEF Live, IInv
      <3>2. PICK T \in SUBSET Way(Parents, g.leaf) : Trail(Parents, routes, g, T)
        BY <2>1 DEF WaysInv, FramesMark
      <3>3. ASSUME NEW n \in T \ {g.from}
            PROVE  Parents[n] \in T /\ routes'[Parents[n]][g.leaf] = n
        <4>1. Parents[n] \in T /\ routes[Parents[n]][g.leaf] = n
          BY <3>2 DEF Trail
        <4>2. n \in Way(Parents, g.leaf) /\ Parents[n] \in Remotes
          BY <3>1, <4>1, WayFacts
        <4> QED BY <1>8, <3>1, <4>1, <4>2
      <3> QED BY <3>2, <3>3 DEF Trail
    <2>2. CASE g \in sent
      <3>1. g.leaf = l /\ g.from = m /\ ~f.old
        BY <1>4, <2>2
      <3>2. Live(l)
        BY <3>1 DEF Live
      <3>3. PICK T \in SUBSET Way(Parents, l) : Trail(Parents, routes, f, T)
        BY <3>1 DEF WaysInv, FramesMark
      <3>4. T \cup {m} \in SUBSET Way(Parents, l) /\ l \in T /\ f.from \in T
        BY <1>7, <3>2, <3>3 DEF Trail
      <3>5. ASSUME NEW n \in (T \cup {m}) \ {m}
            PROVE  Parents[n] \in T \cup {m} /\ routes'[Parents[n]][l] = n
        <4>1. CASE n = f.from
          <5>1. Parents[n] = m
            BY <1>7, <3>2, <4>1
          <5> QED BY <1>1, <1>5, <4>1, <5>1
        <4>2. CASE n # f.from
          <5>1. n \in T \ {f.from}
            BY <3>5, <4>2
          <5>2. Parents[n] \in T /\ routes[Parents[n]][l] = n
            BY <3>3, <5>1 DEF Trail
          <5>3. n \in Way(Parents, l) /\ Parents[n] \in Remotes
            BY <1>1, <5>1, <5>2, WayFacts
          <5>4. Rooted(Parents, l)
            BY <3>1
          <5> QED BY <1>1, <1>8, <3>2, <5>2, <5>3, <5>4
        <4> QED BY <4>1, <4>2
      <3>6. Trail(Parents, routes', g, T \cup {m})
        BY <3>1, <3>4, <3>5 DEF Trail
      <3> QED BY <3>1, <3>4, <3>6
    <2> QED BY <1>2, <2>1, <2>2
  <1>11. FreshMarked'
    <2> SUFFICES ASSUME NEW k \in fresh
                 PROVE  /\ Rooted(Parents, k)
                        /\ \A n \in Way(Parents, k) :
                              \/ Parents[n] = Bridge /\ session[k].next = n
                              \/ Parents[n] \in Remotes /\ routes'[Parents[n]][k] = n
      BY <1>2, <1>3 DEF FreshMarked
    <2>1. Live(k) /\ k \in Remotes
      BY DEF Live, IInv, RestOK
    <2>2. Rooted(Parents, k)
      BY DEF WaysInv, FreshMarked
    <2>3. ASSUME NEW n \in Way(Parents, k)
          PROVE  \/ Parents[n] = Bridge /\ session[k].next = n
                 \/ Parents[n] \in Remotes /\ routes'[Parents[n]][k] = n
      <3>1. \/ Parents[n] = Bridge /\ session[k].next = n
            \/ Parents[n] \in Remotes /\ routes[Parents[n]][k] = n
        BY DEF WaysInv, FreshMarked
      <3> QED BY <1>8, <2>1, <2>2, <3>1
    <2> QED BY <2>2, <2>3
  <1> QED BY <1>9, <1>10, <1>11 DEF WaysInv

\* The frame that makes a leaf fresh went all the way, and left its marks.
LEMMA BridgeWays ==
    ASSUME IInv, WaysInv, NEW f \in net, In(BridgeReceive(f)), f.up
    PROVE  WaysInv'
PROOF
  <1> DEFINE l == f.leaf
  <1>1. FrameOK(f) /\ l \in Remotes /\ f.from \in Remotes /\ f.to = Bridge /\ f.old \in BOOLEAN
    BY FrameFacts DEF IInv, In, BridgeReceive, FrameOK
  <1>2. /\ session' = [session EXCEPT ![l] = [next |-> f.from, hops |-> f.count]]
        /\ net' = (net \ {f}) \cup Down(f)
        /\ fresh' = IF f.old THEN fresh ELSE fresh \cup {l}
        /\ UNCHANGED <<remote, routes>>
    BY DEF In, BridgeReceive
  <1>3. Parents' = Parents
    BY <1>2, ParentsKept
  <1>4. \A k \in Remotes : session'[k].next = IF k = l THEN f.from ELSE session[k].next
    BY <1>1, <1>2 DEF IInv, SessionOK
  <1>5. \A g \in net' : g.up => g \in net
    <2>1. ASSUME NEW g \in Down(f) PROVE g.up = FALSE
      BY DEF Down, Sent, Frame
    <2> QED BY <1>2, <2>1
  <1>6. ASSUME NEW k, Live(k)' PROVE Live(k)
    <2>1. CASE k \in fresh
      BY <2>1 DEF Live
    <2>2. CASE k = l /\ ~f.old
      BY <2>2 DEF Live
    <2>3. CASE \E g \in net' : g.leaf = k /\ g.up /\ ~g.old
      BY <1>5, <2>3 DEF Live
    <2> QED BY <1>2, <1>6, <2>1, <2>2, <2>3 DEF Live
  <1>7. FramesOnWay'
    <2> SUFFICES ASSUME NEW g \in net', g.up, Live(g.leaf)'
                 PROVE  g.from \in Way(Parents, g.leaf) /\ g.to = Parents[g.from]
      BY <1>3 DEF FramesOnWay
    <2> QED BY <1>5, <1>6 DEF WaysInv, FramesOnWay
  <1>8. FramesMark'
    BY <1>2, <1>3, <1>5 DEF WaysInv, FramesMark
  <1>9. ASSUME Live(l)
        PROVE  f.from \in Way(Parents, l) /\ Parents[f.from] = Bridge /\ Rooted(Parents, l)
    <2>1. f.from \in Way(Parents, l) /\ Parents[f.from] = Bridge
      BY <1>1, <1>9 DEF WaysInv, FramesOnWay
    <2> QED BY <2>1 DEF Rooted
  <1>10. FreshMarked'
    <2> SUFFICES ASSUME NEW k \in fresh'
                 PROVE  /\ Rooted(Parents, k)
                        /\ \A n \in Way(Parents, k) :
                              \/ Parents[n] = Bridge /\ session'[k].next = n
                              \/ Parents[n] \in Remotes /\ routes[Parents[n]][k] = n
      BY <1>2, <1>3 DEF FreshMarked
    <2>1. Live(k) /\ k \in Remotes
      <3>1. Live(k)
        BY <1>6 DEF Live
      <3> QED BY <1>1, <1>2, <3>1 DEF IInv, RestOK
    <2>2. CASE k \in fresh
      <3>1. Rooted(Parents, k)
        BY <2>2 DEF WaysInv, FreshMarked
      <3>2. ASSUME NEW n \in Way(Parents, k), Parents[n] = Bridge, session[k].next = n
            PROVE  session'[k].next = n
        <4>1. CASE k = l
          <5>1. n = f.from
            BY <1>9, <2>1, <3>1, <3>2, <4>1, OneChild
          <5> QED BY <1>4, <2>1, <4>1, <5>1
        <4>2. CASE k # l
          BY <1>4, <2>1, <3>2, <4>2
        <4> QED BY <4>1, <4>2
      <3>3. \A n \in Way(Parents, k) :
               \/ Parents[n] = Bridge /\ session[k].next = n
               \/ Parents[n] \in Remotes /\ routes[Parents[n]][k] = n
        BY <2>2 DEF WaysInv, FreshMarked
      <3> QED BY <3>1, <3>2, <3>3
    <2>3. CASE k = l /\ ~f.old
      <3>1. /\ f.from \in Way(Parents, l) /\ Parents[f.from] = Bridge /\ Rooted(Parents, l)
        BY <1>9, <2>1, <2>3
      <3>2. PICK T \in SUBSET Way(Parents, l) : Trail(Parents, routes, f, T)
        BY <2>3, <3>1 DEF WaysInv, FramesMark
      <3>3. T \in SUBSET Remotes /\ l \in T
        BY <1>1, <3>2, WayFacts DEF Trail
      <3>4. Closed(Parents, T)
        BY <3>1, <3>2, Addresses DEF Closed, Trail
      <3>5. Way(Parents, l) \subseteq T
        BY <1>1, <3>3, <3>4, WayFacts
      <3>6. ASSUME NEW n \in Way(Parents, k)
            PROVE  \/ Parents[n] = Bridge /\ session'[k].next = n
                   \/ Parents[n] \in Remotes /\ routes[Parents[n]][k] = n
        <4>1. CASE n = f.from
          BY <1>1, <1>4, <2>3, <3>1, <4>1
        <4>2. CASE n # f.from
          <5>1. n \in T \ {f.from}
            BY <2>3, <3>5, <4>2
          <5>2. Parents[n] \in T /\ routes[Parents[n]][l] = n
            BY <3>2, <5>1 DEF Trail
          <5> QED BY <2>3, <3>3, <5>2
        <4> QED BY <4>1, <4>2
      <3> QED BY <2>3, <3>1, <3>6
    <2> QED BY <1>2, <2>2, <2>3
  <1> QED BY <1>7, <1>8, <1>10 DEF WaysInv

-----------------------------------------------------------------------------
(* The ways through each step.                                             *)

\* Steps of the loop, and of a remote that restarts or loses a route.
LEMMA LoopWays ==
    ASSUME IInv, WaysInv, NEW n \in Remotes,
           In(Loop(n)) \/ In(LinkLost(n)) \/ Restart(n) \/ \E l \in Remotes : In(PruneRoute(n, l))
    PROVE  WaysInv'
PROOF
  <1>1. ASSUME SendDiscover(n) \/ CloseWindow(n) PROVE WaysInv'
    <2>1. \A m \in Remotes : remote'[m].parent = remote[m].parent
      BY <1>1 DEF SendDiscover, CloseWindow, IInv, RemotesOK, RemoteOK, RemoteFields
    <2>2. UNCHANGED <<routes, net, session, fresh>>
      BY <1>1 DEF SendDiscover, CloseWindow
    <2> QED BY <2>1, <2>2, ParentsKept, StillWays
  <1>2. ASSUME AdoptParent(n) PROVE WaysInv'
    <2>1. PICK r : /\ Moved(n, r)
                   /\ net' = Aged(net) \cup Sent(Up(n, "HEARTBEAT", r)) \/ net' = Aged(net)
      BY <1>2 DEF AdoptParent, Beat
    <2> QED BY <2>1, SendingMoveWays
  <1>3. ASSUME TryJoin(n) PROVE WaysInv'
    <2>1. PICK r : Moved(n, r) /\ net' = Aged(net) \cup Sent(Up(n, "JOIN", r))
      BY <1>3 DEF TryJoin
    <2> QED BY <2>1, SendingMoveWays
  <1>4. ASSUME \/ JoinExhausted(n) \/ Recover(n) \/ Restart(n)
               \/ \E l \in Remotes : PruneRoute(n, l)
        PROVE  WaysInv'
    <2>1. fresh' = {} /\ \E S \in SUBSET net : net' = Aged(S)
      BY <1>4 DEF JoinExhausted, Recover, Restart, PruneRoute, Moved
    <2> QED BY <2>1, QuietWays DEF IInv
  <1> QED BY <1>1, <1>2, <1>3, <1>4, PushWays
           DEF In, Loop, LinkLost, StateExhausted, RefreshParent

\* All frames in the air are of the tree of before.
LEMMA AgedWays ==
    ASSUME fresh' = {}, \A g \in net' : g.old = TRUE
    PROVE  WaysInv'
PROOF
  <1>1. \A l : ~Live(l)'
    BY DEF Live
  <1> QED BY <1>1 DEF WaysInv, FramesOnWay, FramesMark, FreshMarked

LEMMA SetParentWays ==
    ASSUME IInv, NEW n \in Remotes, NEW m, NEW clear, SetParent(n, m, clear)
    PROVE  WaysInv'
PROOF
  <1> DEFINE S == net \cup Beat(n, remote[n])
  <1>1. \A f \in S : FrameOK(f)
    BY BeatOK DEF IInv, NetOK, RemotesOK
  <1>2. net' = Aged(S) /\ fresh' = {}
    BY DEF SetParent, Moved
  <1> HIDE DEF S
  <1> QED BY <1>1, <1>2, AgedFrames, AgedWays, Zenon

LEMMA OwnFrameWays ==
    ASSUME IInv, WaysInv, NEW f \in net, NEW n \in Remotes, OwnFrame(f, n),
           UNCHANGED <<routes, session>>
    PROVE  WaysInv'
PROOF
  <1>1. ASSUME NEW r, Moved(n, r), net' = Aged(net \ {f}) \cup Beat(n, r) PROVE WaysInv'
    <2>1. \/ net' = Aged(net \ {f}) \cup Sent(Up(n, "HEARTBEAT", r))
          \/ net' = Aged(net \ {f})
      BY <1>1 DEF Beat
    <2>2. net \ {f} \in SUBSET net
      OBVIOUS
    <2> QED BY <1>1, <2>1, <2>2, SendingMoveWays
  <1>2. ASSUME net' = net \ {f}, fresh' = fresh,
               \A m \in Remotes : remote'[m].parent = remote[m].parent
        PROVE  WaysInv'
    BY <1>2, ParentsKept, StillWays
  <1>3. CASE ~f.up /\ f.type = "JOIN_ACK"
    BY <1>1, <1>2, <1>3 DEF OwnFrame, OwnJoinAck, Still
  <1>4. CASE ~(~f.up /\ f.type = "JOIN_ACK")
    <2>1. \A m \in Remotes : remote'[m].parent = remote[m].parent
      <3>1. \/ \E h : remote' = [remote EXCEPT ![n].hops = h]
            \/ remote' = [remote EXCEPT ![n].waiting = FALSE]
            \/ remote' = remote
        BY <1>4 DEF OwnFrame
      <3> QED BY <3>1 DEF IInv, RemotesOK, RemoteOK, RemoteFields
    <2>2. net' = net \ {f} /\ fresh' = fresh
      BY <1>4 DEF OwnFrame, Still
    <2> QED BY <1>2, <2>1, <2>2
  <1> QED BY <1>3, <1>4

LEMMA ReceiveWays ==
    ASSUME IInv, WaysInv, NEW f \in net, In(RemoteReceive(f)) \/ In(BridgeReceive(f))
    PROVE  WaysInv'
PROOF
  <1>1. CASE In(RemoteReceive(f))
    <2>1. f.to \in Remotes /\ UNCHANGED session
      BY <1>1 DEF In, RemoteReceive
    <2>2. CASE Dropped(f)
      <3>1. net' = net \ {f} /\ UNCHANGED <<remote, routes, fresh>>
        BY <2>2 DEF Dropped, Still
      <3> QED BY <2>1, <3>1, ParentsKept, StillWays
    <2>3. CASE OwnFrame(f, f.to) /\ UNCHANGED routes
      BY <2>1, <2>3, OwnFrameWays
    <2>4. CASE RelayFrame(f, f.to) /\ f.up
      BY <2>1, <2>4, RelayUpWays
    <2>5. CASE RelayFrame(f, f.to) /\ ~f.up
      <3>1. UNCHANGED <<remote, routes, fresh>>
        BY <2>5 DEF RelayFrame, Still
      <3>2. \A g \in net' : g.up => g \in net
        <4>1. FrameOK(f) /\ f.up = FALSE
          BY <2>5 DEF IInv, NetOK, FrameOK
        <4>2. \A g \in Forwarded(f, f.to, routes[f.to][f.leaf]) : g.up = FALSE
          BY <4>1, ForwardedFacts
        <4>3. net' \subseteq net \cup Forwarded(f, f.to, routes[f.to][f.leaf])
          BY <2>5 DEF RelayFrame
        <4> QED BY <4>2, <4>3
      <3> QED BY <2>1, <3>1, <3>2, ParentsKept, StillWays
    <2> QED BY <1>1, <2>2, <2>3, <2>4, <2>5 DEF In, RemoteReceive
  <1>2. CASE In(BridgeReceive(f))
    <2>1. f.up
      BY <1>2, FrameFacts, Addresses DEF IInv, In, BridgeReceive
    <2> QED BY <1>2, <2>1, BridgeWays
  <1> QED BY <1>1, <1>2

LEMMA InitWays == Init => WaysInv
  BY DEF Init, WaysInv, FramesOnWay, FramesMark, FreshMarked

LEMMA StepWays == IInv /\ WaysInv /\ [Next]_vars => WaysInv'
PROOF
  <1> SUFFICES ASSUME IInv, WaysInv, [Next]_vars PROVE WaysInv'
    OBVIOUS
  <1>1. CASE \E n \in Remotes : In(Loop(n)) \/ In(LinkLost(n)) \/ Restart(n)
    BY <1>1, LoopWays
  <1>2. CASE \E n, l \in Remotes : In(PruneRoute(n, l))
    BY <1>2, LoopWays
  <1>3. CASE \E n \in Remotes : In(Deliver(n))
    BY <1>3, ReceiveWays DEF In, Deliver, FramesOf
  <1>4. CASE In(Discovery)
    <2>1. \A m \in Remotes : remote'[m].parent = remote[m].parent
      BY <1>4 DEF In, Discovery, HandleAnnounce, IInv, RemotesOK, RemoteOK, RemoteFields
    <2>2. UNCHANGED <<routes, net, session, fresh>>
      BY <1>4 DEF In, Discovery, HandleAnnounce
    <2> QED BY <2>1, <2>2, ParentsKept, StillWays
  <1>5. CASE (\E f \in net : In(Lose(f))) \/ (\E a \in announces : In(LoseAnnounce(a)))
    <2>1. net' \subseteq net /\ UNCHANGED <<remote, routes, session, fresh>>
      BY <1>5 DEF In, Lose, LoseAnnounce
    <2> QED BY <2>1, ParentsKept, StillWays
  <1>6. CASE \E n \in Remotes, m \in Nodes, clear \in BOOLEAN : SetParent(n, m, clear)
    BY <1>6, SetParentWays
  <1>7. CASE In(RefreshIntervalPasses)
    <2>1. \A m \in Remotes : remote'[m].parent = remote[m].parent
      BY <1>7 DEF In, RefreshIntervalPasses, IInv, RemotesOK, RemoteOK, RemoteFields
    <2>2. UNCHANGED <<routes, net, session, fresh>>
      BY <1>7 DEF In, RefreshIntervalPasses
    <2> QED BY <2>1, <2>2, ParentsKept, StillWays
  <1>8. CASE UNCHANGED vars
    BY <1>8, ParentsKept, StillWays DEF vars
  <1> QED BY <1>1, <1>2, <1>3, <1>4, <1>5, <1>6, <1>7, <1>8 DEF Next

-----------------------------------------------------------------------------
(* Above: the way up, node by node.                                        *)

\* The node over x.
Over(par, x) == IF x \in Remotes THEN par[x] ELSE None

\* u is the way from n for k steps.
Climbs(par, n, k, u) ==
    /\ u \in [0 .. k -> Nodes \cup {None, Zero}] /\ u[0] = n
    /\ \A i \in 1 .. k : u[i] = Over(par, u[i - 1])

\* The least number of a set of them.
LEMMA LeastNat ==
    ASSUME NEW T \in SUBSET Nat, T # {}
    PROVE  \E x \in T : \A y \in T : x <= y
PROOF
  <1> DEFINE Lower == {p \in Nat \X Nat : p[1] < p[2]}
  <1>1. Lower = OpToRel(<, Nat)
    BY Zenon DEF OpToRel
  <1>2. IsWellFoundedOn(Lower, Nat)
    BY <1>1, NatLessThanWellFounded
  <1> HIDE DEF Lower
  <1>3. PICK x \in T : \A y \in T : <<y, x>> \notin Lower
    BY <1>2, WFMin
  <1>4. ASSUME NEW y \in T PROVE x <= y
    <2>1. x \in Nat /\ y \in Nat /\ <<y, x>> \notin Lower
      BY <1>3
    <2>2. ~(y < x)
      BY <2>1 DEF Lower
    <2> QED BY <2>1, <2>2
  <1> QED BY <1>3, <1>4

\* What holds of 0, and of k when it holds of k - 1, holds of every number.
LEMMA EveryNat ==
    ASSUME NEW G \in SUBSET Nat, 0 \in G, \A k \in Nat \ {0} : k - 1 \in G => k \in G
    PROVE  G = Nat
PROOF
  <1>1. SUFFICES ASSUME Nat \ G # {} PROVE FALSE
    OBVIOUS
  <1>2. PICK k \in Nat \ G : \A y \in Nat \ G : k <= y
    BY <1>1, LeastNat
  <1>3. k # 0 /\ k - 1 \in Nat /\ ~(k <= k - 1)
    BY <1>2
  <1> QED BY <1>2, <1>3

LEMMA ClimbsAgree ==
    ASSUME NEW par, NEW n, NEW k \in Nat, NEW j \in Nat, NEW u, NEW v,
           Climbs(par, n, k, u), Climbs(par, n, j, v)
    PROVE  \A i \in Nat : i <= k /\ i <= j => u[i] = v[i]
PROOF
  <1> DEFINE G == {i \in Nat : i <= k /\ i <= j => u[i] = v[i]}
  <1>1. 0 \in G
    BY DEF Climbs
  <1>2. ASSUME NEW i \in Nat \ {0}, i - 1 \in G PROVE i \in G
    <2>1. CASE i <= k /\ i <= j
      <3>1. u[i - 1] = v[i - 1] /\ i \in 1 .. k /\ i \in 1 .. j
        BY <1>2, <2>1
      <3> QED BY <3>1 DEF Climbs
    <2>2. CASE ~(i <= k /\ i <= j)
      BY <2>2
    <2> QED BY <2>1, <2>2
  <1> HIDE DEF G
  <1>3. G = Nat
    <2>1. G \in SUBSET Nat
      BY DEF G
    <2> QED BY <1>1, <1>2, <2>1, EveryNat
  <1> QED BY <1>3 DEF G

\* A way of any length.
LEMMA ClimbsExist ==
    ASSUME NEW par \in [Remotes -> Nodes \cup {None, Zero}], NEW n \in Remotes
    PROVE  \A k \in Nat : \E u : Climbs(par, n, k, u)
PROOF
  <1> DEFINE V == Nodes \cup {None, Zero}
             G == {k \in Nat : \E u : Climbs(par, n, k, u)}
  <1>1. 0 \in G
    <2>1. Climbs(par, n, 0, [i \in 0 .. 0 |-> n])
      BY Addresses DEF Climbs
    <2> QED BY <2>1
  <1>2. ASSUME NEW k \in Nat \ {0}, k - 1 \in G PROVE k \in G
    <2>1. PICK u : Climbs(par, n, k - 1, u)
      BY <1>2
    <2> DEFINE v == [i \in 0 .. k |-> IF i = k THEN Over(par, u[k - 1]) ELSE u[i]]
    <2>2. u \in [0 .. k - 1 -> V] /\ u[k - 1] \in V
      BY <2>1 DEF Climbs
    <2>3. Over(par, u[k - 1]) \in V
      BY DEF Over
    <2>4. v \in [0 .. k -> V]
      <3>1. ASSUME NEW i \in 0 .. k, i # k PROVE i \in 0 .. k - 1
        BY <3>1
      <3> QED BY <2>2, <2>3, <3>1
    <2>5. v[0] = n
      BY <2>1 DEF Climbs
    <2>6. ASSUME NEW i \in 1 .. k PROVE v[i] = Over(par, v[i - 1])
      <3>1. v[i - 1] = u[i - 1]
        OBVIOUS
      <3>2. CASE i = k
        <4>1. v[i] = Over(par, u[k - 1])
          BY <3>2
        <4> QED BY <3>1, <3>2, <4>1
      <3>3. CASE i # k
        <4>1. v[i] = u[i] /\ i \in 1 .. k - 1
          BY <3>3
        <4> QED BY <2>1, <3>1, <4>1 DEF Climbs
      <3> QED BY <3>2, <3>3
    <2> HIDE DEF v
    <2>7. Climbs(par, n, k, v)
      BY <2>4, <2>5, <2>6 DEF Climbs
    <2> QED BY <2>7
  <1> HIDE DEF G
  <1>3. G = Nat
    <2>1. G \in SUBSET Nat
      BY DEF G
    <2> QED BY <1>1, <1>2, <2>1, EveryNat
  <1> QED BY <1>3 DEF G

LEMMA AboveFacts ==
    ASSUME IInv, NEW n \in Remotes
    PROVE  /\ Above(n)[0] = n
           /\ \A k \in Nat \ {0} : Above(n)[k] = Over(Parents, Above(n)[k - 1])
PROOF
  <1> DEFINE way(k) == CHOOSE u : Climbs(Parents, n, k, u)
             up == [k \in Nat |-> way(k)[k]]
             Step(f) == [k \in Nat |-> IF k = 0 THEN n
                                       ELSE IF f[k - 1] \in Remotes THEN remote[f[k - 1]].parent
                                       ELSE None]
  <1>1. Parents \in [Remotes -> Nodes \cup {None, Zero}]
    BY DEF Parents, IInv, RemotesOK, RemoteOK, RemoteFields
  <1>2. \A k \in Nat : Climbs(Parents, n, k, way(k))
    BY <1>1, ClimbsExist, Zenon
  <1> HIDE DEF way
  <1>3. ASSUME NEW k \in Nat \ {0} PROVE up[k] = Over(Parents, up[k - 1])
    <2>1. k - 1 \in Nat /\ k \in Nat /\ k - 1 <= k /\ k - 1 <= k - 1 /\ k \in 1 .. k
      OBVIOUS
    <2>2. way(k)[k] = Over(Parents, way(k)[k - 1])
      BY <1>2, <2>1, Zenon DEF Climbs
    <2>3. way(k)[k - 1] = way(k - 1)[k - 1]
      <3>1. Climbs(Parents, n, k, way(k)) /\ Climbs(Parents, n, k - 1, way(k - 1))
        BY <1>2, <2>1
      <3>2. \A i \in Nat : i <= k /\ i <= k - 1 => way(k)[i] = way(k - 1)[i]
        BY <2>1, <3>1, ClimbsAgree
      <3> QED BY <2>1, <3>2
    <2> QED BY <2>1, <2>2, <2>3
  <1>4. up[0] = n
    <2>1. way(0)[0] = n
      BY <1>2 DEF Climbs
    <2> QED BY <2>1
  <1>5. up = Step(up)
    <2>1. ASSUME NEW k \in Nat
          PROVE  up[k] = IF k = 0 THEN n
                         ELSE IF up[k - 1] \in Remotes THEN remote[up[k - 1]].parent
                         ELSE None
      <3>1. CASE k = 0
        BY <1>4, <3>1
      <3>2. CASE k # 0
        BY <1>3, <3>2 DEF Over, Parents
      <3> QED BY <3>1, <3>2
    <2>2. up = [k \in Nat |-> up[k]]
      OBVIOUS
    <2> HIDE DEF up
    <2> QED BY <2>1, <2>2
  <1> HIDE DEF up
  <1>6. Above(n) = Step(Above(n))
    <2>1. Above(n) = CHOOSE f : f = Step(f)
      BY DEF Above
    <2> HIDE DEF Step
    <2> QED BY <1>5, <2>1, Zenon
  <1>7. Above(n)[0] = n
    BY <1>6
  <1>8. ASSUME NEW k \in Nat \ {0} PROVE Above(n)[k] = Over(Parents, Above(n)[k - 1])
    <2> DEFINE f == Above(n)
    <2>1. f = Step(f)
      BY <1>6
    <2> HIDE DEF f
    <2>2. f[k] = IF f[k - 1] \in Remotes THEN remote[f[k - 1]].parent ELSE None
      BY <2>1
    <2>3. f[k] = Over(Parents, f[k - 1])
      BY <2>2 DEF Over, Parents
    <2> QED BY <2>3 DEF f
  <1> QED BY <1>7, <1>8

\* The leaf's way up is Above, so the marks are the routes RoutesLeadBack asks for.
LEMMA LeadBackFromWays == IInv /\ WaysInv => RoutesLeadBack
PROOF
  <1> SUFFICES ASSUME IInv, WaysInv, NEW l \in fresh, NEW k \in Depths
               PROVE  /\ Above(l)[k] \in Remotes => routes[Above(l)[k]][l] = Above(l)[k - 1]
                      /\ Above(l)[k] = Bridge => session[l].next = Above(l)[k - 1]
    BY Zenon DEF RoutesLeadBack
  <1> DEFINE up == Above(l)
             W == Way(Parents, l)
  <1>1. l \in Remotes /\ k \in Nat \ {0}
    BY DEF IInv, RestOK, Depths
  <1>2. up[0] = l /\ \A i \in Nat \ {0} : up[i] = Over(Parents, up[i - 1])
    BY <1>1, AboveFacts, Zenon
  <1>3. l \in W /\ W \subseteq Remotes /\ Closed(Parents, W)
    BY <1>1, WayFacts, Zenon
  <1>4. \A n \in W : \/ Parents[n] = Bridge /\ session[l].next = n
                     \/ Parents[n] \in Remotes /\ routes[Parents[n]][l] = n
    BY Zenon DEF WaysInv, FreshMarked
  <1> HIDE DEF up, W
  <1> DEFINE G == {i \in Nat : up[i] \in W \cup {Bridge, None}}
  <1>5. 0 \in G
    BY <1>2, <1>3
  <1>6. ASSUME NEW i \in Nat \ {0}, i - 1 \in G PROVE i \in G
    <2>1. up[i] = Over(Parents, up[i - 1])
      BY <1>2
    <2>2. CASE up[i - 1] \in W
      <3>1. up[i] = Parents[up[i - 1]]
        BY <1>3, <2>1, <2>2 DEF Over
      <3>2. up[i] = Bridge \/ up[i] \in W
        BY <1>3, <1>4, <2>2, <3>1 DEF Closed
      <3> QED BY <3>2
    <2>3. CASE up[i - 1] \in {Bridge, None}
      <3>1. up[i] = None
        BY <2>1, <2>3, Addresses DEF Over
      <3> QED BY <3>1
    <2> QED BY <1>6, <2>2, <2>3
  <1> HIDE DEF G
  <1>7. G = Nat
    <2>1. G \in SUBSET Nat
      BY DEF G
    <2> QED BY <1>5, <1>6, <2>1, EveryNat
  <1>8. up[k - 1] \in W \cup {Bridge, None}
    BY <1>1, <1>7 DEF G
  <1>9. up[k] = Over(Parents, up[k - 1])
    BY <1>1, <1>2
  <1>10. CASE up[k - 1] \in W
    <2>1. up[k] = Parents[up[k - 1]]
      BY <1>3, <1>9, <1>10 DEF Over
    <2>2. /\ up[k] \in Remotes => routes[up[k]][l] = up[k - 1]
          /\ up[k] = Bridge => session[l].next = up[k - 1]
      BY <1>4, <1>10, <2>1, Addresses
    <2> QED BY <2>2 DEF up
  <1>11. CASE up[k - 1] \in {Bridge, None}
    <2>1. up[k] = None
      BY <1>9, <1>11, Addresses DEF Over
    <2>2. up[k] \notin Remotes /\ up[k] # Bridge
      BY <2>1, Addresses
    <2> QED BY <2>2 DEF up
  <1> QED BY <1>8, <1>10, <1>11

-----------------------------------------------------------------------------
(* The theorems.                                                           *)

\* At boot nobody has a parent, a route or a frame in the air.
LEMMA InitIInv == Init => IInv
PROOF
  <1> SUFFICES ASSUME Init PROVE IInv
    OBVIOUS
  <1>1. RemotesOK
    BY BootedOK DEF Init, RemotesOK
  <1>2. RoutesOK
    BY Addresses DEF Init, RoutesOK
  <1>3. AnnouncesOK /\ NetOK
    BY DEF Init, AnnouncesOK, NetOK
  <1>4. SessionOK
    BY DEF Init, SessionOK
  <1>5. RestOK
    BY RelayAssumption DEF Init, RestOK
  <1> QED BY <1>1, <1>2, <1>3, <1>4, <1>5 DEF IInv

LEMMA StepIInv == IInv /\ [Next]_vars => IInv'
PROOF
  <1> SUFFICES ASSUME IInv, [Next]_vars PROVE IInv'
    OBVIOUS
  <1>1. CASE \E n \in Remotes : In(Loop(n)) \/ In(LinkLost(n))
    BY <1>1, LoopStep
  <1>2. CASE \E n \in Remotes : In(Deliver(n))
    BY <1>2, RemoteReceiveStep, BridgeReceiveStep DEF In, Deliver, FramesOf
  <1>3. CASE \E n \in Remotes : Restart(n) /\ UNCHANGED place
    BY <1>3, RestartStep
  <1>4. CASE \E n, l \in Remotes : In(PruneRoute(n, l))
    BY <1>4, PruneRouteStep
  <1>5. CASE In(Discovery)
    BY <1>5, HandleAnnounceStep DEF In, Discovery
  <1>6. CASE (\E f \in net : In(Lose(f))) \/ (\E a \in announces : In(LoseAnnounce(a)))
    BY <1>6, LoseStep
  <1>7. CASE \E n \in Remotes, m \in Nodes, clear \in BOOLEAN :
                 SetParent(n, m, clear) /\ UNCHANGED place
    BY <1>7, SetParentStep
  <1>8. CASE In(RefreshIntervalPasses)
    BY <1>8, RefreshIntervalStep
  <1>9. CASE UNCHANGED vars
    BY <1>9 DEF vars, IInv, RemotesOK, RoutesOK, AnnouncesOK, NetOK, SessionOK, RestOK
  <1> QED BY <1>1, <1>2, <1>3, <1>4, <1>5, <1>6, <1>7, <1>8, <1>9 DEF Next

LEMMA InvFromIInv == IInv => TypeOK /\ DownstreamDies
PROOF
  <1> SUFFICES ASSUME IInv PROVE TypeOK /\ DownstreamDies
    OBVIOUS
  <1>1. ASSUME NEW n \in Remotes
        PROVE  LET r == remote[n] IN
               /\ r.parent \in (Nodes \ {n}) \cup {None, Zero}
               /\ r.best.via \in (Nodes \ {n}) \cup {None}
               /\ r.hops \in 0 .. MaxHops + 1 \cup {Unknown}
               /\ r.normal => r.joined /\ r.parent # None /\ ~r.discovering
               /\ r.waiting => r.joined
               /\ routes[n] \in [Remotes -> (Remotes \ {n}) \cup {None}]
    <2>1. RemoteOK(n, remote[n])
      BY DEF IInv, RemotesOK
    <2>2. routes[n] \in [Remotes -> (Remotes \ {n}) \cup {None}]
      BY DEF IInv, RoutesOK
    <2> QED BY <2>1, <2>2 DEF RemoteOK, RemoteFields, Hops
  <1>2. ASSUME NEW f \in net
        PROVE  /\ f.type \in FrameTypes /\ f.leaf \in Remotes /\ {f.from, f.to} \subseteq Nodes
               /\ f.fwd \in 0 .. Laps
               /\ ~f.up => f.fwd <= MaxHops
    <2>1. FrameOK(f)
      BY DEF IInv, NetOK
    <2> QED BY <2>1, LapsNat DEF FrameOK
  <1>3. \A l \in Remotes : session[l].next \in Remotes \cup {None}
    BY DEF IInv, SessionOK
  <1>4. budget \in [FaultKinds -> Nat] /\ fresh \subseteq Remotes
    BY DEF IInv, RestOK
  <1>5. TypeOK
    BY <1>1, <1>2, <1>3, <1>4, Zenon DEF TypeOK
  <1>6. DownstreamDies
    BY <1>2 DEF DownstreamDies
  <1> QED BY <1>5, <1>6

\* on_espnow_frame and the loop keep the fields of a remote in agreement:
\* a NORMAL remote joined, has a parent and is not looking for one.
THEOREM Typed == Spec => []TypeOK
PROOF
  <1>1. Spec => []IInv
    BY InitIInv, StepIInv, PTL DEF Spec
  <1> QED BY <1>1, InvFromIInv, PTL

\* Whatever the routes of the relays are, forward_packet_ passes a downstream
\* frame on at most max_hops_ times.
THEOREM DownstreamFramesDie == Spec => []DownstreamDies
PROOF
  <1>1. Spec => []IInv
    BY InitIInv, StepIInv, PTL DEF Spec
  <1> QED BY <1>1, InvFromIInv, PTL

\* A leaf that the bridge has heard over the tree of now is routed to by the
\* parents of its way, the other way round: every relay's refresh_route_ has
\* overwritten what earlier trees left, and the bridge answers to the last relay.
THEOREM RoutesFollowParents == Spec => []RoutesLeadBack
PROOF
  <1>1. Init => IInv /\ WaysInv
    BY InitIInv, InitWays
  <1>2. IInv /\ WaysInv /\ [Next]_vars => (IInv /\ WaysInv)'
    BY StepIInv, StepWays
  <1>3. Spec => [](IInv /\ WaysInv)
    BY <1>1, <1>2, PTL DEF Spec
  <1> QED BY <1>3, LeadBackFromWays, PTL

=============================================================================
