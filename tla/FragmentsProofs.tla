-------------------------- MODULE FragmentsProofs --------------------------
(***************************************************************************)
(* What is put together of fragments is one message, and messages do not   *)
(* pass one another: for any number of entities, any limits, and fragments *)
(* in any order.                                                           *)
(***************************************************************************)
EXTENDS Fragments, FiniteSetTheorems, WellFoundedInduction, TLAPS

Positive == Nat \ {0}
Parts == UNION {[Indices(n) -> Nat] : n \in Nat}
Entry == [there : BOOLEAN, active : BOOLEAN, base : Nat, count : Nat, parts : Parts]
Messages == [base : Positive, entity : Entities, count : Positive]

\* The bytes in a are from one message to e, and of a counter seen.
HoldsPart(msgs, e, a, seen) ==
    \E m \in msgs :
        /\ m.entity = e /\ m.base = a.base /\ m.count = a.count
        /\ a.parts \in [Indices(m.count) -> {Nothing, m.base}]
        /\ \A i \in Indices(m.count) : a.parts[i] # Nothing => m.base + i <= seen

SenderOK ==
    /\ tx \in Positive /\ sent \subseteq Messages
    /\ \A m \in sent : m.base + m.count <= tx
    /\ \A m, n \in sent :
          m = n \/ m.base + m.count <= n.base \/ n.base + n.count <= m.base

CountersOK ==
    /\ kind \in Kinds /\ lastSeen \in Nat /\ done \in [Entities -> Nat]
    /\ unconfirmed \subseteq Nat /\ (kind # "STATE" => unconfirmed = {})

TableOK ==
    /\ table \in [Entities -> Entry]
    /\ \A e \in Entities : table[e].active =>
          table[e].there /\ HoldsPart(sent, e, table[e], lastSeen)

HandedOK ==
    /\ handed \in [Entities -> Entry]
    /\ \A e \in Entities : handed[e].there =>
          /\ HoldsPart(sent, e, handed[e], lastSeen) /\ Complete(handed[e])
          /\ kind # "STATE" => handed[e].base <= done[e]
    /\ \A e \in Entities : ~handed[e].there => handed[e].base = 0

FragInv == SenderOK /\ CountersOK /\ TableOK /\ HandedOK

-----------------------------------------------------------------------------
(* Entries and messages.                                                   *)

LEMMA NoEntryTypes ==
    /\ NoEntry \in Entry /\ ~NoEntry.active /\ ~NoEntry.there /\ NoEntry.base = 0
    /\ Emptied \in Entry /\ ~Emptied.active
PROOF
  <1>1. [i \in Indices(0) |-> Nothing] \in Parts
    BY DEF Parts, Nothing
  <1> QED BY <1>1 DEF NoEntry, Emptied, Entry

\* A new message takes counters of its own.
LEMMA SendKeepsSender ==
    ASSUME SenderOK, NEW e \in Entities, NEW n \in 1 .. MaxFragments, SendMessage(e, n)
    PROVE  SenderOK'
PROOF
  <1>1. MaxFragments \in Nat /\ n \in Positive /\ tx \in Positive
    BY FragmentsAssumption DEF SenderOK, Positive
  <1>2. tx' = tx + n /\ sent' = sent \cup {Message(tx, e, n)}
    BY DEF SendMessage
  <1>3. /\ Message(tx, e, n) \in Messages
        /\ Message(tx, e, n).base = tx /\ Message(tx, e, n).count = n
    BY <1>1 DEF Message, Messages
  <1>4. \A m \in sent : m.base \in Positive /\ m.count \in Positive /\ m.base + m.count <= tx
    BY DEF SenderOK, Messages
  <1>5. tx' \in Positive /\ sent' \subseteq Messages
    BY <1>1, <1>2, <1>3 DEF SenderOK, Positive
  <1>6. \A m \in sent' : m.base + m.count <= tx'
    BY <1>1, <1>2, <1>3, <1>4 DEF Positive
  <1>7. \A m, k \in sent' : m = k \/ m.base + m.count <= k.base \/ k.base + k.count <= m.base
    BY <1>1, <1>2, <1>3, <1>4 DEF SenderOK, Positive
  <1> QED BY <1>5, <1>6, <1>7 DEF SenderOK

\* Whatever holds of an entry holds when more was sent and seen.
LEMMA HoldsPartMonotone ==
    ASSUME SenderOK, NEW e, NEW a, NEW s \in Nat, NEW t \in Nat, s <= t,
           NEW ms, sent \subseteq ms, HoldsPart(sent, e, a, s)
    PROVE  HoldsPart(ms, e, a, t)
PROOF
  <1>1. PICK m \in sent :
            /\ m.entity = e /\ m.base = a.base /\ m.count = a.count
            /\ a.parts \in [Indices(m.count) -> {Nothing, m.base}]
            /\ \A i \in Indices(m.count) : a.parts[i] # Nothing => m.base + i <= s
    BY DEF HoldsPart
  <1>2. m.base \in Nat /\ m.count \in Nat
    BY DEF SenderOK, Messages, Positive
  <1>3. \A i \in Indices(m.count) : a.parts[i] # Nothing => m.base + i <= t
    BY <1>1, <1>2 DEF Indices
  <1> QED BY <1>1, <1>3 DEF HoldsPart

\* A fragment goes where it belongs.
LEMMA StoredHolds ==
    ASSUME SenderOK, CountersOK, TableOK, NEW m \in sent, NEW i \in Indices(m.count),
           Accepted(m, i), Fits(m), NEW t \in Nat, lastSeen <= t, m.base + i <= t
    PROVE  /\ Stored(m, i) \in Entry /\ Stored(m, i).there /\ Stored(m, i).base = m.base
           /\ HoldsPart(sent, m.entity, Stored(m, i), t)
PROOF
  <1>1. m.base \in Positive /\ m.count \in Positive /\ m.entity \in Entities
    BY DEF SenderOK, Messages
  <1>2. DEFINE a == IF Found(m).active THEN Found(m) ELSE Started(m)
  <1>3. /\ a \in Entry /\ a.there /\ a.base = m.base /\ a.count = m.count
        /\ a.parts \in [Indices(m.count) -> {Nothing, m.base}]
        /\ \A j \in Indices(m.count) : a.parts[j] # Nothing => m.base + j <= t
    <2>1. CASE Found(m).active
      <3>1. Found(m) = table[m.entity] /\ table[m.entity] \in Entry
        BY <1>1, <2>1, NoEntryTypes DEF Found, TableOK
      <3>2. a = table[m.entity] /\ a.there /\ a.base = m.base /\ a.count = m.count
        BY <1>1, <2>1, <3>1 DEF Fits, SameMessage, TableOK
      <3>3. HoldsPart(sent, m.entity, a, lastSeen)
        BY <1>1, <2>1, <3>1, <3>2 DEF TableOK
      <3>4. PICK k \in sent :
              /\ k.base = a.base /\ k.count = a.count
              /\ a.parts \in [Indices(k.count) -> {Nothing, k.base}]
              /\ \A j \in Indices(k.count) : a.parts[j] # Nothing => k.base + j <= lastSeen
        BY <3>3 DEF HoldsPart
      <3>5. k.base = m.base /\ k.count = m.count
        BY <3>2, <3>4
      <3>6. \A j \in Indices(m.count) : a.parts[j] # Nothing => m.base + j <= t
        BY <1>1, <3>4, <3>5, SMTT(30) DEF Indices, CountersOK, Positive
      <3> QED BY <3>1, <3>2, <3>4, <3>5, <3>6
    <2>2. CASE ~Found(m).active
      <3>1. a = Started(m)
        BY <2>2
      <3>2. [j \in Indices(m.count) |-> Nothing] \in [Indices(m.count) -> {Nothing, m.base}]
        OBVIOUS
      <3>3. [j \in Indices(m.count) |-> Nothing] \in Parts
        BY <1>1 DEF Parts, Nothing, Positive
      <3>4. Started(m) \in Entry
        BY <1>1, <3>3 DEF Started, Entry, Positive
      <3>5. /\ Started(m).there /\ Started(m).base = m.base /\ Started(m).count = m.count
            /\ Started(m).parts = [j \in Indices(m.count) |-> Nothing]
        BY DEF Started
      <3>6. \A j \in Indices(m.count) : Started(m).parts[j] = Nothing
        BY <3>5
      <3> QED BY <3>1, <3>2, <3>4, <3>5, <3>6
    <2> QED BY <2>1, <2>2, SMTT(30)
  <1>4. Stored(m, i) = IF a.parts[i] = Nothing THEN [a EXCEPT !.parts[i] = m.base] ELSE a
    BY DEF Stored
  <1> HIDE DEF a
  <1>5. CASE a.parts[i] # Nothing
    <2>1. Stored(m, i) = a
      BY <1>4, <1>5
    <2> QED BY <1>3, <2>1 DEF HoldsPart
  <1>6. CASE a.parts[i] = Nothing
    <2> DEFINE p == [a.parts EXCEPT ![i] = m.base]
    <2>1. Stored(m, i) = [a EXCEPT !.parts = p]
      BY <1>3, <1>4, <1>6 DEF Entry
    <2>2. p \in [Indices(m.count) -> {Nothing, m.base}]
      BY <1>3
    <2>3. \A j \in Indices(m.count) : p[j] # Nothing => m.base + j <= t
      BY <1>3
    <2>4. p \in [Indices(m.count) -> Nat]
      BY <1>1, <2>2 DEF Nothing, Positive
    <2>5. p \in Parts
      BY <1>1, <2>4 DEF Parts, Positive
    <2> HIDE DEF p
    <2>6. /\ Stored(m, i) \in Entry /\ Stored(m, i).there /\ Stored(m, i).base = m.base
          /\ Stored(m, i).count = m.count /\ Stored(m, i).parts = p
      BY <1>3, <2>1, <2>5 DEF Entry
    <2> QED BY <2>2, <2>3, <2>6 DEF HoldsPart
  <1> QED BY <1>5, <1>6

-----------------------------------------------------------------------------
(* The invariant.                                                          *)

LEMMA InitFrag == Init => FragInv
PROOF
  <1> SUFFICES ASSUME Init PROVE FragInv
    OBVIOUS
  <1>1. SenderOK
    BY DEF Init, SenderOK, Positive
  <1>2. CountersOK
    BY DEF Init, CountersOK
  <1>3. TableOK /\ HandedOK
    BY NoEntryTypes DEF Init, TableOK, HandedOK
  <1> QED BY <1>1, <1>2, <1>3 DEF FragInv

\* Nothing but the fragment's entity is touched.
LEMMA ArrivalKeepsTable ==
    ASSUME FragInv, NEW m \in sent, NEW i \in Indices(m.count), Arrives(m, i)
    PROVE  TableOK' /\ lastSeen' \in Nat /\ lastSeen <= lastSeen'
PROOF
  <1>1. m.base \in Positive /\ m.count \in Positive /\ m.entity \in Entities /\ i \in Nat
    BY DEF FragInv, SenderOK, Messages, Indices, Positive
  <1>2. lastSeen \in Nat /\ sent' = sent
    BY DEF FragInv, CountersOK, Arrives, FragmentRefused, FragmentStored, MessageComplete
  <1>3. lastSeen' \in Nat /\ lastSeen <= lastSeen'
    BY <1>1, <1>2 DEF Arrives, FragmentRefused, FragmentStored, MessageComplete, Seen, Positive
  <1>4. PICK x \in Entry :
            /\ table' = [table EXCEPT ![m.entity] = x]
            /\ x.active => x.there /\ HoldsPart(sent, m.entity, x, lastSeen')
    <2>1. CASE FragmentRefused(m, i)
      <3>1. Found(m) \in Entry /\ ~Found(m).active
        BY <1>1, <2>1, NoEntryTypes DEF FragmentRefused, Found, FragInv, TableOK
      <3> QED BY <2>1, <3>1 DEF FragmentRefused
    <2>2. CASE FragmentStored(m, i)
      <3>1. Accepted(m, i) /\ Fits(m) /\ m.base + i <= lastSeen'
        BY <1>1, <1>2, <2>2 DEF FragmentStored, Seen, Positive
      <3>2. Stored(m, i) \in Entry /\ Stored(m, i).there /\ HoldsPart(sent, m.entity, Stored(m, i), lastSeen')
        BY <1>3, <3>1, StoredHolds DEF FragInv
      <3> QED BY <2>2, <3>2 DEF FragmentStored
    <2>3. CASE MessageComplete(m, i)
      BY <2>3, NoEntryTypes DEF MessageComplete
    <2> QED BY <2>1, <2>2, <2>3 DEF Arrives
  <1>5. table' \in [Entities -> Entry]
    BY <1>4 DEF FragInv, TableOK
  <1>6. ASSUME NEW e \in Entities, table'[e].active
        PROVE  table'[e].there /\ HoldsPart(sent, e, table'[e], lastSeen')
    <2>1. CASE e = m.entity
      <3>1. table'[e] = x /\ x.there /\ HoldsPart(sent, e, x, lastSeen')
        BY <1>1, <1>4, <1>6, <2>1 DEF FragInv, TableOK
      <3> QED BY <2>1, <3>1
    <2>2. CASE e # m.entity
      <3>1. table'[e] = table[e]
        BY <1>4, <2>2 DEF FragInv, TableOK
      <3>2. table[e].there /\ HoldsPart(sent, e, table[e], lastSeen)
        BY <1>6, <3>1 DEF FragInv, TableOK
      <3>3. HoldsPart(sent, e, table[e], lastSeen')
        BY <1>2, <1>3, <3>2, HoldsPartMonotone DEF FragInv
      <3> QED BY <3>1, <3>2, <3>3
    <2> QED BY <2>1, <2>2
  <1> QED BY <1>2, <1>3, <1>5, <1>6 DEF TableOK

\* What is handed up is whole and not older than what the entity has.
LEMMA CompletedIsNewest ==
    ASSUME FragInv, NEW m \in sent, NEW i \in Indices(m.count), MessageComplete(m, i),
           kind # "STATE", handed[m.entity].there
    PROVE  m.base > handed[m.entity].base
PROOF
  <1> DEFINE h == handed[m.entity]
  <1>1. m \in Messages /\ m.entity \in Entities /\ i \in Nat /\ i < m.count
    BY DEF FragInv, SenderOK, Messages, Indices, Positive
  <1>2. IsNew(m, i)
    BY DEF MessageComplete, Accepted
  <1>3. HoldsPart(sent, m.entity, h, lastSeen) /\ Complete(h) /\ h.base <= done[m.entity]
    BY <1>1 DEF FragInv, HandedOK
  <1>4. PICK k \in sent :
            /\ k.base = h.base /\ k.count = h.count
            /\ \A j \in Indices(k.count) : h.parts[j] # Nothing => k.base + j <= lastSeen
    BY <1>3 DEF HoldsPart
  <1>5. k \in Messages /\ k.base \in Nat /\ k.count \in Nat \ {0}
    BY DEF FragInv, SenderOK, Messages, Positive
  <1>6. CASE kind = "SCHEMA"
    <2>1. k.count - 1 \in Indices(k.count)
      BY <1>5 DEF Indices
    <2>2. k.base + (k.count - 1) <= lastSeen
      BY <1>3, <1>4, <2>1 DEF Complete
    <2>3. m.base + i > lastSeen
      BY <1>2, <1>6 DEF IsNew
    <2>4. m = k \/ m.base + m.count <= k.base \/ k.base + k.count <= m.base
      BY DEF FragInv, SenderOK
    <2>5. m.base \in Nat /\ m.count \in Nat \ {0} /\ lastSeen \in Nat
      BY <1>1 DEF Messages, Positive, FragInv, CountersOK
    <2>6. m.base > k.base
      BY <1>1, <1>5, <2>2, <2>3, <2>4, <2>5
    <2> QED BY <1>4, <2>6
  <1>7. CASE kind # "SCHEMA"
    <2>1. m.base > done[m.entity]
      BY <1>2, <1>7 DEF IsNew
    <2>2. m.base \in Nat /\ h.base \in Nat /\ done[m.entity] \in Nat
      BY <1>1, <1>4, <1>5 DEF Messages, Positive, FragInv, CountersOK
    <2> QED BY <1>3, <2>1, <2>2
  <1> QED BY <1>6, <1>7

LEMMA ArrivalKeepsInv ==
    ASSUME FragInv, NEW m \in sent, NEW i \in Indices(m.count), Arrives(m, i)
    PROVE  FragInv'
PROOF
  <1>1. m.base \in Positive /\ m.entity \in Entities /\ i \in Nat
    BY DEF FragInv, SenderOK, Messages, Indices, Positive
  <1>2. TableOK' /\ lastSeen' \in Nat /\ lastSeen <= lastSeen'
    BY ArrivalKeepsTable
  <1>3. UNCHANGED <<kind, tx, sent>>
    BY DEF Arrives, FragmentRefused, FragmentStored, MessageComplete
  <1>4. SenderOK'
    BY <1>3 DEF FragInv, SenderOK
  <1>5. lastSeen \in Nat
    BY DEF FragInv, CountersOK
  <1>6. CASE FragmentRefused(m, i) \/ FragmentStored(m, i)
    <2>1. UNCHANGED <<done, unconfirmed, handed>>
      BY <1>6 DEF FragmentRefused, FragmentStored
    <2>2. CountersOK'
      BY <1>2, <1>3, <2>1 DEF FragInv, CountersOK
    <2>3. ASSUME NEW e \in Entities, handed[e].there
          PROVE  HoldsPart(sent, e, handed[e], lastSeen')
      BY <1>2, <1>5, <2>3, HoldsPartMonotone DEF FragInv, HandedOK
    <2>4. HandedOK'
      BY <1>3, <2>1, <2>3 DEF FragInv, HandedOK
    <2> QED BY <1>2, <1>4, <2>2, <2>4 DEF FragInv
  <1>7. CASE MessageComplete(m, i)
    <2> DEFINE a == Stored(m, i)
    <2>1. Accepted(m, i) /\ Fits(m) /\ Complete(a) /\ m.base + i <= lastSeen'
      BY <1>1, <1>5, <1>7 DEF MessageComplete, Seen, Positive
    <2>2. a \in Entry /\ a.there /\ a.base = m.base /\ HoldsPart(sent, m.entity, a, lastSeen')
      BY <1>2, <2>1, StoredHolds DEF FragInv
    <2>3. /\ handed' = [handed EXCEPT ![m.entity] = a]
          /\ \/ done' = Finished(m.base, m.entity) /\ UNCHANGED unconfirmed
             \/ kind = "STATE" /\ unconfirmed' = unconfirmed \cup {m.base} /\ UNCHANGED done
      BY <1>7, <2>2 DEF MessageComplete
    <2> HIDE DEF a
    <2>4. CountersOK'
      BY <1>1, <1>2, <1>3, <2>3 DEF FragInv, CountersOK, Finished, Positive
    <2>5. ASSUME NEW e \in Entities, handed'[e].there
          PROVE  /\ HoldsPart(sent, e, handed'[e], lastSeen') /\ Complete(handed'[e])
                 /\ kind # "STATE" => handed'[e].base <= done'[e]
      <3>1. CASE e = m.entity
        <4>1. handed'[e] = a
          BY <2>3, <3>1 DEF FragInv, HandedOK
        <4>2. kind # "STATE" => done'[e] = m.base
          BY <2>3, <3>1 DEF Finished, FragInv, CountersOK
        <4> QED BY <1>1, <2>1, <2>2, <3>1, <4>1, <4>2 DEF Positive
      <3>2. CASE e # m.entity
        <4>1. handed'[e] = handed[e]
          BY <2>3, <3>2 DEF FragInv, HandedOK
        <4>2. kind # "STATE" => done'[e] = done[e]
          BY <2>3, <3>2 DEF Finished, FragInv, CountersOK
        <4>3. /\ HoldsPart(sent, e, handed[e], lastSeen) /\ Complete(handed[e])
              /\ kind # "STATE" => handed[e].base <= done[e]
          BY <2>5, <4>1 DEF FragInv, HandedOK
        <4>4. HoldsPart(sent, e, handed[e], lastSeen')
          BY <1>2, <1>5, <4>3, HoldsPartMonotone DEF FragInv
        <4> QED BY <4>1, <4>2, <4>3, <4>4
      <3> QED BY <3>1, <3>2
    <2>6. handed' \in [Entities -> Entry]
      BY <2>2, <2>3 DEF FragInv, HandedOK
    <2>7. ASSUME NEW e \in Entities, ~handed'[e].there
          PROVE  handed'[e].base = 0
      BY <2>2, <2>3, <2>7 DEF FragInv, HandedOK
    <2>8. HandedOK'
      BY <1>3, <2>5, <2>6, <2>7 DEF HandedOK
    <2> QED BY <1>2, <1>4, <2>4, <2>8 DEF FragInv
  <1> QED BY <1>6, <1>7 DEF Arrives

LEMMA StepFrag == FragInv /\ [Next]_fragVars => FragInv'
PROOF
  <1> SUFFICES ASSUME FragInv, [Next]_fragVars PROVE FragInv'
    OBVIOUS
  <1>1. CASE UNCHANGED fragVars
    BY <1>1 DEF fragVars, FragInv, SenderOK, CountersOK, TableOK, HandedOK
  <1>2. ASSUME NEW e \in Entities, NEW n \in 1 .. MaxFragments, SendMessage(e, n)
        PROVE  FragInv'
    <2>1. SenderOK'
      BY <1>2, SendKeepsSender DEF FragInv
    <2>2. UNCHANGED <<kind, table, done, lastSeen, unconfirmed, handed>> /\ sent \subseteq sent'
      BY <1>2 DEF SendMessage
    <2>3. \A x, a : HoldsPart(sent, x, a, lastSeen) => HoldsPart(sent', x, a, lastSeen)
      BY <2>2 DEF HoldsPart
    <2> QED BY <2>1, <2>2, <2>3 DEF FragInv, CountersOK, TableOK, HandedOK
  <1>3. ASSUME NEW m \in sent, NEW i \in Indices(m.count), Arrives(m, i)
        PROVE  FragInv'
    BY <1>3, ArrivalKeepsInv
  <1>4. ASSUME NEW b \in unconfirmed, Confirmed(b)
        PROVE  FragInv'
    <2>1. kind = "STATE" /\ b \in Nat
      BY DEF FragInv, CountersOK
    <2>2. /\ done' = done \/ done' = [x \in Entities |-> b]
          /\ unconfirmed' \subseteq unconfirmed
          /\ UNCHANGED <<kind, tx, sent, table, lastSeen, handed>>
      BY <1>4 DEF Confirmed
    <2>3. CountersOK'
      BY <2>1, <2>2 DEF FragInv, CountersOK
    <2> QED BY <2>1, <2>2, <2>3 DEF FragInv, SenderOK, TableOK, HandedOK
  <1>5. ASSUME NEW e \in Entities, Expire(e)
        PROVE  FragInv'
    <2>1. table' = [table EXCEPT ![e] = NoEntry]
      BY <1>5 DEF Expire
    <2>2. UNCHANGED <<kind, tx, sent, done, lastSeen, unconfirmed, handed>>
      BY <1>5 DEF Expire
    <2>3. TableOK'
      BY <2>1, <2>2, NoEntryTypes DEF FragInv, TableOK
    <2> QED BY <2>2, <2>3 DEF FragInv, SenderOK, CountersOK, HandedOK
  <1>6. CASE StateSyncTimeout
    <2>1. TableOK'
      BY <1>6, NoEntryTypes DEF StateSyncTimeout, TableOK
    <2> QED BY <1>6, <2>1
            DEF StateSyncTimeout, FragInv, SenderOK, CountersOK, HandedOK
  <1>7. CASE NewSession
    <2>1. SenderOK'
      BY <1>7 DEF NewSession, FragInv, SenderOK, Positive
    <2>2. CountersOK'
      BY <1>7 DEF NewSession, FragInv, CountersOK
    <2>3. TableOK' /\ HandedOK'
      BY <1>7, NoEntryTypes DEF NewSession, TableOK, HandedOK
    <2> QED BY <2>1, <2>2, <2>3 DEF FragInv
  <1> QED BY <1>1, <1>2, <1>3, <1>4, <1>5, <1>6, <1>7 DEF Next

\* What is handed up has the bytes of one message and all of them.
LEMMA InvIsWhole == FragInv => WholeMessages
PROOF
  <1> SUFFICES ASSUME FragInv, NEW e \in Entities, handed[e].there
               PROVE  \E m \in sent :
                         /\ m.entity = e /\ m.count = handed[e].count
                         /\ handed[e].parts = [i \in Indices(m.count) |-> m.base]
    BY DEF WholeMessages
  <1>1. HoldsPart(sent, e, handed[e], lastSeen) /\ Complete(handed[e])
    BY DEF FragInv, HandedOK
  <1>2. PICK m \in sent :
            /\ m.entity = e /\ m.count = handed[e].count
            /\ handed[e].parts \in [Indices(m.count) -> {Nothing, m.base}]
    BY <1>1 DEF HoldsPart
  <1>3. \A i \in Indices(m.count) : handed[e].parts[i] = m.base
    BY <1>1, <1>2 DEF Complete
  <1>4. handed[e].parts = [i \in Indices(m.count) |-> m.base]
    BY <1>2, <1>3
  <1> QED BY <1>2, <1>4

-----------------------------------------------------------------------------
(* SumFunctionOnSet: the recursion of MapThenFoldSet has a solution, by    *)
(* least counterexample in the number of elements, and what it adds up     *)
(* does not depend on the order CHOOSE takes.                              *)

First(s) == CHOOSE x \in s : TRUE

\* g sums f over each subset of S, by the recursion of MapThenFoldSet.
Sums(f, S, g) ==
    g = [s \in SUBSET S |-> IF s = {} THEN 0 ELSE f[First(s)] + g[s \ {First(s)}]]

LEMMA SumIsFold ==
    ASSUME NEW f, NEW S
    PROVE  SumFunctionOnSet(f, S) = (CHOOSE g : Sums(f, S, g))[S]
PROOF
  <1> QED BY DEF SumFunctionOnSet, FoldFunctionOnSet, MapThenFoldSet, Sums, First

LEMMA LeastNat ==
    ASSUME NEW T \in SUBSET Nat, T # {}
    PROVE  \E x \in T : \A y \in T : x <= y
PROOF
  <1> DEFINE Lower == {p \in Nat \X Nat : p[1] < p[2]}
  <1>1. Lower = OpToRel(<, Nat)
    BY Zenon DEF OpToRel
  <1>2. IsWellFoundedOn(Lower, Nat)
    BY <1>1, NatLessThanWellFounded
  <1> HIDE DEF Lower
  <1>3. PICK x \in T : \A y \in T : <<y, x>> \notin Lower
    BY <1>2, WFMin
  <1>4. ASSUME NEW y \in T PROVE x <= y
    <2>1. x \in Nat /\ y \in Nat /\ <<y, x>> \notin Lower
      BY <1>3
    <2>2. ~(y < x)
      BY <2>1 DEF Lower
    <2> QED BY <2>1, <2>2
  <1> QED BY <1>3, <1>4

LEMMA FirstOfSet ==
    ASSUME NEW s, s # {}
    PROVE  First(s) \in s
PROOF
  <1> QED BY DEF First

\* Up to a number of elements, by adding one level at a time.
LEMMA SumsExist ==
    ASSUME NEW f, NEW S, IsFiniteSet(S)
    PROVE  \E g : Sums(f, S, g)
PROOF
  <1> DEFINE D(n) == {s \in SUBSET S : Cardinality(s) <= n}
             Eq(n, g) == g = [s \in D(n) |-> IF s = {} THEN 0
                                             ELSE f[First(s)] + g[s \ {First(s)}]]
             T == {n \in Nat : ~ \E g : Eq(n, g)}
  <1>1. \A s \in SUBSET S : IsFiniteSet(s) /\ Cardinality(s) \in Nat /\ Cardinality(s) <= Cardinality(S)
    BY FS_Subset, FS_CardinalityType
  <1>2. \A n \in Nat : \A s \in D(n) : s # {} =>
            /\ s \ {First(s)} \in SUBSET S
            /\ Cardinality(s \ {First(s)}) = Cardinality(s) - 1
    BY <1>1, FirstOfSet, FS_RemoveElement
  <1>3. T = {}
    <2> SUFFICES ASSUME T # {} PROVE FALSE
      OBVIOUS
    <2>1. PICK n \in T : \A k \in T : n <= k
      BY LeastNat
    <2>2. CASE n = 0
      <3> DEFINE g == [s \in D(0) |-> 0]
      <3>1. \A s \in D(0) : s = {}
        BY <1>1, FS_EmptySet
      <3>2. Eq(0, g)
        BY <3>1
      <3> QED BY <2>1, <2>2, <3>2
    <2>3. CASE n # 0
      <3>0. n \in Nat /\ n - 1 \in Nat
        BY <2>3
      <3>1. n - 1 \notin T
        <4>1. ~(n <= n - 1)
          BY <3>0
        <4> HIDE DEF T
        <4> QED BY <2>1, <4>1
      <3>2. PICK g : Eq(n - 1, g)
        BY <3>0, <3>1
      <3> DEFINE h == [s \in D(n) |-> IF s = {} THEN 0
                                      ELSE f[First(s)] + g[s \ {First(s)}]]
      <3>3. ASSUME NEW s \in D(n), s # {}
            PROVE  h[s \ {First(s)}] = g[s \ {First(s)}]
        <4>1. s \ {First(s)} \in D(n - 1)
          BY <1>1, <1>2, <3>0, <3>3
        <4> DEFINE t == s \ {First(s)}
        <4> HIDE DEF t
        <4>2. t \in D(n - 1) /\ t \in D(n)
          BY <1>1, <3>0, <4>1 DEF t
        <4>3. g[t] = IF t = {} THEN 0 ELSE f[First(t)] + g[t \ {First(t)}]
          <5> HIDE DEF D
          <5> QED BY <3>2, <4>2
        <4>4. h[t] = IF t = {} THEN 0 ELSE f[First(t)] + g[t \ {First(t)}]
          <5> HIDE DEF D
          <5> QED BY <4>2
        <4> QED BY <4>3, <4>4 DEF t
      <3>4. Eq(n, h)
        <4> HIDE DEF D
        <4>1. \A s \in D(n) : (IF s = {} THEN 0 ELSE f[First(s)] + g[s \ {First(s)}])
                            = (IF s = {} THEN 0 ELSE f[First(s)] + h[s \ {First(s)}])
          BY <3>3
        <4> QED BY <4>1
      <3>5. \E q : Eq(n, q)
        <4> HIDE DEF h
        <4> QED BY <3>4
      <3> QED BY <2>1, <3>5
    <2> QED BY <2>2, <2>3
  <1>4. Cardinality(S) \in Nat /\ D(Cardinality(S)) = SUBSET S
    BY <1>1, FS_CardinalityType
  <1>5. PICK g : Eq(Cardinality(S), g)
    BY <1>3, <1>4
  <1>6. Sums(f, S, g)
    BY <1>4, <1>5 DEF Sums
  <1> QED BY <1>6

\* The sum depends on the values at the elements of the set only.
LEMMA SumsAgree ==
    ASSUME NEW S, NEW T, IsFiniteSet(S), NEW f1, NEW f2, NEW g1, NEW g2,
           Sums(f1, S, g1), Sums(f2, T, g2)
    PROVE  \A U \in SUBSET S : U \subseteq T /\ (\A x \in U : f1[x] = f2[x]) => g1[U] = g2[U]
PROOF
  <1> SUFFICES ASSUME NEW U \in SUBSET S, U \subseteq T, \A x \in U : f1[x] = f2[x]
               PROVE  g1[U] = g2[U]
    OBVIOUS
  <1> DEFINE B == {n \in Nat : \E s \in SUBSET U : Cardinality(s) = n /\ g1[s] # g2[s]}
  <1>1. \A s \in SUBSET U : IsFiniteSet(s) /\ Cardinality(s) \in Nat
    BY FS_Subset, FS_CardinalityType
  <1>2. B = {}
    <2> SUFFICES ASSUME B # {} PROVE FALSE
      OBVIOUS
    <2>1. PICK n \in B : \A k \in B : n <= k
      BY LeastNat
    <2>2. PICK s \in SUBSET U : Cardinality(s) = n /\ g1[s] # g2[s]
      BY <2>1
    <2>3. /\ g1[s] = IF s = {} THEN 0 ELSE f1[First(s)] + g1[s \ {First(s)}]
          /\ g2[s] = IF s = {} THEN 0 ELSE f2[First(s)] + g2[s \ {First(s)}]
      BY DEF Sums
    <2>4. s # {} /\ First(s) \in s
      BY <2>2, <2>3, FirstOfSet
    <2> DEFINE t == s \ {First(s)}
    <2>5. t \in SUBSET U /\ Cardinality(t) < n
      <3>1. Cardinality(t) = Cardinality(s) - 1
        BY <1>1, <2>4, FS_RemoveElement
      <3> QED BY <1>1, <2>2, <3>1
    <2>6. g1[t] = g2[t]
      <3> HIDE DEF t
      <3>1. Cardinality(t) \in Nat /\ n \in Nat /\ ~(n <= Cardinality(t))
        BY <1>1, <2>5
      <3>2. Cardinality(t) \notin B
        <4> HIDE DEF B
        <4> QED BY <2>1, <3>1
      <3> QED BY <2>5, <3>1, <3>2
    <2> QED BY <2>2, <2>3, <2>4, <2>6
  <1> QED BY <1>1, <1>2

LEMMA SumsOf ==
    ASSUME NEW S, IsFiniteSet(S), NEW f
    PROVE  \E g : Sums(f, S, g) /\ \A U \in SUBSET S : SumFunctionOnSet(f, U) = g[U]
PROOF
  <1>1. PICK g : Sums(f, S, g)
    BY SumsExist
  <1>2. ASSUME NEW U \in SUBSET S
        PROVE  SumFunctionOnSet(f, U) = g[U]
    <2>1. IsFiniteSet(U)
      BY FS_Subset
    <2>2. Sums(f, U, CHOOSE h : Sums(f, U, h))
      BY <2>1, SumsExist
    <2>3. (CHOOSE h : Sums(f, U, h))[U] = g[U]
      BY <1>1, <2>1, <2>2, SumsAgree, SMTT(30)
    <2> QED BY <2>3, SumIsFold
  <1> QED BY <1>1, <1>2

LEMMA SumOfSame ==
    ASSUME NEW S, IsFiniteSet(S), NEW f1, NEW f2, \A x \in S : f1[x] = f2[x]
    PROVE  SumFunctionOnSet(f1, S) = SumFunctionOnSet(f2, S)
PROOF
  <1>1. PICK g1 : Sums(f1, S, g1) /\ SumFunctionOnSet(f1, S) = g1[S]
    BY SumsOf
  <1>2. PICK g2 : Sums(f2, S, g2) /\ SumFunctionOnSet(f2, S) = g2[S]
    BY SumsOf
  <1>3. Sums(f1, S, g1) /\ Sums(f2, S, g2) /\ S \subseteq S
    BY <1>1, <1>2
  <1>4. g1[S] = g2[S]
    <2>1. \A U \in SUBSET S : U \subseteq S /\ (\A x \in U : f1[x] = f2[x]) => g1[U] = g2[U]
      BY <1>3, SumsAgree
    <2> QED BY <2>1
  <1> QED BY <1>1, <1>2, <1>4

LEMMA SumOfNone ==
    ASSUME NEW f
    PROVE  SumFunctionOnSet(f, {}) = 0
PROOF
  <1>1. PICK g : Sums(f, {}, g) /\ SumFunctionOnSet(f, {}) = g[{}]
    BY SumsOf, FS_EmptySet
  <1> QED BY <1>1 DEF Sums

\* Any element can be taken first.
LEMMA SumTakesOut ==
    ASSUME NEW S, IsFiniteSet(S), NEW f, \A x \in S : f[x] \in Nat, NEW y \in S
    PROVE  /\ SumFunctionOnSet(f, S \ {y}) \in Nat
           /\ SumFunctionOnSet(f, S) = f[y] + SumFunctionOnSet(f, S \ {y})
PROOF
  <1>1. PICK g : Sums(f, S, g) /\ \A U \in SUBSET S : SumFunctionOnSet(f, U) = g[U]
    BY SumsOf
  <1> DEFINE Good(s) == g[s] \in Nat /\ \A x \in s : g[s] = f[x] + g[s \ {x}]
             B == {n \in Nat : \E s \in SUBSET S : Cardinality(s) = n /\ ~Good(s)}
  <1>2. \A s \in SUBSET S : IsFiniteSet(s) /\ Cardinality(s) \in Nat
    BY FS_Subset, FS_CardinalityType
  <1>3. B = {}
    <2> SUFFICES ASSUME B # {} PROVE FALSE
      OBVIOUS
    <2>1. PICK n \in B : \A k \in B : n <= k
      BY LeastNat
    <2>2. PICK s \in SUBSET S : Cardinality(s) = n /\ ~Good(s)
      BY <2>1
    <2>3. \A t \in SUBSET S : t # {} => g[t] = f[First(t)] + g[t \ {First(t)}]
      BY <1>1 DEF Sums
    <2>4. g[{}] = 0
      BY <1>1 DEF Sums
    <2>5. s # {}
      BY <2>2, <2>4
    <2> DEFINE a == First(s)
    <2>6. a \in s /\ g[s] = f[a] + g[s \ {a}] /\ f[a] \in Nat
      BY <2>3, <2>5, FirstOfSet
    <2> HIDE DEF a
    <2>7. \A t \in SUBSET S : Cardinality(t) < n => Good(t)
      <3> SUFFICES ASSUME NEW t \in SUBSET S, Cardinality(t) < n PROVE Good(t)
        OBVIOUS
      <3>1. Cardinality(t) \in Nat /\ n \in Nat /\ ~(n <= Cardinality(t))
        BY <1>2
      <3>2. Cardinality(t) \notin B
        <4> HIDE DEF B
        <4> QED BY <2>1, <3>1
      <3> QED BY <3>1, <3>2
    <2>8. ASSUME NEW x \in s
          PROVE  Good(s \ {x}) /\ Cardinality(s \ {x}) < n
      <3>1. Cardinality(s \ {x}) = Cardinality(s) - 1
        BY <1>2, FS_RemoveElement
      <3>2. s \ {x} \in SUBSET S /\ Cardinality(s \ {x}) < n
        BY <1>2, <2>2, <3>1
      <3> QED BY <2>7, <3>2
    <2>9. g[s \ {a}] \in Nat /\ g[s] \in Nat
      <3>1. g[s \ {a}] \in Nat
        BY <2>6, <2>8
      <3> QED BY <2>6, <3>1
    <2>10. ASSUME NEW x \in s, x # a
           PROVE  g[s] = f[x] + g[s \ {x}]
      <3> DEFINE w == (s \ {a}) \ {x}
      <3>1. a \in s \ {x} /\ x \in s \ {a} /\ (s \ {x}) \ {a} = w
        BY <2>6, <2>10
      <3>2. g[s \ {x}] = f[a] + g[w]
        BY <2>8, <3>1
      <3>3. g[s \ {a}] = f[x] + g[w]
        BY <2>6, <2>8, <3>1
      <3>4. w \in SUBSET S /\ Cardinality(w) < n
        <4>1. w \in SUBSET (s \ {a}) /\ w \in SUBSET S
          OBVIOUS
        <4>2. IsFiniteSet(s \ {a}) /\ Cardinality(s \ {a}) \in Nat /\ Cardinality(s \ {a}) < n
          BY <1>2, <2>6, <2>8
        <4>3. Cardinality(w) <= Cardinality(s \ {a}) /\ Cardinality(w) \in Nat
          BY <1>2, <4>1, <4>2, FS_Subset
        <4> HIDE DEF w
        <4> QED BY <4>1, <4>2, <4>3
      <3>5. g[w] \in Nat /\ f[x] \in Nat
        BY <2>7, <3>4
      <3> HIDE DEF w
      <3>6. g[s] = f[a] + (f[x] + g[w])
        BY <2>6, <3>3
      <3> QED BY <2>6, <3>2, <3>5, <3>6
    <2> QED BY <2>2, <2>6, <2>9, <2>10
  <1>4. \A s \in SUBSET S : Good(s)
    BY <1>2, <1>3
  <1>5. Good(S) /\ Good(S \ {y})
    BY <1>4
  <1> QED BY <1>1, <1>5

\* No element counts for more than b.
LEMMA SumBound ==
    ASSUME NEW S, IsFiniteSet(S), NEW f, NEW b \in Nat, \A x \in S : f[x] \in 0..b
    PROVE  SumFunctionOnSet(f, S) \in Nat /\ SumFunctionOnSet(f, S) <= Cardinality(S) * b
PROOF
  <1> DEFINE Small(s) ==
               SumFunctionOnSet(f, s) \in Nat /\ SumFunctionOnSet(f, s) <= Cardinality(s) * b
             B == {n \in Nat : \E s \in SUBSET S : Cardinality(s) = n /\ ~Small(s)}
  <1>1. \A s \in SUBSET S : IsFiniteSet(s) /\ Cardinality(s) \in Nat
    BY FS_Subset, FS_CardinalityType
  <1>2. B = {}
    <2> SUFFICES ASSUME B # {} PROVE FALSE
      OBVIOUS
    <2>1. PICK n \in B : \A k \in B : n <= k
      BY LeastNat
    <2>2. PICK s \in SUBSET S : Cardinality(s) = n /\ ~Small(s)
      BY <2>1
    <2>3. s # {}
      <3>1. SumFunctionOnSet(f, {}) = 0 /\ Cardinality({}) = 0 /\ 0 * b = 0
        BY SumOfNone, FS_EmptySet
      <3>2. Small({})
        BY <3>1
      <3> QED BY <2>2, <3>2
    <2>4. PICK y \in s : TRUE
      BY <2>3
    <2> DEFINE t == s \ {y}
    <2>5. t \in SUBSET S /\ Cardinality(t) = n - 1 /\ n \in Nat /\ Cardinality(t) \in Nat
      BY <1>1, <2>2, FS_RemoveElement
    <2>6. /\ SumFunctionOnSet(f, t) \in Nat
          /\ SumFunctionOnSet(f, s) = f[y] + SumFunctionOnSet(f, t)
      <3>1. IsFiniteSet(s) /\ \A x \in s : f[x] \in Nat
        BY <1>1
      <3> QED BY <3>1, SumTakesOut
    <2> HIDE DEF t
    <2>7. Small(t)
      <3>1. ~(n <= Cardinality(t))
        BY <2>5
      <3>2. Cardinality(t) \notin B
        <4> HIDE DEF B
        <4> QED BY <2>1, <3>1
      <3> QED BY <2>5, <3>2
    <2>8. f[y] \in Nat /\ f[y] <= b
      OBVIOUS
    <2>9. SumFunctionOnSet(f, t) <= (n - 1) * b
      BY <2>5, <2>7
    <2>10. (n - 1) * b + b = n * b /\ (n - 1) * b \in Int /\ n * b \in Int
      BY <2>5
    <2>11. SumFunctionOnSet(f, s) \in Nat /\ SumFunctionOnSet(f, s) <= n * b
      BY <2>6, <2>8, <2>9, <2>10
    <2> QED BY <2>2, <2>11
  <1>3. Small(S)
    BY <1>1, <1>2
  <1> QED BY <1>3

-----------------------------------------------------------------------------
(* The bytes reserved.                                                     *)

\* What assemblies for the entities in es hold when the messages are those of
\* msgs.
LengthIn(msgs, e) == (CHOOSE m \in msgs : m.entity = e).count
Held(msgs, es) == SumFunctionOnSet([e \in Entities |-> LengthIn(msgs, e)], es)

\* One length to an entity.
SameLengthsIn(msgs) == \A m, n \in msgs : m.entity = n.entity => m.count = n.count
EachHasOne(msgs, es) == \A e \in es : \E m \in msgs : m.entity = e

HeldOK ==
    /\ Cardinality(Present) <= MaxPending
    /\ EachHasOne(sent, Present)
    /\ \A m \in sent : m.count <= MaxFragments
    /\ SameLengths => reserved = Held(sent, Present)

LEMMA PresentIsFinite ==
    ASSUME NEW es \in SUBSET Entities
    PROVE  IsFiniteSet(es) /\ Cardinality(es) \in Nat
PROOF
  <1> QED BY FragmentsAssumption, FS_Subset, FS_CardinalityType

LEMMA LengthIsCount ==
    ASSUME NEW msgs \in SUBSET Messages, SameLengthsIn(msgs),
           NEW m \in msgs
    PROVE  LengthIn(msgs, m.entity) = m.count
PROOF
  <1> DEFINE k == CHOOSE k \in msgs : k.entity = m.entity
  <1>1. k \in msgs /\ k.entity = m.entity
    OBVIOUS
  <1>2. k.count = m.count
    <2> HIDE DEF k
    <2> QED BY <1>1 DEF SameLengthsIn
  <1> QED BY <1>2 DEF LengthIn

\* The lengths of entities that were sent something are bounded numbers.
LEMMA LengthTypes ==
    ASSUME NEW msgs \in SUBSET Messages, SameLengthsIn(msgs),
           \A m \in msgs : m.count <= MaxFragments,
           NEW es \in SUBSET Entities, EachHasOne(msgs, es)
    PROVE  /\ \A e \in es : [x \in Entities |-> LengthIn(msgs, x)][e] \in 0..MaxFragments
           /\ \A e \in es : [x \in Entities |-> LengthIn(msgs, x)][e] \in Nat
PROOF
  <1> SUFFICES ASSUME NEW e \in es
               PROVE  LengthIn(msgs, e) \in Nat /\ LengthIn(msgs, e) <= MaxFragments
    BY FragmentsAssumption
  <1>1. PICK m \in msgs : m.entity = e
    BY DEF EachHasOne
  <1>2. LengthIn(msgs, e) = m.count
    BY <1>1, LengthIsCount
  <1> QED BY <1>2 DEF Messages, Positive

\* An assembly more or less, and no more than fits a size_t.
LEMMA HeldTakesOut ==
    ASSUME NEW msgs \in SUBSET Messages, SameLengthsIn(msgs),
           \A m \in msgs : m.count <= MaxFragments,
           NEW es \in SUBSET Entities, EachHasOne(msgs, es),
           NEW m \in msgs, m.entity \in es
    PROVE  /\ Held(msgs, es \ {m.entity}) \in Nat
           /\ Held(msgs, es) = m.count + Held(msgs, es \ {m.entity})
PROOF
  <1> DEFINE f == [x \in Entities |-> LengthIn(msgs, x)]
  <1>1. IsFiniteSet(es) /\ \A e \in es : f[e] \in Nat
    BY PresentIsFinite, LengthTypes
  <1>2. f[m.entity] = m.count
    BY LengthIsCount
  <1> HIDE DEF f
  <1>3. /\ SumFunctionOnSet(f, es \ {m.entity}) \in Nat
        /\ SumFunctionOnSet(f, es) = f[m.entity] + SumFunctionOnSet(f, es \ {m.entity})
    BY <1>1, SumTakesOut
  <1> QED BY <1>2, <1>3 DEF Held, f

LEMMA HeldFits ==
    ASSUME NEW msgs \in SUBSET Messages, SameLengthsIn(msgs),
           \A m \in msgs : m.count <= MaxFragments,
           NEW es \in SUBSET Entities, EachHasOne(msgs, es), Cardinality(es) <= MaxPending
    PROVE  Held(msgs, es) \in Nat /\ Held(msgs, es) < SizeRange
PROOF
  <1> DEFINE f == [x \in Entities |-> LengthIn(msgs, x)]
  <1>1. IsFiniteSet(es) /\ Cardinality(es) \in Nat /\ \A e \in es : f[e] \in 0..MaxFragments
    BY PresentIsFinite, LengthTypes
  <1>2. {MaxPending, MaxFragments, SizeRange} \subseteq Nat
    BY FragmentsAssumption
  <1> HIDE DEF f
  <1>3. SumFunctionOnSet(f, es) \in Nat /\ SumFunctionOnSet(f, es) <= Cardinality(es) * MaxFragments
    BY <1>1, <1>2, SumBound
  <1>4. Cardinality(es) * MaxFragments <= MaxPending * MaxFragments
    BY <1>1, <1>2
  <1>5. SumFunctionOnSet(f, es) < SizeRange
    BY <1>1, <1>2, <1>3, <1>4, SizesAssumption
  <1> QED BY <1>3, <1>5 DEF Held, f

LEMMA SizeTOfSmall ==
    ASSUME NEW n \in Nat, n < SizeRange
    PROVE  SizeT(n) = n
PROOF
  <1> QED BY FragmentsAssumption DEF SizeT

LEMMA InitHeld == Init => HeldOK
PROOF
  <1> SUFFICES ASSUME Init PROVE HeldOK
    OBVIOUS
  <1>1. Present = {} /\ reserved = 0 /\ sent = {}
    BY DEF Init, Present, NoEntry
  <1> QED BY <1>1, SumOfNone, FS_EmptySet, FragmentsAssumption DEF HeldOK, Held, EachHasOne

\* The entry the fragment goes to has its reserve, made now or before.
LEMMA EntryReserves ==
    ASSUME FragInv, HeldOK, NEW m \in sent, HasPlace(m)
    PROVE  LET es == Present \cup {m.entity}
           IN  /\ es \in SUBSET Entities /\ EachHasOne(sent, es) /\ Cardinality(es) <= MaxPending
               /\ SameLengths => ReservedFor(m) = Held(sent, es)
PROOF
  <1> DEFINE es == Present \cup {m.entity}
  <1>1. sent \in SUBSET Messages /\ m.entity \in Entities /\ m.count \in Nat
    BY DEF FragInv, SenderOK, Messages, Positive
  <1>2. Present \in SUBSET Entities /\ es \in SUBSET Entities
    BY <1>1 DEF Present
  <1>3. EachHasOne(sent, es)
    BY DEF HeldOK, EachHasOne
  <1>4. IsFiniteSet(Present) /\ Cardinality(Present) \in Nat
    BY <1>2, PresentIsFinite
  <1>5. Cardinality(es) <= MaxPending
    <2>1. Cardinality(es) = IF m.entity \in Present THEN Cardinality(Present)
                                                    ELSE Cardinality(Present) + 1
      BY <1>4, FS_AddElement
    <2>2. m.entity \notin Present => Cardinality(Present) < MaxPending
      BY <1>1 DEF HasPlace, Present
    <2>3. MaxPending \in Nat
      BY FragmentsAssumption
    <2> QED BY <1>4, <2>1, <2>2, <2>3 DEF HeldOK
  <1>6. ASSUME SameLengths
        PROVE  ReservedFor(m) = Held(sent, es)
    <2>1. SameLengthsIn(sent) /\ reserved = Held(sent, Present)
      BY <1>6 DEF SameLengths, SameLengthsIn, HeldOK
    <2>2. CASE table[m.entity].there
      <3>1. es = Present
        BY <1>1, <2>2 DEF Present
      <3> QED BY <2>1, <2>2, <3>1 DEF ReservedFor
    <2>3. CASE ~table[m.entity].there
      <3>1. es \ {m.entity} = Present
        BY <2>3 DEF Present
      <3>2. Held(sent, es \ {m.entity}) \in Nat /\ Held(sent, es) = m.count + Held(sent, es \ {m.entity})
        <4> HIDE DEF es
        <4>1. m.entity \in es
          BY DEF es
        <4> QED BY <1>1, <1>2, <1>3, <2>1, <4>1, HeldTakesOut DEF HeldOK
      <3>3. Held(sent, es) \in Nat /\ Held(sent, es) < SizeRange
        <4> HIDE DEF es
        <4> QED BY <1>1, <1>2, <1>3, <1>5, <2>1, HeldFits DEF HeldOK
      <3>4. reserved + m.count = Held(sent, es)
        BY <1>1, <2>1, <3>1, <3>2
      <3> QED BY <2>3, <3>3, <3>4, SizeTOfSmall DEF ReservedFor
    <2> QED BY <2>2, <2>3
  <1> QED BY <1>2, <1>3, <1>5, <1>6

\* Dropping an assembly gives back what it holds.
LEMMA EntryReleases ==
    ASSUME FragInv, HeldOK, NEW m \in sent, NEW es \in SUBSET Entities, m.entity \in es,
           EachHasOne(sent, es), Cardinality(es) <= MaxPending, SameLengths,
           NEW a, a.count = m.count
    PROVE  Released(Held(sent, es), a) = Held(sent, es \ {m.entity})
PROOF
  <1>1. sent \in SUBSET Messages /\ m.count \in Nat /\ SameLengthsIn(sent)
    BY DEF FragInv, SenderOK, Messages, Positive, SameLengths, SameLengthsIn
  <1>2. Held(sent, es \ {m.entity}) \in Nat /\ Held(sent, es) = m.count + Held(sent, es \ {m.entity})
    BY <1>1, HeldTakesOut DEF HeldOK
  <1>3. Held(sent, es) < SizeRange
    BY <1>1, HeldFits DEF HeldOK
  <1>4. /\ Held(sent, es) - m.count = Held(sent, es \ {m.entity})
        /\ Held(sent, es \ {m.entity}) < SizeRange
    BY <1>1, <1>2, <1>3, FragmentsAssumption
  <1> QED BY <1>2, <1>4, SizeTOfSmall DEF Released

\* A table with one entry less is within the same bounds.
LEMMA FewerFit ==
    ASSUME NEW es \in SUBSET Entities, EachHasOne(sent, es), Cardinality(es) <= MaxPending,
           NEW e
    PROVE  EachHasOne(sent, es \ {e}) /\ Cardinality(es \ {e}) <= MaxPending
PROOF
  <1>1. /\ IsFiniteSet(es) /\ Cardinality(es) \in Nat
        /\ Cardinality(es \ {e}) \in Nat /\ MaxPending \in Nat
    BY PresentIsFinite, FragmentsAssumption
  <1>2. Cardinality(es \ {e}) = IF e \in es THEN Cardinality(es) - 1 ELSE Cardinality(es)
    BY <1>1, FS_RemoveElement
  <1>3. Cardinality(es \ {e}) <= MaxPending
    BY <1>1, <1>2
  <1> QED BY <1>3 DEF EachHasOne

LEMMA ArrivalKeepsHeld ==
    ASSUME FragInv, HeldOK, NEW m \in sent, NEW i \in Indices(m.count), Arrives(m, i)
    PROVE  HeldOK'
PROOF
  <1> DEFINE es == Present \cup {m.entity}
  <1>1. sent' = sent /\ HasPlace(m) /\ (SameLengths' <=> SameLengths)
    BY DEF Arrives, FragmentRefused, FragmentStored, MessageComplete, Accepted, SameLengths
  <1>2. /\ es \in SUBSET Entities /\ EachHasOne(sent, es) /\ Cardinality(es) <= MaxPending
        /\ SameLengths => ReservedFor(m) = Held(sent, es)
    BY <1>1, EntryReserves
  <1>3. m.base \in Nat /\ i \in Nat /\ m.entity \in Entities /\ lastSeen \in Nat /\ table \in [Entities -> Entry]
    BY DEF FragInv, SenderOK, Messages, Positive, Indices, CountersOK, TableOK
  <1>4. CASE FragmentRefused(m, i) \/ FragmentStored(m, i)
    <2>1. PICK x : table' = [table EXCEPT ![m.entity] = x] /\ x.there
      <3>1. CASE FragmentRefused(m, i)
        <4>1. Found(m).there
          BY DEF Found, Emptied, NoEntry
        <4> QED BY <3>1, <4>1 DEF FragmentRefused
      <3>2. CASE FragmentStored(m, i)
        <4>1. Accepted(m, i) /\ Fits(m)
          BY <3>2 DEF FragmentStored
        <4>2. lastSeen + (m.base + i) \in Nat /\ lastSeen <= lastSeen + (m.base + i)
              /\ m.base + i <= lastSeen + (m.base + i)
          BY <1>3
        <4>3. Stored(m, i).there
          BY <4>1, <4>2, StoredHolds DEF FragInv
        <4> QED BY <3>2, <4>3 DEF FragmentStored
      <3> QED BY <1>4, <3>1, <3>2
    <2>2. Present' = es
      BY <1>3, <2>1 DEF Present
    <2>3. reserved' = ReservedFor(m)
      BY <1>4 DEF FragmentRefused, FragmentStored
    <2> HIDE DEF es
    <2> QED BY <1>1, <1>2, <2>2, <2>3 DEF HeldOK, EachHasOne, Held
  <1>5. CASE MessageComplete(m, i)
    <2>1. /\ table' = [table EXCEPT ![m.entity] = NoEntry]
          /\ reserved' = Released(ReservedFor(m), Stored(m, i))
          /\ Accepted(m, i) /\ Fits(m)
      BY <1>5 DEF MessageComplete
    <2>2. Present' = es \ {m.entity}
      BY <1>3, <2>1 DEF Present, NoEntry
    <2>3. Stored(m, i).count = m.count
      BY <2>1 DEF Stored, Fits, SameMessage, Started
    <2>4. EachHasOne(sent, es \ {m.entity}) /\ Cardinality(es \ {m.entity}) <= MaxPending
      BY <1>2, FewerFit
    <2>5. SameLengths => reserved' = Held(sent, es \ {m.entity})
      BY <1>2, <2>1, <2>3, EntryReleases
    <2> HIDE DEF es
    <2> QED BY <1>1, <2>2, <2>4, <2>5 DEF HeldOK, EachHasOne, Held
  <1> QED BY <1>4, <1>5 DEF Arrives

\* What was sent since does not change what the assemblies hold, unless it is
\* of another length.
LEMMA SendKeepsHeld ==
    ASSUME FragInv, HeldOK, NEW e \in Entities, NEW n \in 1 .. MaxFragments, SendMessage(e, n)
    PROVE  HeldOK'
PROOF
  <1>1. sent' = sent \cup {Message(tx, e, n)} /\ UNCHANGED <<table, reserved>>
    BY DEF SendMessage
  <1>2. n \in Positive /\ MaxFragments \in Nat /\ tx \in Positive /\ sent \in SUBSET Messages
    BY FragmentsAssumption DEF Positive, FragInv, SenderOK
  <1>3. Message(tx, e, n) \in Messages /\ Message(tx, e, n).count = n
    BY <1>2 DEF Message, Messages
  <1>4. Present' = Present /\ Present \in SUBSET Entities
    BY <1>1 DEF Present
  <1>5. \A m \in sent' : m.count <= MaxFragments
    BY <1>1, <1>3 DEF HeldOK
  <1>6. EachHasOne(sent', Present')
    BY <1>1, <1>4 DEF HeldOK, EachHasOne
  <1>7. ASSUME SameLengths'
        PROVE  reserved' = Held(sent', Present')
    <2>1. SameLengthsIn(sent') /\ SameLengthsIn(sent) /\ SameLengths
      BY <1>1, <1>7 DEF SameLengths, SameLengthsIn
    <2> DEFINE f == [x \in Entities |-> LengthIn(sent, x)]
               g == [x \in Entities |-> LengthIn(sent', x)]
    <2>2. ASSUME NEW x \in Present
          PROVE  f[x] = g[x]
      <3>1. PICK m \in sent : m.entity = x
        BY DEF HeldOK, EachHasOne
      <3>2. LengthIn(sent, m.entity) = m.count
        BY <1>2, <2>1, LengthIsCount
      <3>3. sent' \in SUBSET Messages /\ m \in sent'
        BY <1>1, <1>2, <1>3
      <3>4. LengthIn(sent', m.entity) = m.count
        BY <2>1, <3>3, LengthIsCount
      <3> QED BY <1>4, <3>1, <3>2, <3>4
    <2>3. IsFiniteSet(Present)
      BY <1>4, PresentIsFinite
    <2> HIDE DEF f, g
    <2>4. SumFunctionOnSet(f, Present) = SumFunctionOnSet(g, Present)
      BY <2>2, <2>3, SumOfSame
    <2>5. reserved = SumFunctionOnSet(f, Present)
      BY <2>1 DEF HeldOK, Held, f
    <2> QED BY <1>1, <1>4, <2>4, <2>5 DEF Held, g
  <1> QED BY <1>4, <1>5, <1>6, <1>7 DEF HeldOK

LEMMA EmptyIsHeld ==
    ASSUME \A e \in Entities : table'[e] = NoEntry, reserved' = 0,
           \A m \in sent' : m.count <= MaxFragments
    PROVE  HeldOK'
PROOF
  <1>1. Present' = {}
    BY DEF Present, NoEntry
  <1>2. Cardinality({}) = 0 /\ 0 <= MaxPending
    BY FS_EmptySet, FragmentsAssumption
  <1>3. Held(sent', {}) = 0
    BY SumOfNone DEF Held
  <1> QED BY <1>1, <1>2, <1>3 DEF HeldOK, EachHasOne

LEMMA StepHeld == FragInv /\ HeldOK /\ [Next]_fragVars => HeldOK'
PROOF
  <1> SUFFICES ASSUME FragInv, HeldOK, [Next]_fragVars PROVE HeldOK'
    OBVIOUS
  <1>1. CASE UNCHANGED <<sent, table, reserved>>
    <2>1. Present' = Present /\ (SameLengths' <=> SameLengths)
      BY <1>1 DEF Present, SameLengths
    <2> QED BY <1>1, <2>1 DEF HeldOK, EachHasOne, Held
  <1>2. ASSUME NEW e \in Entities, NEW n \in 1 .. MaxFragments, SendMessage(e, n)
        PROVE  HeldOK'
    BY <1>2, SendKeepsHeld
  <1>3. ASSUME NEW m \in sent, NEW i \in Indices(m.count), Arrives(m, i)
        PROVE  HeldOK'
    BY <1>3, ArrivalKeepsHeld
  <1>4. ASSUME NEW e \in Entities, Expire(e)
        PROVE  HeldOK'
    <2>1. /\ table' = [table EXCEPT ![e] = NoEntry] /\ sent' = sent
          /\ reserved' = Released(reserved, table[e]) /\ table[e].active
      BY <1>4 DEF Expire
    <2>2. table \in [Entities -> Entry] /\ table[e].there /\ HoldsPart(sent, e, table[e], lastSeen)
      BY <2>1 DEF FragInv, TableOK
    <2>3. PICK m \in sent : m.entity = e /\ m.count = table[e].count
      BY <2>2 DEF HoldsPart
    <2>4. Present' = Present \ {e} /\ e \in Present /\ Present \in SUBSET Entities
      BY <2>1, <2>2 DEF Present, NoEntry
    <2>5. EachHasOne(sent, Present \ {e}) /\ Cardinality(Present \ {e}) <= MaxPending
      BY <2>4, FewerFit DEF HeldOK
    <2>6. SameLengths => reserved' = Held(sent, Present \ {e})
      BY <2>1, <2>3, <2>4, EntryReleases DEF HeldOK
    <2>7. SameLengths' <=> SameLengths
      BY <2>1 DEF SameLengths
    <2> QED BY <2>1, <2>4, <2>5, <2>6, <2>7 DEF HeldOK, EachHasOne, Held
  <1>5. CASE StateSyncTimeout
    BY <1>5, EmptyIsHeld DEF StateSyncTimeout, HeldOK
  <1>6. CASE NewSession
    BY <1>6, EmptyIsHeld DEF NewSession
  <1>7. ASSUME NEW b \in unconfirmed, Confirmed(b)
        PROVE  HeldOK'
    BY <1>1, <1>7 DEF Confirmed
  <1>8. CASE UNCHANGED fragVars
    BY <1>1, <1>8 DEF fragVars
  <1> QED BY <1>2, <1>3, <1>4, <1>5, <1>6, <1>7, <1>8 DEF Next

LEMMA InvIsHeld == HeldOK => ReservedIsHeld
PROOF
  <1> QED BY DEF HeldOK, ReservedIsHeld, Held, LengthIn, LengthOf

-----------------------------------------------------------------------------
(* The theorems.                                                           *)

LEMMA FragmentsInvariant == Spec => []FragInv
PROOF
  <1> QED BY InitFrag, StepFrag, PTL DEF Spec

\* store_fragment_ and the tests before it let through only fragments of the
\* message the assembly was begun for.
THEOREM AssembledIsSent == Spec => []WholeMessages
PROOF
  <1> QED BY FragmentsInvariant, InvIsWhole, PTL

\* counter_is_newer, on the first counter of a command and on every counter of
\* a schema, keeps an older message from following a newer one.
THEOREM MessagesInOrder == Spec => NewestLast
PROOF
  <1> DEFINE Newer ==
        kind # "STATE" => \A e \in Entities :
            handed'[e] # handed[e] /\ handed'[e].there => handed'[e].base > handed[e].base
  <1>1. FragInv /\ FragInv' /\ [Next]_fragVars => [Newer]_fragVars
    <2> SUFFICES ASSUME FragInv, Next, kind # "STATE", NEW e \in Entities,
                        handed'[e] # handed[e], handed'[e].there
                 PROVE  handed'[e].base > handed[e].base
      BY DEF fragVars
    <2>1. PICK m \in sent : \E i \in Indices(m.count) : MessageComplete(m, i)
      <3>1. ~NewSession
        BY DEF NewSession, NoEntry
      <3> QED BY <3>1 DEF Next, SendMessage, Arrives, FragmentRefused, FragmentStored,
                          Confirmed, Expire, StateSyncTimeout
    <2>2. PICK i \in Indices(m.count) : MessageComplete(m, i)
      BY <2>1
    <2>3. /\ m.base \in Positive /\ m.entity \in Entities
          /\ m.base \in Nat /\ i \in Nat
      BY DEF FragInv, SenderOK, Messages, Indices, Positive
    <2>4. /\ handed' = [handed EXCEPT ![m.entity] = Stored(m, i)]
          /\ Accepted(m, i) /\ Fits(m)
      BY <2>2 DEF MessageComplete
    <2>5. lastSeen \in Nat /\ lastSeen <= lastSeen + m.base + i /\ m.base + i <= lastSeen + m.base + i
      BY <2>3 DEF FragInv, CountersOK
    <2>6. Stored(m, i).base = m.base
      BY <2>3, <2>4, <2>5, StoredHolds DEF FragInv
    <2>7. e = m.entity /\ handed'[e].base = m.base
      BY <2>4, <2>6 DEF FragInv, HandedOK
    <2>8. CASE handed[e].there
      BY <2>2, <2>7, <2>8, CompletedIsNewest
    <2>9. CASE ~handed[e].there
      <3>1. handed[e].base = 0
        BY <2>9 DEF FragInv, HandedOK
      <3> QED BY <2>3, <2>7, <3>1 DEF Positive
    <2> QED BY <2>8, <2>9
  <1> QED BY <1>1, FragmentsInvariant, PTL DEF NewestLast, Spec

\* The reserve and release of handle_state_, handle_command_,
\* handle_schema_push_ and clear_expired_fragment_assemblies_: whatever is lost,
\* repeated, refused or replaced, nothing stays reserved for no one.
THEOREM ReserveComesBack == Spec => []ReservedIsHeld
PROOF
  <1> QED BY FragmentsInvariant, InitHeld, StepHeld, InvIsHeld, PTL DEF Spec

=============================================================================
