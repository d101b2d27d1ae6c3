----------------------------- MODULE Fragments -----------------------------
(***************************************************************************)
(* Messages of more than one frame.  A STATE, COMMAND or SCHEMA_PUSH whose *)
(* value does not fit is cut into fragments, numbered by consecutive       *)
(* counters; handle_state_ and handle_schema_push_ of the bridge and       *)
(* handle_command_ of the leaf put it together again, one assembly per     *)
(* entity, within limits on assemblies and reserved bytes.                 *)
(*                                                                         *)
(* Bytes are counted in fragments of max_entity_fragment.  The radio is    *)
(* open: what was sent in the session arrives in any order, any number of  *)
(* times or never.                                                         *)
(***************************************************************************)
EXTENDS Integers, FiniteSets, FiniteSetsExt, Functions

CONSTANTS
    Entities,
    Kinds,          \* the handlers: a subset of {"STATE", "COMMAND", "SCHEMA"}
    MaxPending,     \* ESPNOW_MAX_PENDING_FRAGMENT_ASSEMBLIES
    MaxAssembly,    \* max_assembly_bytes
    MaxTotal,       \* max_total_fragment_bytes
    SizeRange,      \* values of a size_t
    MaxFragments,   \* bound: fragments of a message sent
    MaxTx           \* bound: counters used in a session

ASSUME FragmentsAssumption ==
    /\ IsFiniteSet(Entities)
    /\ Kinds \subseteq {"STATE", "COMMAND", "SCHEMA"}
    /\ {MaxPending, MaxAssembly, MaxTotal, SizeRange, MaxFragments, MaxTx} \subseteq Nat \ {0}

\* Eight assemblies of at most 255 fragments, and sizes of 32 bits.
ASSUME SizesAssumption == MaxPending * MaxFragments < SizeRange

VARIABLES
    kind,           \* the handler
    tx,             \* the sender's counter
    sent,           \* the messages of the session
    table,          \* pending_..._assemblies, by entity
    reserved,       \* ..._reserved_bytes_
    done,           \* last_completed_..._message_tx_base, by entity
    lastSeen,       \* last_seen_counter, as the schema handler uses it
    unconfirmed,    \* STATEs published and not confirmed yet
    handed          \* history: the message last handed up, by entity

fragVars == <<kind, tx, sent, table, reserved, done, lastSeen, unconfirmed, handed>>

Message(base, e, n) == [base |-> base, entity |-> e, count |-> n]
Indices(n) == 0 .. n - 1
Nothing == 0

\* espnow_fragment_assembly_t; part i is the message its bytes are from.
NoEntry == [there |-> FALSE, active |-> FALSE, base |-> 0, count |-> 0,
            parts |-> [i \in Indices(0) |-> Nothing]]

\* After reset_fragment_assembly_, and as an entry is made.
Emptied == [NoEntry EXCEPT !.there = TRUE]
Started(m) == [there |-> TRUE, active |-> TRUE, base |-> m.base, count |-> m.count,
               parts |-> [i \in Indices(m.count) |-> Nothing]]

Present == {e \in Entities : table[e].there}
SizeT(n) == n % SizeRange

Init ==
    /\ kind \in Kinds
    /\ tx = 1 /\ sent = {}
    /\ table = [e \in Entities |-> NoEntry] /\ reserved = 0
    /\ done = [e \in Entities |-> 0] /\ lastSeen = 0
    /\ unconfirmed = {}
    /\ handed = [e \in Entities |-> NoEntry]

-----------------------------------------------------------------------------
(* The sender.                                                             *)

\* send_state_, send_command_fragments_, send_schema_push_.
SendMessage(e, n) ==
    /\ tx + n <= MaxTx + 1
    /\ sent' = sent \cup {Message(tx, e, n)}
    /\ tx' = tx + n
    /\ UNCHANGED <<kind, table, reserved, done, lastSeen, unconfirmed, handed>>

-----------------------------------------------------------------------------
(* The receiver: fragment i of message m.                                  *)

\* Mutant of IsNew: only the message completed last is known.
IsOther(m, i) ==
    IF kind = "SCHEMA" THEN m.base + i > lastSeen ELSE m.base # done[m.entity]

\* Commands are compared by entity and states by session, both by the counter
\* of their first fragment; schemas fragment by fragment.
IsNew(m, i) ==
    IF kind = "SCHEMA" THEN m.base + i > lastSeen ELSE m.base > done[m.entity]

\* The entry the fragment finds: made for it, or emptied of an older message.
Found(m) ==
    LET a == table[m.entity]
    IN  IF ~a.there \/ (a.active /\ a.base < m.base) THEN Emptied ELSE a

\* A new entry reserves; one that is emptied keeps what it has.
ReservedFor(m) ==
    IF table[m.entity].there THEN reserved ELSE SizeT(reserved + m.count)

\* pending_..._assemblies has room for the entity.
HasPlace(m) == table[m.entity].there \/ Cardinality(Present) < MaxPending

\* Room for an assembly that is not begun; what the entry reserved for it
\* counts twice.
HasRoom(m) ==
    SizeT(ReservedFor(m) + m.count) <= MaxTotal /\ m.count <= MaxAssembly

\* Mutant of SameMessage: the counter is not compared.
SameLength(a, m) == a.count = m.count

\* store_fragment_ takes fragments of one message.
SameMessage(a, m) == a.base = m.base /\ a.count = m.count

Accepted(m, i) == IsNew(m, i) /\ HasPlace(m)

\* The assembly with fragment i; one that is there is not written again.
Stored(m, i) ==
    LET a == IF Found(m).active THEN Found(m) ELSE Started(m)
    IN  IF a.parts[i] = Nothing THEN [a EXCEPT !.parts[i] = m.base] ELSE a

Fits(m) == IF Found(m).active THEN SameMessage(Found(m), m) ELSE HasRoom(m)

\* fragment_assembly_complete_.
Complete(a) == \A i \in Indices(a.count) : a.parts[i] # Nothing

\* Dropped for want of room: the entry stays, empty, with what it reserved.
FragmentRefused(m, i) ==
    /\ Accepted(m, i)
    /\ ~Found(m).active /\ ~HasRoom(m)
    /\ table' = [table EXCEPT ![m.entity] = Found(m)]
    /\ reserved' = ReservedFor(m)
    /\ UNCHANGED <<kind, tx, sent, done, lastSeen, unconfirmed, handed>>

Seen(m, i) == lastSeen' = IF m.base + i > lastSeen THEN m.base + i ELSE lastSeen

FragmentStored(m, i) ==
    /\ Accepted(m, i) /\ Fits(m)
    /\ ~Complete(Stored(m, i))
    /\ table' = [table EXCEPT ![m.entity] = Stored(m, i)]
    /\ reserved' = ReservedFor(m)
    /\ Seen(m, i)
    /\ UNCHANGED <<kind, tx, sent, done, unconfirmed, handed>>

\* Mutant of Released: the bytes of the last fragment stay reserved.
ReleasedButOne(r, a) == SizeT(r - a.count + 1)

\* Dropping an assembly.
Released(r, a) == SizeT(r - a.count)

Finished(base, e) ==
    IF kind = "STATE" THEN [x \in Entities |-> base] ELSE [done EXCEPT ![e] = base]

\* A command is carried out and done; a state is done when it is confirmed,
\* at once or by a sink.
MessageComplete(m, i) ==
    LET a == Stored(m, i) IN
    /\ Accepted(m, i) /\ Fits(m)
    /\ Complete(a)
    /\ handed' = [handed EXCEPT ![m.entity] = a]
    /\ table' = [table EXCEPT ![m.entity] = NoEntry]
    /\ reserved' = Released(ReservedFor(m), a)
    /\ Seen(m, i)
    /\ \/ done' = Finished(a.base, m.entity) /\ UNCHANGED unconfirmed
       \/ /\ kind = "STATE"
          /\ unconfirmed' = unconfirmed \cup {a.base}
          /\ UNCHANGED done
    /\ UNCHANGED <<kind, tx, sent>>

\* confirm_state_delivery_, or the delivery expires.
Confirmed(base) ==
    /\ base \in unconfirmed
    /\ unconfirmed' = unconfirmed \ {base}
    /\ done' \in {done} \cup {[x \in Entities |-> base] : e \in {e \in Entities : base > done[e]}}
    /\ UNCHANGED <<kind, tx, sent, table, reserved, lastSeen, handed>>

\* ESPNOW_FRAGMENT_ASSEMBLY_TIMEOUT_MS without a fragment.  An entry that is
\* not active never expires.
Expire(e) ==
    /\ table[e].active
    /\ table' = [table EXCEPT ![e] = NoEntry]
    /\ reserved' = Released(reserved, table[e])
    /\ UNCHANGED <<kind, tx, sent, done, lastSeen, unconfirmed, handed>>

\* The states that were to follow a join did not come in time.
StateSyncTimeout ==
    /\ kind = "STATE"
    /\ table' = [e \in Entities |-> NoEntry] /\ reserved' = 0
    /\ UNCHANGED <<kind, tx, sent, done, lastSeen, unconfirmed, handed>>

\* A join.  A sender that has restarted counts from 1; a leaf that has not keeps
\* the counters of the commands it carried out.  Confirmations of before stay
\* due.
NewSession ==
    /\ tx' \in {1, tx} /\ sent' = {}
    /\ table' = [e \in Entities |-> NoEntry] /\ reserved' = 0
    /\ \/ done' = [e \in Entities |-> 0]
       \/ kind = "COMMAND" /\ UNCHANGED done
    /\ lastSeen' = 0
    /\ handed' = [e \in Entities |-> NoEntry]
    /\ UNCHANGED <<kind, unconfirmed>>

-----------------------------------------------------------------------------

Arrives(m, i) == FragmentRefused(m, i) \/ FragmentStored(m, i) \/ MessageComplete(m, i)

Next ==
    \/ \E e \in Entities, n \in 1 .. MaxFragments : SendMessage(e, n)
    \/ \E m \in sent : \E i \in Indices(m.count) : Arrives(m, i)
    \/ \E b \in unconfirmed : Confirmed(b)
    \/ \E e \in Entities : Expire(e)
    \/ StateSyncTimeout
    \/ NewSession

Spec == Init /\ [][Next]_fragVars

-----------------------------------------------------------------------------
(* Properties.                                                             *)

\* What is handed up is one message, whole: a value is never put together of
\* fragments of two, however they are lost, repeated or out of order.
WholeMessages ==
    \A e \in Entities : handed[e].there =>
        \E m \in sent : /\ m.entity = e /\ m.count = handed[e].count
                        /\ handed[e].parts = [i \in Indices(m.count) |-> m.base]

\* A command is not followed by an older one to the same entity, nor a schema
\* by an older one.
NewestLast ==
    [][kind # "STATE" => \A e \in Entities :
          handed'[e] # handed[e] /\ handed'[e].there => handed'[e].base > handed[e].base]_fragVars

\* As long as each entity's messages keep their length, the bytes reserved are
\* those of the assemblies there are, and all come back.
SameLengths == \A m, n \in sent : m.entity = n.entity => m.count = n.count
LengthOf(e) == (CHOOSE m \in sent : m.entity = e).count
ReservedIsHeld ==
    SameLengths => reserved = SumFunctionOnSet([e \in Entities |-> LengthOf(e)], Present)

\* Not checked by a run, as it does not hold: a command passed over as old has
\* been followed by one that was carried out.  A bridge that has restarted counts
\* from 1, and a leaf that has not takes its commands for old ones.
OldIsHanded ==
    \A m \in sent : kind = "COMMAND" /\ done[m.entity] >= m.base =>
        handed[m.entity].there /\ handed[m.entity].base >= m.base

\* Without the premise it does not hold, and no run checks it: when a shorter
\* message replaces one that is not complete the difference stays reserved, and
\* when a longer one does more is returned than was reserved, below zero.
NothingLeaks == Present = {} => reserved = 0

=============================================================================
