------------------------------- MODULE Radio -------------------------------
(***************************************************************************)
(* The radio between one leaf and the bridge, and the receive queues the   *)
(* two sides drain in their loop().  A frame is heard only while the leaf  *)
(* is tuned to the bridge's channel, and dropped when the queue is full.   *)
(* What goes wrong (a frame lost or overtaken, a send refused, a timer     *)
(* that fires before its answer is in, a restart) is paid for from one     *)
(* budget, faults.                                                         *)
(***************************************************************************)
EXTENDS Naturals, Sequences, FiniteSets

CONSTANTS
    QueueLimit,     \* MAX_PENDING_RX_FRAMES
    NumChannels,    \* the channels of a discovery sweep, 13 in the code
    BridgeChannel,  \* the one the bridge listens on
    MaxFaults       \* bound: what may go wrong in one behaviour

ASSUME RadioAssumption ==
    /\ QueueLimit \in Nat \ {0}
    /\ NumChannels \in Nat \ {0}
    /\ BridgeChannel \in 1 .. NumChannels
    /\ MaxFaults \in Nat

VARIABLES
    up,             \* the bridge's pending_rx_frames_, and what is in the air
    down,           \* the leaf's
    tuned,          \* the channel the leaf's radio is on
    faults          \* what went wrong so far

radioVars == <<up, down, tuned, faults>>

\* handle_received_frame_ of either side.
Enqueue(q, f) == IF Len(q) < QueueLimit THEN Append(q, f) ELSE q

\* A frame sent to the leaf, and one the leaf sends on channel c.
ToLeaf(q, f) == IF tuned = BridgeChannel THEN Enqueue(q, f) ELSE q
ToBridge(q, f, c) == IF c = BridgeChannel THEN Enqueue(q, f) ELSE q

Spend(n) ==
    /\ faults + n <= MaxFaults
    /\ faults' = faults + n

\* What a send costs: nothing when esp_now_send takes the frame.
Cost(ok) == IF ok THEN 0 ELSE 1

Swap(q) == <<q[2], q[1]>> \o SubSeq(q, 3, Len(q))

\* A frame is lost.
Lose ==
    /\ Spend(1)
    /\ \/ up # <<>> /\ up' = Tail(up) /\ UNCHANGED down
       \/ down # <<>> /\ down' = Tail(down) /\ UNCHANGED up
    /\ UNCHANGED tuned

\* Two frames change places, as they can when relays change parents.
Overtake ==
    /\ Spend(1)
    /\ \/ Len(up) > 1 /\ up' = Swap(up) /\ UNCHANGED down
       \/ Len(down) > 1 /\ down' = Swap(down) /\ UNCHANGED up
    /\ UNCHANGED tuned

RadioInit ==
    /\ up = <<>>
    /\ down = <<>>
    /\ tuned = 1
    /\ faults = 0
=============================================================================
