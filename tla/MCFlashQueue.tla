---------------------------- MODULE MCFlashQueue ----------------------------
(***************************************************************************)
(* FlashQueue on small instances.  With one row, everything may happen;    *)
(* with more, there are no uploads or aborts and the bridge says little.   *)
(***************************************************************************)
EXTENDS FlashQueue

CONSTANTS dA, dB

MCTwo  == {dA, dB}
MCOne  == {dA}

\* A bridge that only says how a transfer ended.
TerseBridge ==
    \/ BridgeAnswers
    \/ \E kind \in {"success", "failed"} : BridgeReports(kind)
    \/ EventArrives

\* Jobs come from compiled firmware and from the files of earlier jobs; users
\* order and remove them, and resume the queue after a restart.
QueueStep ==
    \/ \E d \in Devices : StartFlash(d) \/ AutoFlash(d)
    \/ \E j \in Ids : \/ Reflash(j) \/ OtaStart(j) \/ CancelPending(j)
                      \/ QueueAbort(j) \/ QueueUp(j) \/ QueueDown(j)
    \/ SetPaused(FALSE)

QueueNext == WorkerStep \/ TerseBridge \/ QueueStep \/ Restart
QueueSpec == Init /\ [][QueueNext]_vars
QueueFairSpec == QueueSpec /\ Fairness

=============================================================================
