--------------------------- MODULE OperationQueue ---------------------------
(***************************************************************************)
(* What a user of the BLECentral singleton may rely on, whatever gattlib   *)
(* does below: the operations it submits are carried out strictly one      *)
(* after the other, in the order of their submission; each one is reported *)
(* to its submitter exactly once, while it is the oldest operation; and it *)
(* leaves the queue only after that.  BLECentral.tla is shown to implement *)
(* this module.                                                            *)
(***************************************************************************)
EXTENDS Naturals, Sequences

CONSTANT MaxRequests   \* operations submitted in a behaviour (a bound for TLC)

VARIABLES
  queue,     \* numbers of the operations submitted and not yet retired
  running,   \* has the oldest one been started?
  outcome,   \* outcome[i]: the reports operation i has received
  next       \* number of the next operation submitted

vars == <<queue, running, outcome, next>>

Ids == 1..MaxRequests

Init ==
  /\ queue = <<>>
  /\ running = FALSE
  /\ outcome = [i \in Ids |-> <<>>]
  /\ next = 1

Report(result) == outcome' = [outcome EXCEPT ![Head(queue)] = <<result>>]

Enqueue ==
  /\ next \in Ids
  /\ queue' = Append(queue, next)
  /\ next' = next + 1

\* The application asks for an operation.
Submit ==
  /\ Enqueue
  /\ UNCHANGED <<running, outcome>>

\* Asking for one operation (stopScan) may cut the running one short.
CancelAndSubmit ==
  /\ queue # <<>> /\ running /\ outcome[Head(queue)] = <<>>
  /\ Report("cancelled")
  /\ Enqueue
  /\ UNCHANGED running

Start ==
  /\ queue # <<>> /\ ~running
  /\ running' = TRUE
  /\ UNCHANGED <<queue, outcome, next>>

\* The oldest operation is reported, either some time after its start or,
\* when it cannot even be started, together with it.
Conclude(result) ==
  /\ queue # <<>> /\ outcome[Head(queue)] = <<>>
  /\ Report(result)
  /\ running' = TRUE
  /\ UNCHANGED <<queue, next>>

Retire ==
  /\ queue # <<>> /\ running /\ outcome[Head(queue)] # <<>>
  /\ queue' = Tail(queue)
  /\ running' = FALSE
  /\ UNCHANGED <<outcome, next>>

Next ==
  \/ Submit
  \/ CancelAndSubmit
  \/ Start
  \/ \E result \in {"ok", "fail"} : Conclude(result)
  \/ Retire

Spec == Init /\ [][Next]_vars

=============================================================================
