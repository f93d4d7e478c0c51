------------------------------ MODULE AtomicCell -----------------------------
(***************************************************************************)
(* What a metadata pair promises: a cell that holds one value, updated     *)
(* atomically with respect to crashes.  While an update runs, a crash      *)
(* leaves the old value or the new one; once the update has returned 0     *)
(* only the new one; after an error, either, as long as nobody has synced. *)
(* Values are numbered in the order of the updates that write them.        *)
(***************************************************************************)
EXTENDS Naturals

CONSTANT MaxOps  \* bound on the updates

VARIABLES
  durable,  \* the values that a crash may leave now
  acked,    \* the value of the last update that returned 0
  pending,  \* the value the running update writes, 0 if none runs
  ops       \* the updates begun so far

vars == <<durable, acked, pending, ops>>

Init == durable = {0} /\ acked = 0 /\ pending = 0 /\ ops = 0

Begin ==
  /\ pending = 0 /\ ops < MaxOps
  /\ ops' = ops + 1 /\ pending' = ops'
  /\ UNCHANGED <<durable, acked>>

\* Part of the update reaches the device.
Reach ==
  /\ pending # 0
  /\ durable' = durable \cup {pending}
  /\ UNCHANGED <<acked, pending, ops>>

\* A sync rules values out.
Settle ==
  /\ durable' \in (SUBSET durable) \ {{}}
  /\ UNCHANGED <<acked, pending, ops>>

Return ==
  /\ pending # 0
  /\ durable' = {pending}
  /\ acked' = pending /\ pending' = 0
  /\ UNCHANGED ops

\* The update returns an error, or the machine stops.
Abort ==
  /\ durable' \in (SUBSET durable) \ {{}}
  /\ pending' = 0
  /\ UNCHANGED <<acked, ops>>

Next == Begin \/ Reach \/ Settle \/ Return \/ Abort

Spec == Init /\ [][Next]_vars
=============================================================================
