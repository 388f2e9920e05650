---------------------------- MODULE BoundedFifo ----------------------------
(***************************************************************************)
(* The bounded handoff between the capture reader and the worker thread,   *)
(* as its callers see it: try_push returns false on a full queue and       *)
(* leaves it alone, try_pop returns nullopt on an empty one.  It models    *)
(* bengal::spsc_queue, a dependency whose header is not in the repository, *)
(* from how pipeline uses it; StandardQueue shows that the repository's    *)
(* own standard_spsc_queue implements the same object.                     *)
(***************************************************************************)
EXTENDS Integers, Sequences

CONSTANTS
  Trade,     \* the values handed over
  Capacity   \* queue_capacity

ASSUME CapacityAssumption == Capacity \in Nat \ {0}

VARIABLE queue   \* accepted and not yet taken, oldest first

(* Mutant of IsFull: off by one.                                           *)
IsFullOffByOne == Len(queue) > Capacity

IsFull  == Len(queue) = Capacity
IsEmpty == queue = << >>

(* try_push, true: the value joins the tail.                               *)
PushAccepted(value) ==
  /\ ~IsFull
  /\ queue' = Append(queue, value)

(* try_push, false: the caller keeps the value.                            *)
PushRejected ==
  /\ IsFull
  /\ UNCHANGED queue

(* try_pop: the head leaves the queue.                                     *)
PopValue ==
  /\ ~IsEmpty
  /\ queue' = Tail(queue)

(* try_pop, nullopt.                                                       *)
PopNothing ==
  /\ IsEmpty
  /\ UNCHANGED queue
=============================================================================
