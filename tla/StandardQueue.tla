--------------------------- MODULE StandardQueue ---------------------------
(***************************************************************************)
(* standard_spsc_queue, the baseline engine's queue, statement by          *)
(* statement: a mutex around a ring of optionals with its two indices and  *)
(* its size.  Between a lock and an unlock the other thread can only be    *)
(* outside, waiting; that the indices, the size and the slots never        *)
(* disagree at an unlock is what the refinement of SpscQueue needs.        *)
(***************************************************************************)
EXTENDS Integers, Sequences

CONSTANTS
  Trade,
  NoTrade,   \* an empty slot, std::nullopt
  Capacity

ASSUME QueueAssumption == Capacity \in Nat \ {0} /\ NoTrade \notin Trade

VARIABLES
  slots_, mutex_, read_, write_, size_,
  producer,   \* the statement of try_push the producer is at
  argument,   \* the producer's value
  consumer,   \* the statement of try_pop the consumer is at
  value       \* the local try_pop returns

ring == << slots_, read_, write_, size_ >>
vars == << ring, mutex_, producer, argument, consumer, value >>

Slots == 0 .. Capacity - 1

Init ==
  /\ slots_ = [i \in Slots |-> NoTrade]
  /\ mutex_ = "free"
  /\ read_ = 0 /\ write_ = 0 /\ size_ = 0
  /\ producer = "idle" /\ argument = NoTrade
  /\ consumer = "idle" /\ value = NoTrade

ProducerAt(from, to) ==
  /\ producer = from /\ producer' = to
  /\ UNCHANGED << consumer, value >>

ConsumerAt(from, to) ==
  /\ consumer = from /\ consumer' = to
  /\ UNCHANGED << producer, argument >>

(* std::lock_guard: taken by whoever finds it free, released on return.    *)
Lock(owner) == mutex_ = "free" /\ mutex_' = owner
Unlock(owner) == mutex_ = owner /\ mutex_' = "free"

-----------------------------------------------------------------------------
(* try_push.                                                               *)

CallPush ==
  /\ ProducerAt("idle", "lock")
  /\ argument' \in Trade
  /\ UNCHANGED << ring, mutex_ >>

(* Mutant of PushLock: no lock_guard.                                      *)
PushWithoutLock ==
  /\ ProducerAt("lock", "test")
  /\ UNCHANGED << ring, mutex_, argument >>

PushLock ==
  /\ ProducerAt("lock", "test")
  /\ Lock("producer")
  /\ UNCHANGED << ring, argument >>

PushFull ==
  /\ ProducerAt("test", "rejected")
  /\ size_ = Capacity
  /\ Unlock("producer")
  /\ UNCHANGED << ring, argument >>

(* Mutant of PushEmplace: the full queue is found one push too late.       *)
PushEmplaceOverfull ==
  /\ ProducerAt("test", "advance")
  /\ size_ <= Capacity
  /\ slots_' = [slots_ EXCEPT ![write_] = argument]
  /\ UNCHANGED << read_, write_, size_, mutex_, argument >>

PushEmplace ==
  /\ ProducerAt("test", "advance")
  /\ size_ # Capacity
  /\ slots_' = [slots_ EXCEPT ![write_] = argument]
  /\ UNCHANGED << read_, write_, size_, mutex_, argument >>

PushAdvance ==
  /\ ProducerAt("advance", "count")
  /\ write_' = (write_ + 1) % Capacity
  /\ UNCHANGED << slots_, read_, size_, mutex_, argument >>

PushCount ==
  /\ ProducerAt("count", "accepted")
  /\ size_' = size_ + 1
  /\ Unlock("producer")
  /\ UNCHANGED << slots_, read_, write_, argument >>

ReturnTrue ==
  /\ ProducerAt("accepted", "idle")
  /\ argument' = NoTrade
  /\ UNCHANGED << ring, mutex_ >>

(* submit's loop: the same value again.                                    *)
ReturnFalse ==
  /\ ProducerAt("rejected", "lock")
  /\ UNCHANGED << ring, mutex_, argument >>

-----------------------------------------------------------------------------
(* try_pop.                                                                *)

CallPop ==
  /\ ConsumerAt("idle", "lock")
  /\ UNCHANGED << ring, mutex_, value >>

PopLock ==
  /\ ConsumerAt("lock", "test")
  /\ Lock("consumer")
  /\ UNCHANGED << ring, value >>

PopEmpty ==
  /\ ConsumerAt("test", "return")
  /\ size_ = 0
  /\ Unlock("consumer")
  /\ UNCHANGED << ring, value >>

(* std::optional<T> value(std::move(slots_[read_])): the slot stays        *)
(* engaged until the next statement (moving a trade copies it).            *)
PopMove ==
  /\ ConsumerAt("test", "reset")
  /\ size_ # 0
  /\ value' = slots_[read_]
  /\ UNCHANGED << ring, mutex_ >>

(* Mutant of PopReset: the slot keeps its value.                           *)
PopKeepsSlot ==
  /\ ConsumerAt("reset", "advance")
  /\ UNCHANGED << ring, mutex_, value >>

PopReset ==
  /\ ConsumerAt("reset", "advance")
  /\ slots_' = [slots_ EXCEPT ![read_] = NoTrade]
  /\ UNCHANGED << read_, write_, size_, mutex_, value >>

PopAdvance ==
  /\ ConsumerAt("advance", "count")
  /\ read_' = (read_ + 1) % Capacity
  /\ UNCHANGED << slots_, write_, size_, mutex_, value >>

PopCount ==
  /\ ConsumerAt("count", "return")
  /\ size_' = size_ - 1
  /\ Unlock("consumer")
  /\ UNCHANGED << slots_, read_, write_, value >>

ReturnValue ==
  /\ ConsumerAt("return", "idle")
  /\ value' = NoTrade
  /\ UNCHANGED << ring, mutex_ >>

Next ==
  \/ CallPush \/ PushLock \/ PushFull \/ PushEmplace \/ PushAdvance
  \/ PushCount \/ ReturnTrue \/ ReturnFalse
  \/ CallPop \/ PopLock \/ PopEmpty \/ PopMove \/ PopReset \/ PopAdvance
  \/ PopCount \/ ReturnValue

Spec == Init /\ [][Next]_vars

-----------------------------------------------------------------------------
(* Every variable keeps to its domain: the indices inside the array, the   *)
(* size never past the capacity.                                           *)
TypeOK ==
  /\ slots_ \in [Slots -> Trade \cup {NoTrade}]
  /\ mutex_ \in {"free", "producer", "consumer"}
  /\ read_ \in Slots /\ write_ \in Slots /\ size_ \in 0 .. Capacity
  /\ producer \in {"idle", "lock", "test", "advance", "count", "accepted",
                   "rejected"}
  /\ consumer \in {"idle", "lock", "test", "reset", "advance", "count",
                   "return"}
  /\ argument \in Trade \cup {NoTrade}
  /\ value \in Trade \cup {NoTrade}

(* Whenever nobody holds the mutex the engaged slots are exactly the       *)
(* size_ ones from read_ on, and write_ is the first slot after them: no   *)
(* popped trade is kept alive and none is overwritten.                     *)
SlotsMatchWindow ==
  mutex_ = "free" =>
    /\ write_ = (read_ + size_) % Capacity
    /\ \A i \in Slots :
         slots_[i] # NoTrade <=>
           \E k \in 0 .. size_ - 1 : i = (read_ + k) % Capacity

(* The refinement mapping: a push takes effect when it fills its slot, a   *)
(* pop when it moves the value out, both before the indices and the size   *)
(* follow.                                                                 *)
PushTookEffect == producer \in {"advance", "count"}
PopTookEffect  == consumer \in {"reset", "advance", "count"}

First == IF consumer \in {"reset", "advance"} THEN (read_ + 1) % Capacity
                                              ELSE read_
Held == size_ + (IF PushTookEffect THEN 1 ELSE 0)
              - (IF PopTookEffect THEN 1 ELSE 0)

Contents == [i \in 1 .. Held |-> slots_[(First + (i - 1)) % Capacity]]

PushPhase == CASE producer \in {"lock", "test"} -> "called"
               [] PushTookEffect                -> "accepted"
               [] OTHER                         -> producer
PopPhase  == CASE consumer \in {"lock", "test"}        -> "called"
               [] PopTookEffect \/ consumer = "return" -> "done"
               [] OTHER                                -> "idle"

Fifo == INSTANCE SpscQueue WITH
  queue <- Contents, push <- PushPhase, pop <- PopPhase, result <- value

(* Seen from outside, every call of standard_spsc_queue is one atomic      *)
(* operation of a bounded FIFO.                                            *)
RefinesSpscQueue == Fifo!SpscSpec
=============================================================================
