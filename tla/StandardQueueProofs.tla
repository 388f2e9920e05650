------------------------ MODULE StandardQueueProofs ------------------------
(***************************************************************************)
(* Proofs about StandardQueue for every capacity and set of trades.        *)
(***************************************************************************)
EXTENDS StandardQueue, SequenceTheorems, TLAPS

(* The slot some places from another.                                      *)
After(slot, places) == (slot + places) % Capacity

(* The mutex is held exactly between the lock and the unlock of a call.    *)
Exclusive ==
  /\ mutex_ = "producer" <=> producer \in {"test", "advance", "count"}
  /\ mutex_ = "consumer" <=>
       consumer \in {"test", "reset", "advance", "count"}

(* A call has work to do where it does it.                                 *)
Justified ==
  /\ PushTookEffect => size_ < Capacity
  /\ PopTookEffect => size_ > 0
  /\ producer # "idle" => argument \in Trade

(* Where write_ and the engaged slots are while size_ is behind them.      *)
WriteAt == size_ + (IF producer = "count" THEN 1 ELSE 0)
                 - (IF consumer = "count" THEN 1 ELSE 0)
FirstEngaged == IF consumer = "advance" THEN 1 ELSE 0
LastEngaged  == size_ - 1 + (IF PushTookEffect THEN 1 ELSE 0)
                          - (IF consumer = "count" THEN 1 ELSE 0)

Window ==
  /\ write_ = After(read_, WriteAt)
  /\ \A k \in Slots :
       slots_[After(read_, k)] # NoTrade <=> k \in FirstEngaged .. LastEngaged

Inv == TypeOK /\ Exclusive /\ Justified /\ Window

-----------------------------------------------------------------------------
(* A sum of an index and a distance wraps at most once.                    *)
LEMMA Wrap ==
  ASSUME NEW n \in 0 .. 2 * Capacity - 1
  PROVE  n % Capacity = IF n < Capacity THEN n ELSE n - Capacity
<1>1. Capacity \in Nat /\ Capacity > 0
  BY QueueAssumption
<1>2. n % Capacity \in 0 .. Capacity - 1
  BY <1>1
<1>3. n = Capacity * (n \div Capacity) + (n % Capacity)
  BY <1>1
<1>4. CASE n < Capacity
  BY <1>1, <1>4
<1>5. CASE n >= Capacity
  <2>1. n \div Capacity = 1
    BY <1>1, <1>5
  <2> QED
    BY <1>1, <1>3, <1>5, <2>1
<1> QED
  BY <1>1, <1>4, <1>5

(* Counting on from a slot wraps round at most once.                       *)
LEMMA AfterWraps ==
  \A slot \in Slots, places \in 0 .. Capacity :
    /\ After(slot, places) \in Slots
    /\ After(slot, places) = IF slot + places < Capacity
                             THEN slot + places
                             ELSE slot + places - Capacity
<1> SUFFICES ASSUME NEW slot \in Slots, NEW places \in 0 .. Capacity
             PROVE  /\ After(slot, places) \in Slots
                    /\ After(slot, places) = IF slot + places < Capacity
                                             THEN slot + places
                                             ELSE slot + places - Capacity
  OBVIOUS
<1>1. Capacity \in Nat /\ Capacity > 0
  BY QueueAssumption
<1> DEFINE n == slot + places
<1>2. n \in 0 .. 2 * Capacity - 1
  BY <1>1 DEF Slots
<1>3. After(slot, places) = n % Capacity
  BY DEF After
<1> HIDE DEF n
<1>4. n % Capacity = IF n < Capacity THEN n ELSE n - Capacity
  BY <1>2, Wrap
<1> QED
  BY <1>1, <1>2, <1>3, <1>4 DEF n, Slots

(* An empty queue.                                                         *)
LEMMA InvInit == Init => Inv
<1> SUFFICES ASSUME Init PROVE Inv
  OBVIOUS
<1>1. Capacity \in Nat /\ Capacity > 0 /\ 0 \in Slots
  BY QueueAssumption DEF Slots
<1>2. TypeOK
  BY <1>1 DEF Init, TypeOK
<1>3. Exclusive /\ Justified
  BY DEF Init, Exclusive, Justified, PushTookEffect, PopTookEffect
<1>4. Window
  BY <1>1, AfterWraps DEF Init, Window, WriteAt, FirstEngaged, LastEngaged,
     PushTookEffect, Slots
<1> QED
  BY <1>2, <1>3, <1>4 DEF Inv

(* The steps outside the critical sections leave the ring alone.           *)
LEMMA OutsideStep ==
  ASSUME Inv,
         \/ CallPush \/ PushLock \/ PushFull \/ ReturnTrue \/ ReturnFalse
         \/ CallPop \/ PopLock \/ PopEmpty \/ ReturnValue \/ UNCHANGED vars
  PROVE  Inv'
<1> USE DEF Inv, CallPush, PushLock, PushFull, ReturnTrue, ReturnFalse,
            CallPop, PopLock, PopEmpty, ReturnValue, vars, ring, ProducerAt,
            ConsumerAt, Lock, Unlock
<1>1. TypeOK'
  BY DEF TypeOK
<1>2. Exclusive'
  BY DEF Exclusive, TypeOK
<1>3. Justified'
  BY DEF Justified, PushTookEffect, PopTookEffect
<1>4. Window'
  BY DEF Window, WriteAt, FirstEngaged, LastEngaged, PushTookEffect, After
<1> QED
  BY <1>1, <1>2, <1>3, <1>4

(* Different distances lead to different slots.                            *)
LEMMA AfterInjective ==
  ASSUME NEW slot \in Slots, NEW j \in Slots, NEW k \in Slots,
         After(slot, j) = After(slot, k)
  PROVE  j = k
<1>1. Capacity \in Nat /\ Capacity > 0 /\ j \in 0 .. Capacity
      /\ k \in 0 .. Capacity
  BY QueueAssumption DEF Slots
<1>2. /\ After(slot, j) = IF slot + j < Capacity THEN slot + j
                                                ELSE slot + j - Capacity
      /\ After(slot, k) = IF slot + k < Capacity THEN slot + k
                                                ELSE slot + k - Capacity
  BY <1>1, AfterWraps
<1>3. (IF slot + j < Capacity THEN slot + j ELSE slot + j - Capacity)
        = (IF slot + k < Capacity THEN slot + k ELSE slot + k - Capacity)
  BY <1>2
<1> QED
  BY <1>1, <1>3 DEF Slots

(* One place on and some more, once around included.                       *)
LEMMA AfterAdds ==
  ASSUME NEW slot \in Slots
  PROVE  /\ After(slot, 0) = slot /\ After(slot, Capacity) = slot
         /\ \A k \in Slots : After(After(slot, 1), k) = After(slot, k + 1)
<1>1. /\ Capacity \in Nat /\ Capacity > 0
      /\ 0 \in 0 .. Capacity /\ 1 \in 0 .. Capacity
      /\ Capacity \in 0 .. Capacity
  BY QueueAssumption
<1>2. After(slot, 0) = slot /\ After(slot, Capacity) = slot
  BY <1>1, AfterWraps DEF Slots
<1>3. ASSUME NEW k \in Slots
      PROVE  After(After(slot, 1), k) = After(slot, k + 1)
  <2>1. k \in 0 .. Capacity /\ k + 1 \in 0 .. Capacity
    BY <1>1 DEF Slots
  <2>2. /\ After(slot, 1) \in Slots
        /\ After(slot, 1) = IF slot + 1 < Capacity THEN slot + 1
                                                   ELSE slot + 1 - Capacity
    BY <1>1, AfterWraps
  <2>3. /\ After(After(slot, 1), k)
             = IF After(slot, 1) + k < Capacity
               THEN After(slot, 1) + k ELSE After(slot, 1) + k - Capacity
        /\ After(slot, k + 1) = IF slot + (k + 1) < Capacity
                                THEN slot + (k + 1)
                                ELSE slot + (k + 1) - Capacity
    BY <2>1, <2>2, AfterWraps
  <2> QED
    BY <1>1, <2>1, <2>2, <2>3 DEF Slots
<1> QED
  BY <1>2, <1>3

(* The slot behind the window is filled.                                   *)
LEMMA PushEmplaceKeeps == ASSUME Inv, PushEmplace PROVE Inv'
<1> USE DEF Inv, PushEmplace, ProducerAt, ConsumerAt, Lock, Unlock
<1>1. Capacity \in Nat /\ Capacity > 0
  BY QueueAssumption
<1>2. TypeOK'
  BY <1>1, AfterWraps
     DEF TypeOK, Slots, After, Justified, PushTookEffect, PopTookEffect
<1>3. Exclusive'
  BY DEF Exclusive, TypeOK
<1>4. Justified'
  BY <1>1 DEF Justified, PushTookEffect, PopTookEffect, TypeOK, Exclusive
<1>5. Window'
  <2>1. consumer \notin {"test", "reset", "advance", "count"}
    BY DEF Exclusive
  <2>2. /\ write_ = After(read_, size_) /\ size_ \in Slots
        /\ argument # NoTrade
    BY <1>1, <2>1, QueueAssumption
       DEF Window, WriteAt, TypeOK, Slots, Justified
  <2>3. /\ WriteAt' = size_ /\ FirstEngaged' = 0 /\ LastEngaged' = size_
        /\ FirstEngaged = 0 /\ LastEngaged = size_ - 1
    BY <2>1 DEF WriteAt, FirstEngaged, LastEngaged, PushTookEffect, TypeOK
  <2>4. ASSUME NEW k \in Slots
        PROVE  slots_'[After(read_, k)] # NoTrade <=> k \in 0 .. size_
    <3>1. After(read_, k) \in Slots
      <4>1. k \in 0 .. Capacity
        BY <1>1 DEF Slots
      <4> QED
        BY <4>1, AfterWraps DEF TypeOK
    <3>2. CASE k = size_
      BY <2>2, <3>1, <3>2 DEF TypeOK, Slots
    <3>3. CASE k # size_
      <4>1. After(read_, k) # write_
        BY <2>2, <3>3, AfterInjective DEF TypeOK
      <4>2. slots_'[After(read_, k)] = slots_[After(read_, k)]
        BY <3>1, <4>1 DEF TypeOK
      <4> QED
        BY <2>3, <3>3, <4>2 DEF Window, TypeOK, Slots
    <3> QED
      BY <3>2, <3>3
  <2>5. After(read_, size_)' = After(read_, size_)
    BY DEF After
  <2>6. \A k \in Slots : After(read_, k)' = After(read_, k)
    BY DEF After
  <2> QED
    BY <2>2, <2>3, <2>4, <2>6 DEF Window
<1> QED
  BY <1>2, <1>3, <1>4, <1>5

(* write_ catches up with it.                                              *)
LEMMA PushAdvanceKeeps == ASSUME Inv, PushAdvance PROVE Inv'
<1> USE DEF Inv, PushAdvance, ProducerAt, ConsumerAt, Lock, Unlock
<1>1. Capacity \in Nat /\ Capacity > 0
  BY QueueAssumption
<1>2. TypeOK'
  BY <1>1, AfterWraps
     DEF TypeOK, Slots, After, Justified, PushTookEffect, PopTookEffect
<1>3. Exclusive'
  BY DEF Exclusive, TypeOK
<1>4. Justified'
  BY <1>1 DEF Justified, PushTookEffect, PopTookEffect, TypeOK, Exclusive
<1>5. Window'
  BY <1>1, AfterWraps
     DEF Window, WriteAt, FirstEngaged, LastEngaged, PushTookEffect,
         PopTookEffect, TypeOK, Slots, Exclusive, Justified, After
<1> QED
  BY <1>2, <1>3, <1>4, <1>5

(* size_ catches up with both.                                             *)
LEMMA PushCountKeeps == ASSUME Inv, PushCount PROVE Inv'
<1> USE DEF Inv, PushCount, ProducerAt, ConsumerAt, Lock, Unlock
<1>1. Capacity \in Nat /\ Capacity > 0
  BY QueueAssumption
<1>2. TypeOK'
  BY <1>1, AfterWraps
     DEF TypeOK, Slots, After, Justified, PushTookEffect, PopTookEffect
<1>3. Exclusive'
  BY DEF Exclusive, TypeOK
<1>4. Justified'
  BY <1>1 DEF Justified, PushTookEffect, PopTookEffect, TypeOK, Exclusive
<1>5. Window'
  BY <1>1, AfterWraps
     DEF Window, WriteAt, FirstEngaged, LastEngaged, PushTookEffect,
         PopTookEffect, TypeOK, Slots, Exclusive, Justified, After
<1> QED
  BY <1>2, <1>3, <1>4, <1>5

(* The value is copied, the slot stays engaged.                            *)
LEMMA PopMoveKeeps == ASSUME Inv, PopMove PROVE Inv'
<1> USE DEF Inv, PopMove, ring, ProducerAt, ConsumerAt, Lock, Unlock
<1>1. Capacity \in Nat /\ Capacity > 0
  BY QueueAssumption
<1>2. TypeOK'
  BY <1>1, AfterWraps
     DEF TypeOK, Slots, After, Justified, PushTookEffect, PopTookEffect
<1>3. Exclusive'
  BY DEF Exclusive, TypeOK
<1>4. Justified'
  BY <1>1 DEF Justified, PushTookEffect, PopTookEffect, TypeOK, Exclusive
<1>5. Window'
  BY <1>1, AfterWraps
     DEF Window, WriteAt, FirstEngaged, LastEngaged, PushTookEffect,
         PopTookEffect, TypeOK, Slots, Exclusive, Justified, After
<1> QED
  BY <1>2, <1>3, <1>4, <1>5

(* The first slot of the window is emptied.                                *)
LEMMA PopResetKeeps == ASSUME Inv, PopReset PROVE Inv'
<1> USE DEF Inv, PopReset, ProducerAt, ConsumerAt, Lock, Unlock
<1>1. Capacity \in Nat /\ Capacity > 0
  BY QueueAssumption
<1>2. TypeOK'
  BY <1>1, AfterWraps, QueueAssumption
     DEF TypeOK, Slots, After, Justified, PushTookEffect, PopTookEffect
<1>3. Exclusive'
  BY DEF Exclusive, TypeOK
<1>4. Justified'
  BY <1>1 DEF Justified, PushTookEffect, PopTookEffect, TypeOK, Exclusive
<1>5. Window'
  <2>1. producer \notin {"advance", "count"} /\ size_ \in Nat /\ size_ > 0
    BY DEF Exclusive, TypeOK, Justified, PopTookEffect
  <2>2. /\ WriteAt' = WriteAt /\ FirstEngaged' = 1
        /\ LastEngaged' = size_ - 1
        /\ FirstEngaged = 0 /\ LastEngaged = size_ - 1
    BY <2>1 DEF WriteAt, FirstEngaged, LastEngaged, PushTookEffect
  <2>3. read_ \in Slots /\ After(read_, 0) = read_ /\ 0 \in Slots
    BY <1>1, AfterAdds DEF TypeOK, Slots
  <2>4. ASSUME NEW k \in Slots
        PROVE  slots_'[After(read_, k)] # NoTrade <=> k \in 1 .. size_ - 1
    <3>1. After(read_, k) \in Slots
      <4>1. k \in 0 .. Capacity
        BY <1>1 DEF Slots
      <4> QED
        BY <4>1, AfterWraps DEF TypeOK
    <3>2. CASE k = 0
      BY <2>3, <3>1, <3>2 DEF TypeOK
    <3>3. CASE k # 0
      <4>1. After(read_, k) # read_
        BY <2>3, <3>3, AfterInjective
      <4>2. slots_'[After(read_, k)] = slots_[After(read_, k)]
        BY <3>1, <4>1 DEF TypeOK
      <4> QED
        BY <2>1, <2>2, <3>3, <4>2 DEF Window, Slots
    <3> QED
      BY <3>2, <3>3
  <2>5. \A k : After(read_, k)' = After(read_, k)
    BY DEF After
  <2> QED
    BY <2>2, <2>4, <2>5 DEF Window
<1> QED
  BY <1>2, <1>3, <1>4, <1>5

(* read_ leaves it: the slots are counted from the next one.               *)
LEMMA PopAdvanceKeeps == ASSUME Inv, PopAdvance PROVE Inv'
<1> USE DEF Inv, PopAdvance, ProducerAt, ConsumerAt, Lock, Unlock
<1>1. Capacity \in Nat /\ Capacity > 0
  BY QueueAssumption
<1>2. TypeOK'
  BY <1>1, AfterWraps
     DEF TypeOK, Slots, After, Justified, PushTookEffect, PopTookEffect
<1>3. Exclusive'
  BY DEF Exclusive, TypeOK
<1>4. Justified'
  BY <1>1 DEF Justified, PushTookEffect, PopTookEffect, TypeOK, Exclusive
<1>5. Window'
  <2>1. /\ producer \notin {"advance", "count"}
        /\ size_ \in 1 .. Capacity
    BY DEF Exclusive, TypeOK, Justified, PopTookEffect
  <2>2. /\ WriteAt' = size_ - 1 /\ WriteAt = size_
        /\ FirstEngaged' = 0 /\ LastEngaged' = size_ - 2
        /\ FirstEngaged = 1 /\ LastEngaged = size_ - 1
    BY <2>1 DEF WriteAt, FirstEngaged, LastEngaged, PushTookEffect
  <2>3. read_ \in Slots /\ read_' = After(read_, 1)
    BY DEF TypeOK, After
  <2>4. \A k \in Slots : After(read_, k)' = After(read_, k + 1)
    <3>1. \A k : After(read_, k)' = After(read_', k)
      BY DEF After
    <3> QED
      BY <2>3, <3>1, AfterAdds
  <2>5. write_' = After(read_, WriteAt)'
    <3>1. size_ - 1 \in Slots /\ (size_ - 1) + 1 = size_
      BY <1>1, <2>1 DEF Slots
    <3>2. write_' = After(read_, size_)
      BY <2>2 DEF Window
    <3>3. After(read_, size_ - 1)' = After(read_, size_)
      BY <2>4, <3>1
    <3> QED
      BY <2>2, <3>2, <3>3 DEF After
  <2>6. ASSUME NEW k \in Slots
        PROVE  slots_[After(read_, k + 1)] # NoTrade
                 <=> k \in 0 .. size_ - 2
    <3>1. CASE k + 1 \in Slots
      BY <1>1, <2>1, <2>2, <3>1 DEF Window, Slots
    <3>2. CASE k + 1 = Capacity
      <4>1. After(read_, k + 1) = After(read_, 0) /\ 0 \in Slots
        BY <1>1, <2>3, <3>2, AfterAdds DEF Slots
      <4> QED
        BY <1>1, <2>1, <2>2, <3>2, <4>1 DEF Window
    <3> QED
      BY <1>1, <3>1, <3>2 DEF Slots
  <2>7. slots_' = slots_
    OBVIOUS
  <2> QED
    BY <2>2, <2>4, <2>5, <2>6, <2>7 DEF Window
<1> QED
  BY <1>2, <1>3, <1>4, <1>5

(* size_ catches up with read_.                                            *)
LEMMA PopCountKeeps == ASSUME Inv, PopCount PROVE Inv'
<1> USE DEF Inv, PopCount, ProducerAt, ConsumerAt, Lock, Unlock
<1>1. Capacity \in Nat /\ Capacity > 0
  BY QueueAssumption
<1>2. TypeOK'
  BY <1>1, AfterWraps
     DEF TypeOK, Slots, After, Justified, PushTookEffect, PopTookEffect
<1>3. Exclusive'
  BY DEF Exclusive, TypeOK
<1>4. Justified'
  BY <1>1 DEF Justified, PushTookEffect, PopTookEffect, TypeOK, Exclusive
<1>5. Window'
  BY <1>1, AfterWraps
     DEF Window, WriteAt, FirstEngaged, LastEngaged, PushTookEffect,
         PopTookEffect, TypeOK, Slots, Exclusive, Justified, After
<1> QED
  BY <1>2, <1>3, <1>4, <1>5

(* Every statement keeps the invariant.                                    *)
LEMMA InvStep == Inv /\ [Next]_vars => Inv'
  BY OutsideStep, PushEmplaceKeeps, PushAdvanceKeeps, PushCountKeeps,
     PopMoveKeeps, PopResetKeeps, PopAdvanceKeeps, PopCountKeeps DEF Next

(* The invariant holds of every behaviour.                                 *)
THEOREM InvCorrect == Spec => []Inv
  BY InvInit, InvStep, PTL DEF Spec

(* The indices never leave the array, and the size never the capacity.     *)
THEOREM TypeCorrect == Spec => []TypeOK
  BY InvCorrect, PTL DEF Inv

(* With the mutex free, the engaged slots are the window that the indices  *)
(* and the size describe.                                                  *)
THEOREM WindowCorrect == Spec => []SlotsMatchWindow
<1>1. Inv => SlotsMatchWindow
  <2> SUFFICES ASSUME Inv, mutex_ = "free"
               PROVE  /\ write_ = (read_ + size_) % Capacity
                      /\ \A i \in Slots :
                           slots_[i] # NoTrade <=>
                             \E k \in 0 .. size_ - 1 :
                               i = (read_ + k) % Capacity
    BY DEF SlotsMatchWindow
  <2>1. Capacity \in Nat /\ Capacity > 0
    BY QueueAssumption
  <2>2. /\ producer \notin {"test", "advance", "count"}
        /\ consumer \notin {"test", "reset", "advance", "count"}
        /\ size_ \in 0 .. Capacity /\ read_ \in Slots
    BY DEF Inv, Exclusive, TypeOK
  <2>3. WriteAt = size_ /\ FirstEngaged = 0 /\ LastEngaged = size_ - 1
    BY <2>2 DEF WriteAt, FirstEngaged, LastEngaged, PushTookEffect
  <2>4. ASSUME NEW i \in Slots
        PROVE  slots_[i] # NoTrade <=>
                 \E k \in 0 .. size_ - 1 : i = After(read_, k)
    <3> DEFINE d == IF i >= read_ THEN i - read_ ELSE i - read_ + Capacity
    <3>1. d \in Slots /\ d \in 0 .. Capacity
      BY <2>1, <2>2 DEF Slots
    <3>2. i = After(read_, d)
      <4>1. After(read_, d) = IF read_ + d < Capacity
                              THEN read_ + d ELSE read_ + d - Capacity
        BY <2>2, <3>1, AfterWraps
      <4> QED
        BY <2>1, <2>2, <4>1 DEF Slots
    <3> HIDE DEF d
    <3>3. slots_[i] # NoTrade <=> d \in 0 .. size_ - 1
      BY <2>3, <3>1, <3>2 DEF Inv, Window
    <3>4. ASSUME NEW k \in 0 .. size_ - 1, i = After(read_, k)
          PROVE  k = d
      <4>1. k \in Slots
        BY <2>1, <2>2 DEF Slots
      <4> QED
        BY <2>2, <3>1, <3>2, <3>4, <4>1, AfterInjective
    <3> QED
      BY <3>2, <3>3, <3>4
  <2> QED
    BY <2>3, <2>4 DEF Inv, Window, After
<1> QED
  BY <1>1, InvCorrect, PTL

-----------------------------------------------------------------------------
(* What the FIFO holds, counted from read_: the pop under way has taken    *)
(* its first place, the push under way has added one behind the last.      *)
Base == IF consumer \in {"reset", "advance"} THEN 1 ELSE 0

ContentsView ==
  /\ Held \in 0 .. Capacity
  /\ Contents \in Seq(Trade \cup {NoTrade})
  /\ Len(Contents) = Held
  /\ \A i \in 1 .. Held :
       /\ i - 1 + Base \in Slots
       /\ Contents[i] = slots_[After(read_, i - 1 + Base)]

(* The contents, counted from the slot read next,                          *)
LEMMA ContentsFromRead == Inv => ContentsView
<1> SUFFICES ASSUME Inv PROVE ContentsView
  OBVIOUS
<1>1. Capacity \in Nat /\ Capacity > 0
  BY QueueAssumption
<1>2. /\ Held \in 0 .. Capacity
      /\ Held + Base <= Capacity
      /\ Base \in 0 .. 1
  BY <1>1 DEF Held, Base, PushTookEffect, PopTookEffect, Inv, TypeOK,
     Exclusive, Justified
<1>3. ASSUME NEW i \in 1 .. Held
      PROVE  /\ i - 1 + Base \in Slots
             /\ After(read_, i - 1 + Base) \in Slots
             /\ After(First, i - 1) = After(read_, i - 1 + Base)
  <2>1. /\ i - 1 \in Slots /\ i - 1 + Base \in Slots
        /\ i - 1 + Base \in 0 .. Capacity /\ read_ \in Slots
    BY <1>1, <1>2 DEF Slots, Inv, TypeOK
  <2>2. CASE consumer \in {"reset", "advance"}
    <3>1. Base = 1 /\ First = After(read_, 1)
      BY <2>2 DEF Base, First, After
    <3>2. After(After(read_, 1), i - 1) = After(read_, (i - 1) + 1)
      BY <2>1, AfterAdds
    <3> QED
      BY <2>1, <3>1, <3>2, AfterWraps
  <2>3. CASE consumer \notin {"reset", "advance"}
    <3>1. Base = 0 /\ First = read_ /\ i - 1 + Base = i - 1
      BY <2>1, <2>3 DEF Base, First
    <3> QED
      BY <2>1, <3>1, AfterWraps
  <2> QED
    BY <2>2, <2>3
<1>4. Contents = [i \in 1 .. Held |-> slots_[After(First, i - 1)]]
  BY DEF Contents, After
<1>5. \A i \in 1 .. Held : slots_[After(First, i - 1)] \in Trade \cup {NoTrade}
  BY <1>3 DEF Inv, TypeOK
<1> HIDE DEF Held, Base
<1>6. Contents \in Seq(Trade \cup {NoTrade}) /\ Len(Contents) = Held
  BY <1>2, <1>4, <1>5
<1> QED
  BY <1>2, <1>3, <1>4, <1>6 DEF ContentsView

(* and so after a step.                                                    *)
LEMMA ContentsFromReadNext == Inv' => ContentsView'
  BY ContentsFromRead, PTL

(* Filling the slot is the push.                                           *)
LEMMA ContentsPush ==
  ASSUME Inv, PushEmplace
  PROVE  Len(Contents) # Capacity /\ Contents' = Append(Contents, argument)
<1>1. Capacity \in Nat /\ Capacity > 0
  BY QueueAssumption
<1>2. ContentsView /\ ContentsView'
  BY PushEmplaceKeeps, ContentsFromRead, ContentsFromReadNext
<1>3. /\ consumer \notin {"test", "reset", "advance", "count"}
      /\ consumer' = consumer /\ read_' = read_ /\ size_' = size_
      /\ producer = "test" /\ producer' = "advance"
      /\ size_ \in 0 .. Capacity - 1 /\ read_ \in Slots
      /\ write_ \in Slots
      /\ slots_' = [slots_ EXCEPT ![write_] = argument]
      /\ argument \in Trade
  BY <1>1 DEF Inv, PushEmplace, ProducerAt, Exclusive, TypeOK, Justified
<1>4. Held = size_ /\ Held' = size_ + 1 /\ Base = 0 /\ Base' = 0
  BY <1>3 DEF Held, Base, PushTookEffect, PopTookEffect
<1>5. write_ = After(read_, size_)
  BY <1>3 DEF Inv, Window, WriteAt
<1>6. \A k : After(read_, k)' = After(read_, k)
  BY <1>3 DEF After
<1>7. /\ Contents \in Seq(Trade \cup {NoTrade}) /\ Len(Contents) = size_
      /\ Contents' \in Seq(Trade \cup {NoTrade}) /\ Len(Contents') = size_ + 1
  BY <1>2, <1>4 DEF ContentsView
<1>8. ASSUME NEW i \in 1 .. size_ + 1
      PROVE  Contents'[i] = IF i = size_ + 1 THEN argument ELSE Contents[i]
  <2>1. i - 1 \in Slots /\ size_ \in Slots /\ i - 1 + 0 = i - 1
    BY <1>1, <1>3 DEF Slots
  <2>2. Contents'[i] = slots_'[After(read_, i - 1)]
    BY <1>2, <1>4, <1>6, <2>1 DEF ContentsView
  <2>3. After(read_, i - 1) \in Slots
    <3>1. i - 1 \in 0 .. Capacity
      BY <1>1, <1>3
    <3> QED
      BY <1>3, <3>1, AfterWraps
  <2>4. CASE i = size_ + 1
    BY <1>3, <1>5, <2>2, <2>4 DEF Inv, TypeOK
  <2>5. CASE i # size_ + 1
    <3>1. After(read_, i - 1) # write_
      BY <1>3, <1>5, <2>1, <2>5, AfterInjective
    <3>2. i \in 1 .. size_
      BY <1>3, <2>5
    <3>3. Contents[i] = slots_[After(read_, i - 1)]
      BY <1>2, <1>4, <2>1, <3>2 DEF ContentsView
    <3> QED
      BY <1>3, <2>2, <2>3, <2>5, <3>1, <3>3 DEF Inv, TypeOK
  <2> QED
    BY <2>4, <2>5
<1>9. Contents' = Append(Contents, argument)
  <2>1. /\ Append(Contents, argument) \in Seq(Trade \cup {NoTrade})
        /\ Len(Append(Contents, argument)) = size_ + 1
        /\ \A i \in 1 .. size_ + 1 :
             Append(Contents, argument)[i]
               = IF i = size_ + 1 THEN argument ELSE Contents[i]
    BY <1>3, <1>7, AppendProperties
  <2> QED
    BY <1>7, <1>8, <2>1, SeqEqual
<1> QED
  BY <1>1, <1>3, <1>7, <1>9

(* Moving the value out is the pop.                                        *)
LEMMA ContentsPop ==
  ASSUME Inv, PopMove
  PROVE  /\ Contents # << >>
         /\ value' = Head(Contents)
         /\ Contents' = Tail(Contents)
<1>1. Capacity \in Nat /\ Capacity > 0
  BY QueueAssumption
<1>2. ContentsView /\ ContentsView'
  BY PopMoveKeeps, ContentsFromRead, ContentsFromReadNext
<1>3. /\ producer \notin {"advance", "count"}
      /\ producer' = producer /\ read_' = read_ /\ size_' = size_
      /\ slots_' = slots_
      /\ consumer = "test" /\ consumer' = "reset"
      /\ size_ \in 1 .. Capacity /\ read_ \in Slots
      /\ value' = slots_[read_]
  BY DEF Inv, PopMove, ConsumerAt, Exclusive, TypeOK, ring
<1>4. Held = size_ /\ Held' = size_ - 1 /\ Base = 0 /\ Base' = 1
  BY <1>3 DEF Held, Base, PushTookEffect, PopTookEffect
<1>5. \A k : After(read_, k)' = After(read_, k)
  BY <1>3 DEF After
<1>6. /\ Contents \in Seq(Trade \cup {NoTrade}) /\ Len(Contents) = size_
      /\ Contents' \in Seq(Trade \cup {NoTrade}) /\ Len(Contents') = size_ - 1
  BY <1>2, <1>4 DEF ContentsView
<1>7. Contents # << >>
  BY <1>3, <1>6, EmptySeq
<1>8. Contents[1] = slots_[read_]
  <2>1. After(read_, 1 - 1 + 0) = read_
    BY <1>3, AfterAdds
  <2> QED
    BY <1>2, <1>3, <1>4, <2>1 DEF ContentsView
<1>9. ASSUME NEW i \in 1 .. size_ - 1
      PROVE  Contents'[i] = Contents[i + 1]
  <2>1. i + 1 \in 1 .. size_ /\ i - 1 + 1 = (i + 1) - 1 + 0
    BY <1>3
  <2>2. Contents[i + 1] = slots_[After(read_, (i + 1) - 1 + 0)]
    BY <1>2, <1>4, <2>1 DEF ContentsView
  <2>3. Contents'[i] = slots_[After(read_, i - 1 + 1)]
    BY <1>2, <1>3, <1>4, <1>5 DEF ContentsView
  <2> QED
    BY <2>1, <2>2, <2>3
<1>10. Contents' = Tail(Contents)
  <2>1. /\ Tail(Contents) \in Seq(Trade \cup {NoTrade})
        /\ Len(Tail(Contents)) = size_ - 1
        /\ \A i \in 1 .. size_ - 1 : Tail(Contents)[i] = Contents[i + 1]
    BY <1>3, <1>6, <1>7, HeadTailProperties
  <2> QED
    BY <1>6, <1>9, <2>1, SeqEqual
<1> QED
  BY <1>3, <1>6, <1>7, <1>8, <1>10, HeadTailProperties

(* Every other statement leaves the FIFO as it is.                         *)
LEMMA ContentsSame ==
  ASSUME Inv, [Next]_vars, ~PushEmplace, ~PopMove
  PROVE  Contents' = Contents
<1>1. Capacity \in Nat /\ Capacity > 0
  BY QueueAssumption
<1>2. CASE PopReset
  <2>1. /\ Held' = Held /\ First' = First
        /\ First = After(read_, 1) /\ Base = 1
        /\ read_ \in Slots /\ After(read_, 0) = read_ /\ 0 \in Slots
        /\ slots_' = [slots_ EXCEPT ![read_] = NoTrade]
    BY <1>1, <1>2, AfterAdds
       DEF PopReset, ConsumerAt, Held, First, Base, After, PushTookEffect,
           PopTookEffect, Inv, TypeOK, Slots
  <2>2. ASSUME NEW i \in 1 .. Held
        PROVE  slots_'[(First + (i - 1)) % Capacity]
                 = slots_[(First + (i - 1)) % Capacity]
    <3>1. i \in Slots /\ i - 1 \in Slots /\ i # 0
      <4>1. i - 1 + 1 \in Slots /\ Held \in 0 .. Capacity
        BY <2>1, ContentsFromRead DEF ContentsView
      <4> QED
        BY <1>1, <4>1 DEF Slots
    <3>2. (First + (i - 1)) % Capacity = After(read_, i)
      <4>1. After(After(read_, 1), i - 1) = After(read_, (i - 1) + 1)
        BY <2>1, <3>1, AfterAdds
      <4>2. (i - 1) + 1 = i
        BY <1>1, <3>1 DEF Slots
      <4> QED
        BY <2>1, <4>1, <4>2 DEF After
    <3>3. After(read_, i) # read_
      BY <2>1, <3>1, AfterInjective
    <3> QED
      BY <2>1, <3>2, <3>3 DEF Inv, TypeOK
  <2> QED
    BY <2>1, <2>2 DEF Contents
<1>3. CASE ~PopReset
  <2>1. Held' = Held /\ First' = First /\ slots_' = slots_
    BY <1>3 DEF Next, CallPush, PushLock, PushFull, PushAdvance, PushCount,
       ReturnTrue, ReturnFalse, CallPop, PopLock, PopEmpty, PopAdvance,
       PopCount, ReturnValue, vars, ring, ProducerAt, ConsumerAt, Held, First,
       PushTookEffect, PopTookEffect, Inv, TypeOK
  <2> QED
    BY <2>1 DEF Contents
<1> QED
  BY <1>2, <1>3

-----------------------------------------------------------------------------
(* The empty queue is an empty FIFO.                                       *)
LEMMA FifoInit == Init => Fifo!SpscInit
<1> SUFFICES ASSUME Init PROVE Fifo!SpscInit
  OBVIOUS
<1>1. Contents = << >>
  <2>1. Len(Contents) = 0 /\ Contents \in Seq(Trade \cup {NoTrade})
    BY InvInit, ContentsFromRead
       DEF ContentsView, Init, Held, PushTookEffect, PopTookEffect
  <2> QED
    BY <2>1, EmptySeq
<1>2. PushPhase = "idle" /\ PopPhase = "idle"
  BY DEF Init, PushPhase, PopPhase, PushTookEffect, PopTookEffect
<1> QED
  BY <1>1, <1>2 DEF Init, Fifo!SpscInit

(* A step of the producer is one of its calls' steps, or none.             *)
LEMMA FifoPush ==
  ASSUME Inv,
         \/ CallPush \/ PushLock \/ PushFull \/ PushEmplace \/ PushAdvance
         \/ PushCount \/ ReturnTrue \/ ReturnFalse
  PROVE  Fifo!SpscNext \/ UNCHANGED Fifo!spscVars
<1>1. [Next]_vars /\ ~PopMove /\ (~PushEmplace => Contents' = Contents)
  <2>1. [Next]_vars
    BY DEF Next
  <2>2. ~PopMove
    BY DEF CallPush, PushLock, PushFull, PushEmplace, PushAdvance, PushCount,
       ReturnTrue, ReturnFalse, ProducerAt, PopMove, ConsumerAt, Inv, TypeOK
  <2> QED
    BY <2>1, <2>2, ContentsSame
<1>2. consumer' = consumer /\ value' = value
  BY DEF CallPush, PushLock, PushFull, PushEmplace, PushAdvance, PushCount,
     ReturnTrue, ReturnFalse, ProducerAt
<1>3. PopPhase' = PopPhase
  BY <1>2 DEF PopPhase, PopTookEffect
<1> USE DEF ProducerAt, PushPhase, PushTookEffect
<1>4. CASE CallPush
  <2>1. PushPhase = "idle" /\ PushPhase' = "called" /\ Contents' = Contents
    BY <1>1, <1>4 DEF CallPush, PushEmplace
  <2>2. PICK trade \in Trade : argument' = trade
    BY <1>4 DEF CallPush
  <2>3. Fifo!CallPush(trade)
    BY <1>2, <1>3, <2>1, <2>2 DEF Fifo!CallPush
  <2> QED
    BY <2>3 DEF Fifo!SpscNext
<1>5. CASE PushFull
  <2>1. PushPhase = "called" /\ PushPhase' = "rejected"
        /\ Contents' = Contents /\ argument' = argument
    BY <1>1, <1>5 DEF PushFull, PushEmplace
  <2>2. Len(Contents) = Capacity
    BY <1>5, ContentsFromRead
       DEF PushFull, ContentsView, Held, PopTookEffect, Inv, Exclusive, TypeOK
  <2>3. Fifo!RejectPush
    BY <1>2, <1>3, <2>1, <2>2
       DEF Fifo!RejectPush, Fifo!PushRejected, Fifo!IsFull
  <2> QED
    BY <2>3 DEF Fifo!SpscNext
<1>6. CASE PushEmplace
  <2>1. PushPhase = "called" /\ PushPhase' = "accepted"
        /\ argument' = argument
    BY <1>6 DEF PushEmplace
  <2>2. Fifo!AcceptPush
    BY <1>2, <1>3, <1>6, <2>1, ContentsPush
       DEF Fifo!AcceptPush, Fifo!PushAccepted, Fifo!IsFull
  <2> QED
    BY <2>2 DEF Fifo!SpscNext
<1>7. CASE ReturnTrue
  <2>1. PushPhase = "accepted" /\ PushPhase' = "idle"
        /\ Contents' = Contents /\ argument' = NoTrade
    BY <1>1, <1>7 DEF ReturnTrue, PushEmplace
  <2>2. Fifo!ReturnPush
    BY <1>2, <1>3, <2>1 DEF Fifo!ReturnPush
  <2> QED
    BY <2>2 DEF Fifo!SpscNext
<1>8. CASE ReturnFalse
  <2>1. PushPhase = "rejected" /\ PushPhase' = "called"
        /\ Contents' = Contents /\ argument' = argument
    BY <1>1, <1>8 DEF ReturnFalse, PushEmplace
  <2>2. Fifo!RepeatPush
    BY <1>2, <1>3, <2>1 DEF Fifo!RepeatPush
  <2> QED
    BY <2>2 DEF Fifo!SpscNext
<1>9. CASE PushLock \/ PushAdvance \/ PushCount
  <2>1. PushPhase' = PushPhase /\ Contents' = Contents /\ argument' = argument
    BY <1>1, <1>9 DEF PushLock, PushAdvance, PushCount, PushEmplace
  <2> QED
    BY <1>2, <1>3, <2>1 DEF Fifo!spscVars
<1> QED
  BY <1>4, <1>5, <1>6, <1>7, <1>8, <1>9

(* And so is a step of the consumer.                                       *)
LEMMA FifoPop ==
  ASSUME Inv,
         \/ CallPop \/ PopLock \/ PopEmpty \/ PopMove \/ PopReset
         \/ PopAdvance \/ PopCount \/ ReturnValue
  PROVE  Fifo!SpscNext \/ UNCHANGED Fifo!spscVars
<1>1. [Next]_vars /\ ~PushEmplace /\ (~PopMove => Contents' = Contents)
  <2>1. [Next]_vars
    BY DEF Next
  <2>2. ~PushEmplace
    BY DEF CallPop, PopLock, PopEmpty, PopMove, PopReset, PopAdvance,
       PopCount, ReturnValue, ConsumerAt, PushEmplace, ProducerAt, Inv, TypeOK
  <2> QED
    BY <2>1, <2>2, ContentsSame
<1>2. producer' = producer /\ argument' = argument
  BY DEF CallPop, PopLock, PopEmpty, PopMove, PopReset, PopAdvance, PopCount,
     ReturnValue, ConsumerAt
<1>3. PushPhase' = PushPhase
  BY <1>2 DEF PushPhase, PushTookEffect
<1> USE DEF ConsumerAt, PopPhase, PopTookEffect
<1>4. CASE CallPop
  <2>1. PopPhase = "idle" /\ PopPhase' = "called"
        /\ Contents' = Contents /\ value' = value
    BY <1>1, <1>4 DEF CallPop, PopMove
  <2>2. Fifo!CallPop
    BY <1>2, <1>3, <2>1 DEF Fifo!CallPop
  <2> QED
    BY <2>2 DEF Fifo!SpscNext
<1>5. CASE PopEmpty
  <2>1. PopPhase = "called" /\ PopPhase' = "done"
        /\ Contents' = Contents /\ value' = value
    BY <1>1, <1>5 DEF PopEmpty, PopMove
  <2>2. Contents = << >>
    <3>1. Held = 0
      BY <1>5 DEF PopEmpty, Held, PushTookEffect, Inv, Exclusive, TypeOK
    <3> QED
      BY <3>1, ContentsFromRead, EmptySeq DEF ContentsView
  <2>3. Fifo!TakeNothing
    BY <1>2, <1>3, <2>1, <2>2
       DEF Fifo!TakeNothing, Fifo!PopNothing, Fifo!IsEmpty
  <2> QED
    BY <2>3 DEF Fifo!SpscNext
<1>6. CASE PopMove
  <2>1. PopPhase = "called" /\ PopPhase' = "done"
    BY <1>6 DEF PopMove
  <2>2. Fifo!TakeValue
    BY <1>2, <1>3, <1>6, <2>1, ContentsPop
       DEF Fifo!TakeValue, Fifo!PopValue, Fifo!IsEmpty
  <2> QED
    BY <2>2 DEF Fifo!SpscNext
<1>7. CASE ReturnValue
  <2>1. PopPhase = "done" /\ PopPhase' = "idle"
        /\ Contents' = Contents /\ value' = NoTrade
    BY <1>1, <1>7 DEF ReturnValue, PopMove
  <2>2. Fifo!ReturnPop
    BY <1>2, <1>3, <2>1 DEF Fifo!ReturnPop
  <2> QED
    BY <2>2 DEF Fifo!SpscNext
<1>8. CASE PopLock \/ PopReset \/ PopAdvance \/ PopCount
  <2>1. PopPhase' = PopPhase /\ Contents' = Contents /\ value' = value
    BY <1>1, <1>8 DEF PopLock, PopReset, PopAdvance, PopCount, PopMove
  <2> QED
    BY <1>2, <1>3, <2>1 DEF Fifo!spscVars
<1> QED
  BY <1>4, <1>5, <1>6, <1>7, <1>8

(* Every statement is a step of the FIFO, or none.                         *)
LEMMA FifoStep == Inv /\ [Next]_vars => [Fifo!SpscNext]_(Fifo!spscVars)
<1> SUFFICES ASSUME Inv, [Next]_vars
             PROVE  Fifo!SpscNext \/ UNCHANGED Fifo!spscVars
  OBVIOUS
<1>1. CASE UNCHANGED vars
  <2>1. ~PushEmplace /\ ~PopMove
    BY <1>1 DEF vars, PushEmplace, PopMove, ProducerAt, ConsumerAt
  <2>2. Contents' = Contents
    BY <2>1, ContentsSame
  <2>3. PushPhase' = PushPhase /\ PopPhase' = PopPhase
    BY <1>1 DEF vars, PushPhase, PopPhase, PushTookEffect, PopTookEffect
  <2> QED
    BY <1>1, <2>2, <2>3 DEF vars, Fifo!spscVars
<1>2. CASE Next
  BY <1>2, FifoPush, FifoPop DEF Next
<1> QED
  BY <1>1, <1>2

(* The mutex makes every call of standard_spsc_queue atomic: whatever the  *)
(* statements of the two threads do in between, callers see a bounded FIFO *)
(* that never loses, repeats or reorders a value, and leaves a rejected    *)
(* one in their hands.                                                     *)
THEOREM Refinement == Spec => RefinesSpscQueue
  BY FifoInit, FifoStep, InvCorrect, PTL
     DEF Spec, RefinesSpscQueue, Fifo!SpscSpec
=============================================================================
