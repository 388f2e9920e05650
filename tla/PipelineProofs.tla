--------------------------- MODULE PipelineProofs ---------------------------
(***************************************************************************)
(* Proofs about Pipeline for every queue capacity, set of trades and       *)
(* length of recording.                                                    *)
(***************************************************************************)
EXTENDS Pipeline, SequenceTheorems, TLAPS

(* A push joins one trade to the tail and stays within the capacity.       *)
LEMMA PushStep ==
  ASSUME NEW value \in Trade, queue \in Seq(Trade), Len(queue) <= Capacity,
         PushAccepted(value)
  PROVE  /\ queue' \in Seq(Trade)
         /\ Len(queue') = Len(queue) + 1
         /\ Len(queue') <= Capacity
         /\ \A i \in 1 .. Len(queue) : queue'[i] = queue[i]
         /\ queue'[Len(queue) + 1] = value
  BY AppendProperties, LenProperties, CapacityAssumption
     DEF PushAccepted, IsFull

(* A pop takes the oldest trade and keeps the others in order.             *)
LEMMA PopStep ==
  ASSUME queue \in Seq(Trade), PopValue
  PROVE  /\ Head(queue) \in Trade
         /\ Head(queue) = queue[1]
         /\ queue' \in Seq(Trade)
         /\ Len(queue) \in Nat \ {0}
         /\ Len(queue') = Len(queue) - 1
         /\ \A i \in 1 .. Len(queue') : queue'[i] = queue[i + 1]
<1>1. queue # << >> /\ queue' = Tail(queue)
  BY DEF PopValue, IsEmpty
<1>2. Len(queue) \in Nat \ {0}
  BY <1>1, EmptySeq
<1>3. Head(queue) = queue[1]
  BY <1>1, <1>2
<1> QED
  BY <1>1, <1>2, <1>3, HeadTailProperties

LEMMA TypeInit == Init => TypeOK
<1>1. << >> \in Seq(Trade) /\ Len(<< >>) = 0
  BY EmptySeq
<1>2. 0 \in 0 .. CounterRange - 1
  BY PipelineAssumption
<1>3. EmptyReport \in Report
  BY <1>1, <1>2 DEF Report, EmptyReport
<1> SUFFICES ASSUME Init PROVE TypeOK
  OBVIOUS
<1>4. Len(queue) <= Capacity
  BY <1>1, CapacityAssumption DEF Init
<1>5. Accepted \in Nat
  BY <1>1 DEF Init, Accepted, Pushing
<1>6. pending \in IF main = "pushing" THEN Trade ELSE {NoTrade}
  BY DEF Init
<1>7. current \in IF worker \in {"observe", "hash", "count"} THEN Trade
                                                          ELSE {NoTrade}
  BY DEF Init
<1>8. main \in MainStates /\ worker \in WorkerStates
  BY DEF Init, MainStates, WorkerStates
<1> QED
  BY <1>1, <1>2, <1>3, <1>4, <1>5, <1>6, <1>7, <1>8 DEF Init, TypeOK

LEMMA TypeStep == TypeOK /\ [Next]_vars => TypeOK'
<1> SUFFICES ASSUME TypeOK, [Next]_vars PROVE TypeOK'
  OBVIOUS
<1> USE DEF TypeOK, MainStates, WorkerStates, MainAt, WorkerAt, aggregates,
            mainVars, Accepted, Pushing
<1>1. CASE StartWorker
  BY <1>1 DEF StartWorker
<1>2. CASE InitMembers
  <2>1. << >> \in Seq(Trade) /\ 0 \in 0 .. CounterRange - 1
    BY EmptySeq, PipelineAssumption
  <2> QED
    BY <1>2, <2>1 DEF InitMembers
<1>3. CASE Submit
  BY <1>3, AppendProperties DEF Submit
<1>4. CASE TryPush
  <2>1. pending \in Trade /\ PushAccepted(pending)
    BY <1>4 DEF TryPush
  <2> QED
    BY <1>4, <2>1, PushStep DEF TryPush
<1>5. CASE RetryPush
  BY <1>5, PipelineAssumption DEF RetryPush, PushRejected
<1>6. CASE EndOfCapture
  BY <1>6 DEF EndOfCapture
<1>7. CASE ReadThrows
  BY <1>7 DEF ReadThrows
<1>8. CASE SignalDone
  BY <1>8 DEF SignalDone
<1>9. CASE Join
  BY <1>9 DEF Join
<1>10. CASE TakeReport
  BY <1>10 DEF TakeReport, Report
<1>11. CASE DestroyFinished
  BY <1>11 DEF DestroyFinished
<1>12. CASE TryPop
  <2>1. PopValue /\ current' = Head(queue)
    BY <1>12 DEF TryPop
  <2>2. Head(queue) \in Trade /\ queue' \in Seq(Trade)
        /\ Len(queue') <= Capacity
    BY <2>1, PopStep, CapacityAssumption
  <2> QED
    BY <1>12, <2>1, <2>2 DEF TryPop
<1>13. CASE PopEmpty
  BY <1>13 DEF PopEmpty, PopNothing
<1>14. CASE Observe
  BY <1>14 DEF Observe
<1>15. CASE UpdateChecksum
  BY <1>15, AppendProperties DEF UpdateChecksum
<1>16. CASE CountEvent
  BY <1>16 DEF CountEvent
<1>17. CASE CheckDone
  BY <1>17 DEF CheckDone
<1>18. CASE Done \/ UNCHANGED vars
  BY <1>18 DEF Done, vars
<1> QED
  BY <1>1, <1>2, <1>3, <1>4, <1>5, <1>6, <1>7, <1>8, <1>9, <1>10, <1>11,
     <1>12, <1>13, <1>14, <1>15, <1>16, <1>17, <1>18
     DEF Next, MainNext, WorkerNext

(* Every reachable state has the types TypeOK gives; in particular a       *)
(* rejected try_push is the only way submit meets a full queue.            *)
THEOREM TypeCorrect == Spec => []TypeOK
  BY TypeInit, TypeStep, PTL DEF Spec

-----------------------------------------------------------------------------
(* Where the two threads can be together: the worker exists from its start *)
(* until main joins it, the flag is set from just before the join on, and  *)
(* nothing has flowed while the constructor runs.                          *)
Lifecycle ==
  /\ main = "start_worker" <=> worker = "unstarted"
  /\ main \in {"start_worker", "init_members"} =>
       /\ worker \in {"unstarted", "pop", "check"}
       /\ queue = << >> /\ submitted = << >> /\ checksum_ = << >>
       /\ histogram_ = 0 /\ events_ = 0
  /\ producer_done_ <=> main = "join" \/ finished_
  /\ finished_ <=> worker = "joined"
  /\ finished_ <=> main \in {"report", "returned", "thrown"}
                   \/ (main = "destroy" /\ ~unwinding)
  /\ worker = "exited" => producer_done_
  /\ unwinding => main \in {"destroy", "join", "thrown"}

LEMMA LifecycleStep == TypeOK /\ Lifecycle /\ [Next]_vars => Lifecycle'
<1> SUFFICES ASSUME TypeOK, Lifecycle, [Next]_vars PROVE Lifecycle'
  OBVIOUS
<1>0. /\ main \in MainStates /\ worker \in WorkerStates
      /\ producer_done_ \in BOOLEAN /\ finished_ \in BOOLEAN
      /\ unwinding \in BOOLEAN
  BY DEF TypeOK
<1> USE <1>0 DEF Lifecycle, MainStates, WorkerStates, MainAt, WorkerAt,
                 aggregates, mainVars
<1>1. CASE StartWorker
  BY <1>1 DEF StartWorker
<1>2. CASE InitMembers
  BY <1>2 DEF InitMembers
<1>3. CASE Submit
  BY <1>3 DEF Submit
<1>4. CASE TryPush
  BY <1>4 DEF TryPush
<1>5. CASE RetryPush
  BY <1>5 DEF RetryPush
<1>6. CASE EndOfCapture
  BY <1>6 DEF EndOfCapture
<1>7. CASE ReadThrows
  BY <1>7 DEF ReadThrows
<1>8. CASE SignalDone
  BY <1>8 DEF SignalDone
<1>9. CASE Join
  <2>1. producer_done_
    BY <1>9 DEF Join
  <2>2. CASE unwinding
    BY <1>9, <2>1, <2>2 DEF Join
  <2>3. CASE ~unwinding
    BY <1>9, <2>1, <2>3 DEF Join
  <2> QED
    BY <2>2, <2>3
<1>10. CASE TakeReport
  BY <1>10 DEF TakeReport
<1>11. CASE DestroyFinished
  BY <1>11 DEF DestroyFinished
<1>12. CASE TryPop
  BY <1>12 DEF TryPop, PopValue, IsEmpty
<1>13. CASE PopEmpty
  BY <1>13 DEF PopEmpty, PopNothing
<1>14. CASE Observe
  BY <1>14 DEF Observe
<1>15. CASE UpdateChecksum
  BY <1>15 DEF UpdateChecksum
<1>16. CASE CountEvent
  BY <1>16 DEF CountEvent
<1>17. CASE CheckDone
  BY <1>17 DEF CheckDone
<1>18. CASE Done \/ UNCHANGED vars
  BY <1>18 DEF Done, vars
<1> QED
  BY <1>1, <1>2, <1>3, <1>4, <1>5, <1>6, <1>7, <1>8, <1>9, <1>10, <1>11,
     <1>12, <1>13, <1>14, <1>15, <1>16, <1>17, <1>18
     DEF Next, MainNext, WorkerNext

(* The threads only meet in the states Lifecycle lists: consume never ends *)
(* before finish has set the flag, and the destructor never finds a        *)
(* joinable thread after a normal finish.                                  *)
THEOREM LifecycleCorrect == Spec => []Lifecycle
<1>1. Init => Lifecycle
  BY DEF Init, Lifecycle
<1> QED
  BY <1>1, LifecycleStep, TypeCorrect, PTL DEF Spec

-----------------------------------------------------------------------------
(* The counters of consume relative to the trades it has hashed.           *)
Counters ==
  /\ histogram_ = Len(checksum_) + IF worker = "hash" THEN 1 ELSE 0
  /\ events_ = Len(checksum_) - IF worker = "count" THEN 1 ELSE 0

(* After an empty try_pop nothing is hashed until the next successful one. *)
LastEmptyPop ==
  worker \in {"check", "exited", "joined"} => emptyAt = Len(checksum_)

Handoff == FifoHandoff /\ Counters /\ LastEmptyPop

LEMMA HandoffInit == Init => Handoff
  BY EmptySeq
     DEF Init, Handoff, FifoHandoff, Counters, LastEmptyPop, Accepted, Taken,
         InFlight, Pushing

(* submit appends to the submitted sequence and touches nothing else.      *)
LEMMA HandoffSubmit ==
  ASSUME TypeOK, Handoff, Submit
  PROVE  Handoff'
<1>1. PICK value \in Trade :
        pending' = value /\ submitted' = Append(submitted, value)
  BY DEF Submit
<1>2. /\ Len(submitted') = Len(submitted) + 1
      /\ submitted'[Len(submitted) + 1] = value
      /\ \A i \in 1 .. Len(submitted) : submitted'[i] = submitted[i]
  BY <1>1, AppendProperties DEF TypeOK
<1>3. main = "reading" /\ main' = "pushing"
  BY DEF Submit, MainAt
<1>4. UNCHANGED << queue, worker, aggregates, current, emptyAt >>
  BY DEF Submit
<1>5. /\ Len(submitted) \in Nat /\ Len(queue) \in Nat
      /\ Len(checksum_) \in Nat
  BY LenProperties DEF TypeOK
<1>6. Len(submitted) = Taken + Len(queue) /\ Taken \in Nat
  BY <1>3, <1>5 DEF Handoff, FifoHandoff, Accepted, Pushing, Taken, InFlight
<1>7. Taken' = Taken /\ InFlight' = InFlight /\ Pushing' = 1
  BY <1>3, <1>4 DEF Taken, InFlight, Pushing, aggregates
<1>8. FifoHandoff'
  <2>1. Accepted' = Taken' + Len(queue')
    BY <1>2, <1>4, <1>5, <1>6, <1>7 DEF Accepted
  <2>2. \A i \in 1 .. Len(checksum_') : checksum_'[i] = submitted'[i]
    BY <1>2, <1>4, <1>5, <1>6
       DEF Handoff, FifoHandoff, Taken, InFlight, aggregates
  <2>3. InFlight' = 1 => current' = submitted'[Taken']
    BY <1>2, <1>4, <1>5, <1>6, <1>7 DEF Handoff, FifoHandoff, Taken, InFlight
  <2>4. \A i \in 1 .. Len(queue') : queue'[i] = submitted'[Taken' + i]
    BY <1>2, <1>4, <1>5, <1>6, <1>7 DEF Handoff, FifoHandoff
  <2>5. Pushing' = 1 => pending' = submitted'[Len(submitted')]
    BY <1>1, <1>2
  <2> QED
    BY <2>1, <2>2, <2>3, <2>4, <2>5 DEF FifoHandoff
<1>9. (Counters /\ LastEmptyPop)'
  BY <1>4 DEF Handoff, Counters, LastEmptyPop, aggregates
<1> QED
  BY <1>8, <1>9 DEF Handoff

(* try_push moves the pending trade to the tail of the queue.              *)
LEMMA HandoffPush ==
  ASSUME TypeOK, Handoff, TryPush
  PROVE  Handoff'
<1>1. main = "pushing" /\ main' = "reading"
  BY DEF TryPush, MainAt
<1>2. UNCHANGED << worker, aggregates, current, submitted, emptyAt >>
  BY DEF TryPush
<1>3. pending \in Trade
  BY <1>1 DEF TypeOK
<1>4. /\ Len(queue') = Len(queue) + 1
      /\ \A i \in 1 .. Len(queue) : queue'[i] = queue[i]
      /\ queue'[Len(queue) + 1] = pending
  BY <1>3, PushStep DEF TryPush, TypeOK
<1>5. /\ Len(submitted) \in Nat /\ Len(queue) \in Nat
      /\ Len(checksum_) \in Nat
  BY LenProperties DEF TypeOK
<1>6. /\ Len(submitted) = Taken + Len(queue) + 1
      /\ Taken \in Nat
      /\ pending = submitted[Len(submitted)]
  BY <1>1, <1>5 DEF Handoff, FifoHandoff, Accepted, Pushing, Taken, InFlight
<1>7. Taken' = Taken /\ InFlight' = InFlight /\ Pushing' = 0
  BY <1>1, <1>2 DEF Taken, InFlight, Pushing, aggregates
<1>8. FifoHandoff'
  <2>1. Accepted' = Taken' + Len(queue')
    BY <1>2, <1>4, <1>5, <1>6, <1>7 DEF Accepted
  <2>2. \A i \in 1 .. Len(checksum_') : checksum_'[i] = submitted'[i]
    BY <1>2 DEF Handoff, FifoHandoff, aggregates
  <2>3. InFlight' = 1 => current' = submitted'[Taken']
    BY <1>2, <1>7 DEF Handoff, FifoHandoff
  <2>4. \A i \in 1 .. Len(queue') : queue'[i] = submitted'[Taken' + i]
    <3> SUFFICES ASSUME NEW i \in 1 .. Len(queue')
                 PROVE  queue'[i] = submitted[Taken + i]
      BY <1>2, <1>7
    <3>1. CASE i = Len(queue) + 1
      BY <3>1, <1>4, <1>5, <1>6
    <3>2. CASE i # Len(queue) + 1
      BY <3>2, <1>4, <1>5 DEF Handoff, FifoHandoff
    <3> QED
      BY <3>1, <3>2
  <2>5. Pushing' = 1 => pending' = submitted'[Len(submitted')]
    BY <1>7
  <2> QED
    BY <2>1, <2>2, <2>3, <2>4, <2>5 DEF FifoHandoff
<1>9. (Counters /\ LastEmptyPop)'
  BY <1>2 DEF Handoff, Counters, LastEmptyPop, aggregates
<1> QED
  BY <1>8, <1>9 DEF Handoff

(* try_pop moves the head of the queue into the worker's hands.            *)
LEMMA HandoffPop ==
  ASSUME TypeOK, Handoff, TryPop
  PROVE  Handoff'
<1>1. worker = "pop" /\ worker' = "observe"
  BY DEF TryPop, WorkerAt
<1>2. UNCHANGED << main, aggregates, mainVars, submitted, emptyAt >>
  BY DEF TryPop
<1>3. /\ current' = queue[1]
      /\ Len(queue) \in Nat \ {0}
      /\ Len(queue') = Len(queue) - 1
      /\ \A i \in 1 .. Len(queue') : queue'[i] = queue[i + 1]
  BY PopStep DEF TryPop, TypeOK
<1>4. Len(submitted) \in Nat /\ Len(checksum_) \in Nat
  BY LenProperties DEF TypeOK
<1>5. Taken = Len(checksum_) /\ Taken' = Taken + 1 /\ InFlight' = 1
  BY <1>1, <1>2, <1>4 DEF Taken, InFlight, aggregates
<1>6. Accepted' = Accepted /\ Pushing' = Pushing
  BY <1>2 DEF Accepted, Pushing
<1>7. FifoHandoff'
  <2>1. Accepted' = Taken' + Len(queue')
    <3>1. Accepted = Taken + Len(queue)
      BY DEF Handoff, FifoHandoff
    <3>2. Taken \in Nat /\ Len(queue) \in Nat /\ Len(queue') \in Nat
      BY <1>3, <1>4, <1>5
    <3> QED
      BY <1>3, <1>5, <1>6, <3>1, <3>2
  <2>2. \A i \in 1 .. Len(checksum_') : checksum_'[i] = submitted'[i]
    BY <1>2 DEF Handoff, FifoHandoff, aggregates
  <2>3. InFlight' = 1 => current' = submitted'[Taken']
    BY <1>2, <1>3, <1>4, <1>5 DEF Handoff, FifoHandoff
  <2>4. \A i \in 1 .. Len(queue') : queue'[i] = submitted'[Taken' + i]
    <3> SUFFICES ASSUME NEW i \in 1 .. Len(queue')
                 PROVE  queue'[i] = submitted[Taken + 1 + i]
      BY <1>2, <1>5
    <3>1. i + 1 \in 1 .. Len(queue) /\ Taken + (i + 1) = Taken + 1 + i
      BY <1>3, <1>4, <1>5
    <3>2. queue[i + 1] = submitted[Taken + (i + 1)]
      BY <3>1 DEF Handoff, FifoHandoff
    <3> QED
      BY <1>3, <3>1, <3>2
  <2>5. Pushing' = 1 => pending' = submitted'[Len(submitted')]
    <3>1. pending' = pending /\ submitted' = submitted
      BY <1>2 DEF mainVars
    <3> QED
      BY <1>6, <3>1 DEF Handoff, FifoHandoff
  <2> QED
    BY <2>1, <2>2, <2>3, <2>4, <2>5 DEF FifoHandoff
<1>8. (Counters /\ LastEmptyPop)'
  BY <1>1, <1>2 DEF Handoff, Counters, LastEmptyPop, aggregates
<1> QED
  BY <1>7, <1>8 DEF Handoff

(* update_checksum takes the trade out of the worker's hands, in order.    *)
LEMMA HandoffHash ==
  ASSUME TypeOK, Handoff, UpdateChecksum
  PROVE  Handoff'
<1>1. worker = "hash" /\ worker' = "count"
  BY DEF UpdateChecksum, WorkerAt
<1>2. /\ UNCHANGED << queue, main, events_, histogram_, current, submitted,
                      emptyAt >>
      /\ pending' = pending
      /\ checksum_' = Append(checksum_, current)
  BY DEF UpdateChecksum, mainVars
<1>3. current \in Trade
  BY <1>1 DEF TypeOK
<1>4. /\ Len(checksum_') = Len(checksum_) + 1
      /\ \A i \in 1 .. Len(checksum_) : checksum_'[i] = checksum_[i]
      /\ checksum_'[Len(checksum_) + 1] = current
  BY <1>2, <1>3, AppendProperties DEF TypeOK
<1>5. Len(checksum_) \in Nat
  BY LenProperties DEF TypeOK
<1>6. /\ InFlight = 1 /\ InFlight' = 0
      /\ Taken = Len(checksum_) + 1 /\ Taken' = Taken
  BY <1>1, <1>4, <1>5 DEF InFlight, Taken
<1>7. Accepted' = Accepted /\ Pushing' = Pushing
  BY <1>2 DEF Accepted, Pushing
<1>8. current = submitted[Taken]
  BY <1>6 DEF Handoff, FifoHandoff
<1>9. FifoHandoff'
  <2>1. \A i \in 1 .. Len(checksum_') : checksum_'[i] = submitted'[i]
    <3> SUFFICES ASSUME NEW i \in 1 .. Len(checksum_')
                 PROVE  checksum_'[i] = submitted[i]
      BY <1>2
    <3>1. CASE i = Len(checksum_) + 1
      BY <3>1, <1>4, <1>6, <1>8
    <3>2. CASE i # Len(checksum_) + 1
      BY <3>2, <1>4, <1>5 DEF Handoff, FifoHandoff
    <3> QED
      BY <3>1, <3>2
  <2> QED
    BY <2>1, <1>2, <1>6, <1>7 DEF Handoff, FifoHandoff
<1>10. (Counters /\ LastEmptyPop)'
  BY <1>1, <1>2, <1>4, <1>5 DEF Handoff, Counters, LastEmptyPop
<1> QED
  BY <1>9, <1>10 DEF Handoff

(* An empty pop accounts for every accepted trade: none is left in the     *)
(* queue or in the worker's hands.                                         *)
LEMMA HandoffPopEmpty ==
  ASSUME TypeOK, Handoff, PopEmpty
  PROVE  Handoff'
<1>1. worker = "pop" /\ worker' = "check"
  BY DEF PopEmpty, WorkerAt
<1>2. /\ UNCHANGED << queue, main, aggregates, current, submitted >>
      /\ pending' = pending
      /\ queue = << >>
      /\ emptyAt' = Accepted
  BY DEF PopEmpty, PopNothing, IsEmpty, mainVars
<1>3. /\ histogram_' = histogram_ /\ events_' = events_
      /\ checksum_' = checksum_
  BY <1>2 DEF aggregates
<1>4. Len(checksum_) \in Nat
  BY LenProperties DEF TypeOK
<1>5. /\ Taken = Len(checksum_) /\ Taken' = Taken /\ InFlight' = InFlight
      /\ Accepted' = Accepted /\ Pushing' = Pushing
  BY <1>1, <1>2, <1>3, <1>4 DEF Taken, InFlight, Accepted, Pushing
<1>6. Accepted = Len(checksum_)
  BY <1>2, <1>4, <1>5, EmptySeq DEF Handoff, FifoHandoff
<1>7. FifoHandoff'
  BY <1>2, <1>3, <1>5 DEF Handoff, FifoHandoff
<1>8. (Counters /\ LastEmptyPop)'
  BY <1>1, <1>2, <1>3, <1>6 DEF Handoff, Counters, LastEmptyPop
<1> QED
  BY <1>7, <1>8 DEF Handoff

(* The worker's other steps move no trade.                                 *)
LEMMA HandoffWorkerMoves ==
  ASSUME TypeOK, Handoff, Observe \/ CountEvent \/ CheckDone
  PROVE  Handoff'
<1>1. UNCHANGED << queue, main, pending, checksum_, submitted, emptyAt >>
  BY DEF Observe, CountEvent, CheckDone, mainVars, aggregates
<1>2. /\ Len(checksum_) \in Nat /\ histogram_ \in Nat /\ events_ \in Nat
  BY LenProperties DEF TypeOK
<1>3. InFlight' = InFlight /\ (InFlight = 1 => current' = current)
  BY DEF Observe, CountEvent, CheckDone, WorkerAt, InFlight
<1>4. Accepted' = Accepted /\ Pushing' = Pushing /\ Taken' = Taken
  BY <1>1, <1>3 DEF Accepted, Pushing, Taken
<1>5. FifoHandoff'
  BY <1>1, <1>3, <1>4 DEF Handoff, FifoHandoff
<1>6. Counters'
  BY <1>1, <1>2 DEF Handoff, Counters, Observe, CountEvent, CheckDone,
                    WorkerAt, aggregates
<1>7. LastEmptyPop'
  BY <1>1 DEF Handoff, LastEmptyPop, Observe, CountEvent, CheckDone, WorkerAt
<1> QED
  BY <1>5, <1>6, <1>7 DEF Handoff

(* The reading thread's other steps move no trade either.                  *)
LEMMA HandoffMainMoves ==
  ASSUME TypeOK, Lifecycle, Handoff,
         \/ StartWorker \/ InitMembers \/ RetryPush \/ EndOfCapture
         \/ ReadThrows \/ SignalDone \/ Join \/ TakeReport
         \/ DestroyFinished \/ Done \/ UNCHANGED vars
  PROVE  Handoff'
<1>1. /\ UNCHANGED << queue, pending, aggregates, current, submitted,
                      emptyAt >>
      /\ Pushing' = Pushing
      /\ InFlight' = InFlight
      /\ worker' # worker => \/ worker = "unstarted" /\ worker' = "pop"
                             \/ worker = "exited" /\ worker' = "joined"
  BY DEF StartWorker, InitMembers, RetryPush, EndOfCapture, ReadThrows,
         SignalDone, Join, TakeReport, DestroyFinished, Done, vars, MainAt,
         WorkerAt, PushRejected, Pushing, InFlight, mainVars, aggregates,
         Lifecycle
<1>2. UNCHANGED << histogram_, events_, checksum_ >>
  BY <1>1 DEF aggregates
<1>3. Accepted' = Accepted /\ Taken' = Taken
  BY <1>1, <1>2 DEF Accepted, Taken
<1>4. FifoHandoff'
  BY <1>1, <1>2, <1>3 DEF Handoff, FifoHandoff
<1>5. (Counters /\ LastEmptyPop)'
  BY <1>1, <1>2 DEF Handoff, Counters, LastEmptyPop
<1> QED
  BY <1>4, <1>5 DEF Handoff

LEMMA HandoffStep == TypeOK /\ Lifecycle /\ Handoff /\ [Next]_vars => Handoff'
<1> SUFFICES ASSUME TypeOK, Lifecycle, Handoff, [Next]_vars PROVE Handoff'
  OBVIOUS
<1> QED
  BY HandoffSubmit, HandoffPush, HandoffPop, HandoffHash, HandoffPopEmpty,
     HandoffWorkerMoves, HandoffMainMoves
     DEF Next, MainNext, WorkerNext

(* The two threads between them hold what was submitted, in its order: the *)
(* part of the inductive invariant about the trades on their way.          *)
THEOREM HandoffCorrect == Spec => []Handoff
  BY HandoffInit, HandoffStep, TypeCorrect, LifecycleCorrect, PTL DEF Spec

(* submit and consume between them lose, duplicate and reorder nothing.    *)
THEOREM FifoHandoffCorrect == Spec => []FifoHandoff
  BY HandoffCorrect, PTL DEF Handoff

(* What consume leaves behind is what was accepted after its last empty    *)
(* try_pop, and at most a queue full.                                      *)
THEOREM LossCorrect == Spec => []LossIsTheLateTail
<1>1. TypeOK /\ Lifecycle /\ Handoff => LossIsTheLateTail
  <2> SUFFICES ASSUME TypeOK, Lifecycle, Handoff,
                      worker \in {"exited", "joined"}
               PROVE  /\ Len(checksum_) = emptyAt
                      /\ Len(submitted) - emptyAt <= Capacity
    BY DEF LossIsTheLateTail
  <2>1. main # "pushing"
    BY DEF Lifecycle
  <2>2. Len(submitted) = Len(checksum_) + Len(queue)
    BY <2>1, LenProperties
       DEF Handoff, FifoHandoff, Accepted, Pushing, Taken, InFlight, TypeOK
  <2>3. Len(checksum_) = emptyAt
    BY DEF Handoff, LastEmptyPop
  <2> QED
    BY <2>2, <2>3, LenProperties, CapacityAssumption DEF TypeOK
<1> QED
  BY <1>1, TypeCorrect, LifecycleCorrect, HandoffCorrect, PTL

-----------------------------------------------------------------------------
LEMMA ReportStep ==
  TypeOK /\ Lifecycle /\ Handoff /\ ReportMatchesWork /\ [Next]_vars
    => ReportMatchesWork'
<1> SUFFICES ASSUME TypeOK, Lifecycle, Handoff, ReportMatchesWork,
                    [Next]_vars, ReportTaken'
             PROVE  /\ report'.events = Len(report'.checksum)
                    /\ report'.samples = Len(report'.checksum)
                    /\ report'.checksum = checksum_'
                    /\ \A i \in 1 .. Len(report'.checksum) :
                         report'.checksum[i] = submitted'[i]
  BY DEF ReportMatchesWork
<1>1. CASE TakeReport
  <2>1. worker = "joined"
    BY <1>1 DEF TakeReport, MainAt, Lifecycle
  <2>2. /\ UNCHANGED << checksum_, submitted >>
        /\ report'.events = events_
        /\ report'.samples = histogram_
        /\ report'.checksum = checksum_
    BY <1>1 DEF TakeReport, aggregates
  <2>3. events_ = Len(checksum_) /\ histogram_ = Len(checksum_)
    BY <2>1, LenProperties DEF Handoff, Counters, TypeOK
  <2> QED
    BY <2>2, <2>3 DEF Handoff, FifoHandoff
<1>2. CASE ~TakeReport
  <2>1. /\ ReportTaken
        /\ UNCHANGED << report, checksum_, submitted >>
    BY <1>2 DEF Next, MainNext, WorkerNext, vars, Lifecycle, ReportTaken,
                StartWorker, InitMembers, Submit, TryPush, RetryPush,
                EndOfCapture, ReadThrows, SignalDone, Join, DestroyFinished,
                TryPop, PopEmpty, Observe, UpdateChecksum, CountEvent,
                CheckDone, Done, MainAt, WorkerAt, mainVars, aggregates
  <2> QED
    BY <2>1 DEF ReportMatchesWork
<1> QED
  BY <1>1, <1>2

(* A report never mixes aggregates of different moments, although pipeline *)
(* reads them without a lock.                                              *)
THEOREM ReportCorrect == Spec => []ReportMatchesWork
<1>1. Init => ReportMatchesWork
  BY DEF Init, ReportMatchesWork, ReportTaken
<1> QED
  BY <1>1, ReportStep, TypeCorrect, LifecycleCorrect, HandoffCorrect, PTL
     DEF Spec

-----------------------------------------------------------------------------
LEMMA SinkStep ==
  TypeOK /\ Lifecycle /\ Handoff /\ [Next]_vars
    => [Sink!SinkNext]_(Sink!sinkVars)
<1> SUFFICES ASSUME TypeOK, Lifecycle, Handoff, [Next]_vars
             PROVE  Sink!SinkNext \/ UNCHANGED Sink!sinkVars
  OBVIOUS
<1>1. CASE Submit
  <2>1. ~finished_
    BY <1>1 DEF Submit, MainAt, Lifecycle
  <2>2. PICK value \in Trade : submitted' = Append(submitted, value)
    BY <1>1 DEF Submit
  <2>3. UNCHANGED << checksum_, finished_ >>
    BY <1>1 DEF Submit, aggregates
  <2>4. finished_ = FALSE
    BY <2>1 DEF TypeOK
  <2> QED
    BY <2>1, <2>2, <2>3 DEF Sink!SinkNext, Sink!Accept
<1>2. CASE UpdateChecksum
  <2>1. worker = "hash" /\ ~finished_
    BY <1>2 DEF UpdateChecksum, WorkerAt, Lifecycle
  <2>2. /\ checksum_' = Append(checksum_, current)
        /\ UNCHANGED << submitted, finished_ >>
    BY <1>2 DEF UpdateChecksum
  <2>3. Len(checksum_) \in Nat /\ Len(queue) \in Nat /\ Len(submitted) \in Nat
    BY LenProperties DEF TypeOK
  <2>4. Taken = Len(checksum_) + 1 /\ InFlight = 1
    BY <2>1, <2>3 DEF Taken, InFlight
  <2>5. current = submitted[Len(checksum_) + 1]
    BY <2>4 DEF Handoff, FifoHandoff
  <2>6. Len(checksum_) < Len(submitted)
    <3>1. Accepted = Taken + Len(queue) /\ Accepted <= Len(submitted)
      BY <2>3 DEF Handoff, FifoHandoff, Accepted, Pushing
    <3>2. Accepted \in Nat
      BY DEF TypeOK
    <3> QED
      BY <2>3, <2>4, <3>1, <3>2
  <2> QED
    BY <2>1, <2>2, <2>5, <2>6 DEF Sink!SinkNext, Sink!Process
<1>3. CASE Join
  <2>1. ~finished_
    BY <1>3 DEF Join, MainAt, WorkerAt, Lifecycle
  <2>2. finished_' = TRUE /\ UNCHANGED << submitted, checksum_ >>
    BY <1>3 DEF Join, aggregates
  <2> QED
    BY <2>1, <2>2 DEF Sink!SinkNext, Sink!Close
<1>4. CASE InitMembers
  <2>1. ~finished_ /\ checksum_ = << >>
    BY <1>4 DEF InitMembers, MainAt, Lifecycle
  <2>2. finished_ = FALSE
    BY <2>1 DEF TypeOK
  <2> QED
    BY <1>4, <2>1, <2>2 DEF InitMembers, Sink!sinkVars
<1>5. CASE ~Submit /\ ~UpdateChecksum /\ ~Join /\ ~InitMembers
  <2>1. UNCHANGED << submitted, checksum_, finished_ >>
    BY <1>5 DEF Next, MainNext, WorkerNext, vars, StartWorker, TryPush,
                RetryPush, EndOfCapture, ReadThrows, SignalDone, TakeReport,
                DestroyFinished, TryPop, PopEmpty, Observe, CountEvent,
                CheckDone, Done, aggregates
  <2> QED
    BY <2>1 DEF Sink!sinkVars
<1> QED
  BY <1>1, <1>2, <1>3, <1>4, <1>5

(* A replay implements the ordered sink for every capacity: trades are     *)
(* processed in submission order, each at most once, and none after the    *)
(* join.                                                                   *)
THEOREM Refinement == Spec => RefinesOrderedSink
<1>1. Init => Sink!SinkInit
  BY DEF Init, Sink!SinkInit
<1> QED
  BY <1>1, SinkStep, TypeCorrect, LifecycleCorrect, HandoffCorrect, PTL
     DEF Spec, RefinesOrderedSink, Sink!SinkSpec
=============================================================================
