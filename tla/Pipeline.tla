------------------------------ MODULE Pipeline ------------------------------
(***************************************************************************)
(* One replay: the thread that reads the capture and calls submit, finish  *)
(* and report (main), and the worker thread that runs consume.  Each step  *)
(* is one access to what the two threads share: one try_push or try_pop,   *)
(* one load or store of producer_done_, the thread start and the join.     *)
(* A lock or an acquire/release pair orders each of them, so interleaving  *)
(* the steps covers the executions of the C++ memory model.                *)
(*                                                                         *)
(* checksum_ is the sequence of trades it was folded over: the FNV fold    *)
(* depends on order and on every field, and collisions are not modelled.   *)
(* histogram_ is its number of samples.                                    *)
(***************************************************************************)
EXTENDS BoundedFifo

CONSTANTS
  NoTrade,       \* std::nullopt
  MaxTrades,     \* bound: trades one recording holds
  CounterRange   \* 2^64, the range of the backpressure counter

ASSUME PipelineAssumption ==
  /\ NoTrade \notin Trade
  /\ MaxTrades \in Nat
  /\ CounterRange \in Nat \ {0}

VARIABLES
  main,             \* where the reading thread is
  worker,           \* where the worker thread is
  producer_done_,   \* std::atomic<bool>
  finished_,        \* finish has joined
  unwinding,        \* read_capture threw: ~pipeline runs without a report
  pending,          \* the value submit is trying to push
  current,          \* the value the worker holds
  histogram_, events_, checksum_,   \* written by the worker only
  backpressure_,    \* written by main only
  report,           \* what pipeline::report returned
  submitted,        \* history: every trade submit was called with
  emptyAt           \* history: trades accepted at the worker's last empty pop

aggregates == << histogram_, events_, checksum_ >>
mainVars   == << unwinding, pending, backpressure_, report >>
vars == << queue, main, worker, producer_done_, finished_, aggregates,
           mainVars, current, submitted, emptyAt >>

MainStates == {"start_worker", "init_members", "reading", "pushing", "finish",
               "join", "report", "destroy", "returned", "thrown"}
WorkerStates == {"unstarted", "pop", "observe", "hash", "count", "check",
                 "exited", "joined"}

Report == [events : Nat, samples : Nat, checksum : Seq(Trade),
           backpressure : 0 .. CounterRange - 1, dropped : {0}]

EmptyReport == [events |-> 0, samples |-> 0, checksum |-> << >>,
                backpressure |-> 0, dropped |-> 0]

Init ==
  /\ queue = << >>
  /\ main = "start_worker"
  /\ worker = "unstarted"
  /\ producer_done_ = FALSE
  /\ finished_ = FALSE
  /\ unwinding = FALSE
  /\ pending = NoTrade
  /\ current = NoTrade
  /\ histogram_ = 0
  /\ events_ = 0
  /\ checksum_ = << >>
  /\ backpressure_ = 0
  /\ report = EmptyReport
  /\ submitted = << >>
  /\ emptyAt = 0

(* How many of the submitted trades try_push has taken.                    *)
Pushing == IF main = "pushing" THEN 1 ELSE 0
Accepted == Len(submitted) - Pushing

MainAt(from, to) == main = from /\ main' = to
WorkerAt(from, to) == worker = from /\ worker' = to

-----------------------------------------------------------------------------
(* The reading thread.                                                     *)

(* worker_ is declared before the aggregates, so the thread already runs   *)
(* while the constructor still has to initialise them.                     *)
StartWorker ==
  /\ MainAt("start_worker", "init_members")
  /\ WorkerAt("unstarted", "pop")
  /\ UNCHANGED << queue, producer_done_, finished_, aggregates, mainVars,
                  current, submitted, emptyAt >>

InitMembers ==
  /\ MainAt("init_members", "reading")
  /\ histogram_' = 0
  /\ events_' = 0
  /\ backpressure_' = 0
  /\ checksum_' = << >>
  /\ finished_' = FALSE
  /\ UNCHANGED << queue, worker, producer_done_, unwinding, pending, report,
                  current, submitted, emptyAt >>

(* read_capture calls the consumer with the next trade.                    *)
Submit ==
  /\ MainAt("reading", "pushing")
  /\ Len(submitted) < MaxTrades
  /\ \E value \in Trade :
       /\ pending' = value
       /\ submitted' = Append(submitted, value)
  /\ UNCHANGED << queue, worker, producer_done_, finished_, aggregates,
                  unwinding, backpressure_, report, current, emptyAt >>

TryPush ==
  /\ MainAt("pushing", "reading")
  /\ PushAccepted(pending)
  /\ pending' = NoTrade
  /\ UNCHANGED << worker, producer_done_, finished_, aggregates, unwinding,
                  backpressure_, report, current, submitted, emptyAt >>

(* Mutant of RetryPush: submit gives the trade up instead of looping.      *)
RetryPushOnce ==
  /\ MainAt("pushing", "reading")
  /\ PushRejected
  /\ backpressure_' = (backpressure_ + 1) % CounterRange
  /\ pending' = NoTrade
  /\ UNCHANGED << worker, producer_done_, finished_, aggregates, unwinding,
                  report, current, submitted, emptyAt >>

(* A full queue is counted and tried again after a yield.                  *)
RetryPush ==
  /\ main = "pushing"
  /\ PushRejected
  /\ backpressure_' = (backpressure_ + 1) % CounterRange
  /\ UNCHANGED << main, worker, producer_done_, finished_, aggregates,
                  unwinding, pending, report, current, submitted, emptyAt >>

(* read_capture returns, and replay_with calls finish ...                  *)
EndOfCapture ==
  /\ MainAt("reading", "finish")
  /\ UNCHANGED << queue, worker, producer_done_, finished_, aggregates,
                  mainVars, current, submitted, emptyAt >>

(* ... or it throws (an oversized record, no metadata) and the stack       *)
(* unwinds through ~pipeline.                                              *)
ReadThrows ==
  /\ MainAt("reading", "destroy")
  /\ unwinding' = TRUE
  /\ UNCHANGED << queue, worker, producer_done_, finished_, aggregates,
                  pending, backpressure_, report, current, submitted, emptyAt >>

(* Mutants of SignalDone: finish without its join, and without its store.  *)
SignalDoneNoJoin ==
  /\ main \in {"finish", "destroy"}
  /\ ~finished_
  /\ producer_done_' = TRUE
  /\ finished_' = TRUE
  /\ main' = IF unwinding THEN "thrown" ELSE "report"
  /\ UNCHANGED << queue, worker, aggregates, mainVars, current, submitted,
                  emptyAt >>

SignalDoneNoStore ==
  /\ main \in {"finish", "destroy"}
  /\ ~finished_
  /\ main' = "join"
  /\ UNCHANGED << queue, worker, producer_done_, finished_, aggregates,
                  mainVars, current, submitted, emptyAt >>

SignalDone ==
  /\ main \in {"finish", "destroy"}
  /\ ~finished_
  /\ producer_done_' = TRUE
  /\ main' = "join"
  /\ UNCHANGED << queue, worker, finished_, aggregates, mainVars, current,
                  submitted, emptyAt >>

(* Mutant of Join: the thread is detached.                                 *)
JoinDetaches ==
  /\ MainAt("join", IF unwinding THEN "thrown" ELSE "report")
  /\ finished_' = TRUE
  /\ UNCHANGED << queue, worker, producer_done_, aggregates, mainVars,
                  current, submitted, emptyAt >>

Join ==
  /\ MainAt("join", IF unwinding THEN "thrown" ELSE "report")
  /\ WorkerAt("exited", "joined")
  /\ finished_' = TRUE
  /\ UNCHANGED << queue, producer_done_, aggregates, mainVars, current,
                  submitted, emptyAt >>

TakeReport ==
  /\ MainAt("report", "destroy")
  /\ report' = [events |-> events_, samples |-> histogram_,
                checksum |-> checksum_, backpressure |-> backpressure_,
                dropped |-> 0]
  /\ UNCHANGED << queue, worker, producer_done_, finished_, aggregates,
                  unwinding, pending, backpressure_, current, submitted,
                  emptyAt >>

(* ~pipeline after a normal finish: finished_ is set, nothing to join.     *)
DestroyFinished ==
  /\ MainAt("destroy", "returned")
  /\ finished_
  /\ UNCHANGED << queue, worker, producer_done_, finished_, aggregates,
                  mainVars, current, submitted, emptyAt >>

-----------------------------------------------------------------------------
(* The worker thread: consume.                                             *)

TryPop ==
  /\ WorkerAt("pop", "observe")
  /\ PopValue
  /\ current' = Head(queue)
  /\ UNCHANGED << main, producer_done_, finished_, aggregates, mainVars,
                  submitted, emptyAt >>

PopEmpty ==
  /\ WorkerAt("pop", "check")
  /\ PopNothing
  /\ emptyAt' = Accepted
  /\ UNCHANGED << main, producer_done_, finished_, aggregates, mainVars,
                  current, submitted >>

Observe ==
  /\ WorkerAt("observe", "hash")
  /\ histogram_' = histogram_ + 1
  /\ UNCHANGED << queue, main, producer_done_, finished_, events_, checksum_,
                  mainVars, current, submitted, emptyAt >>

UpdateChecksum ==
  /\ WorkerAt("hash", "count")
  /\ checksum_' = Append(checksum_, current)
  /\ UNCHANGED << queue, main, producer_done_, finished_, events_,
                  histogram_, mainVars, current, submitted, emptyAt >>

(* Mutant of CountEvent: no continue, the flag is read after every trade.  *)
CountEventNoContinue ==
  /\ WorkerAt("count", "check")
  /\ events_' = events_ + 1
  /\ current' = NoTrade
  /\ UNCHANGED << queue, main, producer_done_, finished_, histogram_,
                  checksum_, mainVars, submitted, emptyAt >>

CountEvent ==
  /\ WorkerAt("count", "pop")
  /\ events_' = events_ + 1
  /\ current' = NoTrade
  /\ UNCHANGED << queue, main, producer_done_, finished_, histogram_,
                  checksum_, mainVars, submitted, emptyAt >>

(* The flag is read after the empty pop, and the queue is not looked at    *)
(* again before the break.                                                 *)
CheckDone ==
  /\ WorkerAt("check", IF producer_done_ THEN "exited" ELSE "pop")
  /\ UNCHANGED << queue, main, producer_done_, finished_, aggregates,
                  mainVars, current, submitted, emptyAt >>

-----------------------------------------------------------------------------
Terminated == main \in {"returned", "thrown"}

Done == Terminated /\ UNCHANGED vars

MainNext ==
  \/ StartWorker \/ InitMembers \/ Submit \/ TryPush \/ RetryPush
  \/ EndOfCapture \/ ReadThrows \/ SignalDone \/ Join \/ TakeReport
  \/ DestroyFinished

WorkerNext ==
  TryPop \/ PopEmpty \/ Observe \/ UpdateChecksum \/ CountEvent \/ CheckDone

Next == MainNext \/ WorkerNext \/ Done

Spec == Init /\ [][Next]_vars

(* Both are runnable threads and neither blocks except in join, so a       *)
(* preemptive scheduler runs each of them again and again.                 *)
FairSpec == Spec /\ WF_vars(MainNext) /\ WF_vars(WorkerNext)

-----------------------------------------------------------------------------
(* Properties.                                                             *)

InFlight == IF worker \in {"observe", "hash"} THEN 1 ELSE 0
Taken    == Len(checksum_) + InFlight

(* Every variable keeps to its domain; in particular the queue never holds *)
(* more than queue_capacity trades, whatever submit and consume do.        *)
TypeOK ==
  /\ queue \in Seq(Trade)
  /\ Len(queue) <= Capacity
  /\ main \in MainStates
  /\ worker \in WorkerStates
  /\ producer_done_ \in BOOLEAN
  /\ finished_ \in BOOLEAN
  /\ unwinding \in BOOLEAN
  /\ pending \in IF main = "pushing" THEN Trade ELSE {NoTrade}
  /\ current \in IF worker \in {"observe", "hash", "count"} THEN Trade
                                                           ELSE {NoTrade}
  /\ histogram_ \in Nat
  /\ events_ \in Nat
  /\ checksum_ \in Seq(Trade)
  /\ backpressure_ \in 0 .. CounterRange - 1
  /\ report \in Report
  /\ submitted \in Seq(Trade)
  /\ Accepted \in Nat
  /\ emptyAt \in Nat

(* Nothing submitted is lost, duplicated or reordered on its way: what the *)
(* checksum covers, the trade the worker holds, the queue and the trade    *)
(* submit is still pushing are together exactly the submitted sequence.    *)
FifoHandoff ==
  /\ Accepted = Taken + Len(queue)
  /\ \A i \in 1 .. Len(checksum_) : checksum_[i] = submitted[i]
  /\ InFlight = 1 => current = submitted[Taken]
  /\ \A i \in 1 .. Len(queue) : queue[i] = submitted[Taken + i]
  /\ Pushing = 1 => pending = submitted[Len(submitted)]

(* The worker can leave trades behind, but only those accepted after it    *)
(* last found the queue empty (consume: try_pop, then the flag), so never  *)
(* more than the queue holds.                                              *)
LossIsTheLateTail ==
  worker \in {"exited", "joined"} =>
    /\ Len(checksum_) = emptyAt
    /\ Len(submitted) - emptyAt <= Capacity

ReportTaken ==
  \/ main = "returned"
  \/ main = "destroy" /\ ~unwinding

(* The three aggregates of a report speak of the same trades: pipeline     *)
(* reads them without a lock, relying on finish having joined the worker.  *)
ReportMatchesWork ==
  ReportTaken =>
    /\ report.events = Len(report.checksum)
    /\ report.samples = Len(report.checksum)
    /\ report.checksum = checksum_
    /\ \A i \in 1 .. Len(report.checksum) : report.checksum[i] = submitted[i]

(* docs/ARCHITECTURE.md:115-116: "Normal replay drains accepted work       *)
(* before returning."  The code does not: a trade pushed, and the flag     *)
(* set, between consume's empty try_pop and its load of producer_done_     *)
(* stays in the queue, while report still says dropped = 0.                *)
DrainedOnReturn == ReportTaken => report.events = Len(submitted)

(* submit's backpressure loop and finish's join both end: the replay       *)
(* returns or throws, with the worker joined.                              *)
ReplayReturns == <>(Terminated /\ worker = "joined")

(* A replay implements the abstract sink, closed once finish has joined.   *)
Sink == INSTANCE OrderedSink WITH processed <- checksum_, closed <- finished_

RefinesOrderedSink == Sink!SinkSpec
=============================================================================
