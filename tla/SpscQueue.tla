----------------------------- MODULE SpscQueue -----------------------------
(***************************************************************************)
(* What submit and consume expect of a queue shared by two threads: each   *)
(* call takes effect at one instant between its call and its return, as    *)
(* the operation of BoundedFifo that its result tells of.  A rejected push *)
(* leaves the caller's value in its hands, because submit passes the same  *)
(* one again.                                                              *)
(***************************************************************************)
EXTENDS BoundedFifo

CONSTANT NoTrade   \* no value passed, std::nullopt

VARIABLES
  push,       \* where the producer's call is
  argument,   \* the value it passes by rvalue reference
  pop,        \* where the consumer's call is
  result      \* what try_pop is going to return

spscVars == << queue, push, argument, pop, result >>

SpscInit ==
  /\ queue = << >>
  /\ push = "idle" /\ argument = NoTrade
  /\ pop = "idle" /\ result = NoTrade

CallPush(value) ==
  /\ push = "idle" /\ push' = "called"
  /\ argument' = value
  /\ UNCHANGED << queue, pop, result >>

AcceptPush ==
  /\ push = "called" /\ push' = "accepted"
  /\ PushAccepted(argument)
  /\ UNCHANGED << argument, pop, result >>

RejectPush ==
  /\ push = "called" /\ push' = "rejected"
  /\ PushRejected
  /\ UNCHANGED << argument, pop, result >>

ReturnPush ==
  /\ push = "accepted" /\ push' = "idle"
  /\ argument' = NoTrade
  /\ UNCHANGED << queue, pop, result >>

RepeatPush ==
  /\ push = "rejected" /\ push' = "called"
  /\ UNCHANGED << queue, argument, pop, result >>

CallPop ==
  /\ pop = "idle" /\ pop' = "called"
  /\ UNCHANGED << queue, push, argument, result >>

TakeValue ==
  /\ pop = "called" /\ pop' = "done"
  /\ PopValue
  /\ result' = Head(queue)
  /\ UNCHANGED << push, argument >>

TakeNothing ==
  /\ pop = "called" /\ pop' = "done"
  /\ PopNothing
  /\ UNCHANGED << push, argument, result >>

ReturnPop ==
  /\ pop = "done" /\ pop' = "idle"
  /\ result' = NoTrade
  /\ UNCHANGED << queue, push, argument >>

SpscNext ==
  \/ \E value \in Trade : CallPush(value)
  \/ AcceptPush \/ RejectPush \/ ReturnPush \/ RepeatPush
  \/ CallPop \/ TakeValue \/ TakeNothing \/ ReturnPop

SpscSpec == SpscInit /\ [][SpscNext]_spscVars
=============================================================================
