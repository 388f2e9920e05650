---------------------------- MODULE OrderedSink ----------------------------
(***************************************************************************)
(* What a replay promises whatever the queue, the capacity and the         *)
(* interleaving: trades are submitted one at a time, processed in exactly  *)
(* the order they were submitted, each at most once, and nothing is        *)
(* processed any more once finish has joined the worker.                   *)
(* It does not promise that everything submitted is processed: the code    *)
(* does not keep that (see DrainedOnReturn in Pipeline).                   *)
(***************************************************************************)
EXTENDS Integers, Sequences

CONSTANT Trade

VARIABLES
  submitted,   \* every trade given to submit
  processed,   \* every trade folded into the checksum
  closed       \* finish has returned

sinkVars == << submitted, processed, closed >>

SinkInit ==
  /\ submitted = << >>
  /\ processed = << >>
  /\ closed = FALSE

Accept(value) ==
  /\ ~closed
  /\ submitted' = Append(submitted, value)
  /\ UNCHANGED << processed, closed >>

Process ==
  /\ ~closed
  /\ Len(processed) < Len(submitted)
  /\ processed' = Append(processed, submitted[Len(processed) + 1])
  /\ UNCHANGED << submitted, closed >>

Close ==
  /\ ~closed
  /\ closed' = TRUE
  /\ UNCHANGED << submitted, processed >>

SinkNext ==
  \/ \E value \in Trade : Accept(value)
  \/ Process
  \/ Close

SinkSpec == SinkInit /\ [][SinkNext]_sinkVars
=============================================================================
