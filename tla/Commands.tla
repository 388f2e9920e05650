------------------------------ MODULE Commands ------------------------------
(***************************************************************************)
(* The replay and compare commands: one replay of a recording, or two, the *)
(* first with the bengal queue and the second with the standard one, and   *)
(* the exit status that sums them up.  Each replay is a behaviour of       *)
(* Pipeline on a new pipeline object, which submits what read_capture      *)
(* finds in the recording; the reader's own metrics depend on the file     *)
(* alone (CaptureReader has them).                                         *)
(*                                                                         *)
(* The file is opened by its path for each replay, and may be another one  *)
(* by the second.                                                          *)
(***************************************************************************)
EXTENDS Pipeline

CONSTANTS
  Undecided,   \* the command has not returned
  MaxFrames    \* bound: frame records one recording holds

ASSUME CommandsAssumption == Undecided \notin Int /\ MaxFrames \in Nat

VARIABLES
  command,     \* "replay" or "compare"
  recording,   \* what the path leads to
  finished,    \* the reports of the replays that have returned
  read,        \* history: the file each of them read
  left,        \* history: trades each of them left behind
  status       \* exit status

commandVars == << command, recording, finished, read, left, status >>
allVars     == << vars, commandVars >>

(* What the reader makes of a file: how many frame records it has, which   *)
(* it counts before it looks into them, and the trades it finds in those,  *)
(* any number in each.  malformed: there are parse errors as well;         *)
(* unreadable: behind the trades is a record that is too long, or there is *)
(* no metadata.                                                            *)
Recording ==
  {file \in [frames : 0 .. MaxFrames,
             trades : UNION {[1 .. n -> Trade] : n \in 0 .. MaxTrades},
             malformed : BOOLEAN, unreadable : BOOLEAN] :
     file.frames = 0 => file.trades = << >>}

CommandInit ==
  /\ Init
  /\ command \in {"replay", "compare"}
  /\ recording \in Recording
  /\ finished = << >> /\ read = << >> /\ left = << >>
  /\ status = Undecided

-----------------------------------------------------------------------------
(* The steps of Pipeline, with the reader bound to the recording.          *)

SubmitNext ==
  /\ Len(submitted) < Len(recording.trades)
  /\ Submit
  /\ pending' = recording.trades[Len(submitted) + 1]

ReadEnds ==
  /\ Len(submitted) = Len(recording.trades)
  /\ IF recording.unreadable THEN ReadThrows ELSE EndOfCapture

ReaderStep ==
  /\ \/ StartWorker \/ InitMembers \/ SubmitNext \/ TryPush \/ RetryPush
     \/ ReadEnds \/ SignalDone \/ Join \/ TakeReport \/ DestroyFinished
  /\ UNCHANGED commandVars

WorkerStep == WorkerNext /\ UNCHANGED commandVars

-----------------------------------------------------------------------------
(* Mutants of reports_comparable: the number of trades will do, and the    *)
(* engines must have waited alike.                                         *)
reports_comparable_counts(bengal, standard) ==
  /\ bengal.frames = standard.frames
  /\ ~bengal.malformed /\ ~standard.malformed
  /\ bengal.events = standard.events

reports_comparable_strict(bengal, standard) ==
  /\ reports_comparable_counts(bengal, standard)
  /\ bengal.checksum = standard.checksum
  /\ bengal.backpressure = standard.backpressure

reports_comparable(bengal, standard) ==
  /\ bengal.frames = standard.frames
  /\ ~bengal.malformed /\ ~standard.malformed
  /\ bengal.events = standard.events
  /\ bengal.checksum = standard.checksum
  /\ bengal.dropped = 0 /\ standard.dropped = 0
  /\ bengal.samples = bengal.events
  /\ standard.samples = standard.events

(* The report of the replay that has just returned.                        *)
Finished == [frames |-> recording.frames, malformed |-> recording.malformed,
             events |-> report.events, samples |-> report.samples,
             checksum |-> report.checksum, dropped |-> report.dropped,
             backpressure |-> report.backpressure]

NewPipeline ==
  /\ queue' = << >> /\ main' = "start_worker" /\ worker' = "unstarted"
  /\ producer_done_' = FALSE /\ finished_' = FALSE /\ unwinding' = FALSE
  /\ pending' = NoTrade /\ current' = NoTrade
  /\ histogram_' = 0 /\ events_' = 0 /\ checksum_' = << >>
  /\ backpressure_' = 0 /\ report' = EmptyReport
  /\ submitted' = << >> /\ emptyAt' = 0

NewReplay ==
  /\ main = "returned"
  /\ command = "compare" /\ finished = << >>
  /\ finished' = << Finished >>
  /\ read' = << recording >> /\ left' = << queue >>
  /\ NewPipeline
  /\ recording' \in Recording
  /\ UNCHANGED << command, status >>

Replayed ==
  /\ main = "returned" /\ command = "replay" /\ status = Undecided
  /\ status' = IF recording.malformed \/ report.dropped # 0 THEN 1 ELSE 0
  /\ finished' = << Finished >>
  /\ read' = << recording >> /\ left' = << queue >>
  /\ UNCHANGED << vars, command, recording >>

Compared ==
  /\ main = "returned" /\ Len(finished) = 1 /\ status = Undecided
  /\ command = "compare"
  /\ status' = IF reports_comparable(finished[1], Finished) THEN 0 ELSE 1
  /\ finished' = Append(finished, Finished)
  /\ read' = Append(read, recording) /\ left' = Append(left, queue)
  /\ UNCHANGED << vars, command, recording >>

(* main's handler of exceptions.                                           *)
CommandFails ==
  /\ main = "thrown" /\ status = Undecided
  /\ status' = 2
  /\ UNCHANGED << vars, command, recording, finished, read, left >>

Over == status # Undecided /\ UNCHANGED allVars

CommandNext ==
  \/ ReaderStep \/ WorkerStep
  \/ NewReplay \/ Replayed \/ Compared \/ CommandFails \/ Over

CommandSpec == CommandInit /\ [][CommandNext]_allVars

(* The threads of a replay run as in Pipeline, and main goes on.           *)
FairCommandSpec ==
  /\ CommandSpec
  /\ WF_allVars(ReaderStep \/ NewReplay \/ Replayed \/ Compared
                \/ CommandFails)
  /\ WF_allVars(WorkerStep)

-----------------------------------------------------------------------------
(* Status 0 speaks for the work and not only for the counters: the engines *)
(* processed the same trades in the same order, and what a replay did not  *)
(* process is the end of its file, no more than its queue holds.  It says  *)
(* no more when the file was replaced in between: two files of as many     *)
(* frames pass for one if they part only in what was left behind.          *)
SuccessMeansSameWork ==
  status = 0 => \A i \in DOMAIN finished :
    /\ ~read[i].malformed
    /\ finished[i].checksum = finished[1].checksum
    /\ finished[i].checksum \o left[i] = read[i].trades
    /\ Len(left[i]) <= Capacity

(* Status 1 is no false alarm: there were parse errors, or the two replays *)
(* read different files, or the engines left different trades in their     *)
(* queues.  Their timing alone, backpressure included, makes no            *)
(* difference.                                                             *)
DifferenceHasCause ==
  status = 1 =>
    \/ \E i \in DOMAIN finished : read[i].malformed
    \/ Len(finished) = 2 /\ (read[1] # read[2] \/ left[1] # left[2])

(* Both commands end, with status 2 exactly if a recording was unreadable. *)
CommandReturns ==
  <>(status # Undecided /\ (status = 2 <=> recording.unreadable))
=============================================================================
