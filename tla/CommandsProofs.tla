--------------------------- MODULE CommandsProofs ---------------------------
(***************************************************************************)
(* Proofs about Commands for every queue capacity, set of trades and       *)
(* length of recording: what the exit status of replay and compare says.   *)
(***************************************************************************)
EXTENDS Commands, PipelineProofs

(* The pipeline of a replay is one of Pipeline.                            *)
Base == TypeOK /\ Lifecycle /\ Handoff /\ ReportMatchesWork

(* What has been submitted is a beginning of the recording, and all of it  *)
(* once read_capture has returned.                                         *)
AllRead ==
  main \in {"finish", "join", "report", "destroy", "returned"} /\ ~unwinding

Bound ==
  /\ recording \in Recording
  /\ Len(submitted) <= Len(recording.trades)
  /\ \A i \in 1 .. Len(submitted) : submitted[i] = recording.trades[i]
  /\ AllRead => Len(submitted) = Len(recording.trades)

(* The report of a replay that has returned, and what it left behind.      *)
Entry == [frames : Nat, malformed : BOOLEAN, events : Nat, samples : Nat,
          checksum : Seq(Trade), dropped : {0},
          backpressure : 0 .. CounterRange - 1]

Sound(entry, rest) ==
  /\ entry.events = Len(entry.checksum)
  /\ entry.samples = Len(entry.checksum)
  /\ Len(rest) <= Capacity

(* It speaks of the file the replay read.                                  *)
Reported(entry, rest, file) ==
  /\ entry.frames = file.frames
  /\ entry.malformed = file.malformed
  /\ entry.checksum \o rest = file.trades

Results ==
  /\ finished \in Seq(Entry) /\ left \in Seq(Seq(Trade))
  /\ read \in Seq(Recording)
  /\ Len(left) = Len(finished) /\ Len(read) = Len(finished)
  /\ finished # << >> /\ status = Undecided =>
       command = "compare" /\ Len(finished) = 1
  /\ \A i \in 1 .. Len(finished) :
       /\ Sound(finished[i], left[i])
       /\ Reported(finished[i], left[i], read[i])

Verdict ==
  /\ status \in {0, 1} => finished # << >>
  /\ status = 0 => \A i \in 1 .. Len(finished) :
       /\ ~finished[i].malformed
       /\ finished[i].checksum = finished[1].checksum
  /\ DifferenceHasCause

Inv == Base /\ Bound /\ Results /\ Verdict

-----------------------------------------------------------------------------
(* A recording's trades are a sequence.                                    *)
LEMMA RecordingType ==
  ASSUME NEW file \in Recording
  PROVE  /\ file.trades \in Seq(Trade)
         /\ Len(file.trades) \in Nat
         /\ file.malformed \in BOOLEAN /\ file.frames \in Nat
<1>1. PICK n \in 0 .. MaxTrades : file.trades \in [1 .. n -> Trade]
  BY DEF Recording
<1>2. n \in Nat
  BY PipelineAssumption
<1>3. file.trades \in Seq(Trade)
  BY <1>1, <1>2, SeqDef
<1> QED
  BY <1>3, LenProperties, CommandsAssumption DEF Recording

(* The second of two results.                                              *)
LEMMA AppendSecond ==
  ASSUME NEW S, NEW s \in Seq(S), Len(s) = 1, NEW e \in S
  PROVE  /\ Append(s, e) \in Seq(S) /\ Len(Append(s, e)) = 2
         /\ Append(s, e)[1] = s[1] /\ Append(s, e)[2] = e
<1>1. /\ Append(s, e) \in Seq(S) /\ Len(Append(s, e)) = Len(s) + 1
      /\ Append(s, e)[Len(s) + 1] = e
      /\ \A i \in 1 .. Len(s) : Append(s, e)[i] = s[i]
  OBVIOUS
<1> QED
  BY <1>1

(* A new pipeline starts like the first one.                               *)
LEMMA BaseInit ==
  Init => Base
<1>1. Init => Lifecycle
  BY DEF Init, Lifecycle
<1>2. Init => ReportMatchesWork
  BY DEF Init, ReportMatchesWork, ReportTaken
<1> QED
  BY <1>1, <1>2, TypeInit, HandoffInit DEF Base

(* The pipeline is idle again when the second replay starts.               *)
LEMMA BaseAgain ==
  NewPipeline => Base'
<1>1. NewPipeline => Init'
  BY DEF NewPipeline, Init
<1> QED
  BY <1>1, BaseInit, PTL

(* The steps of a replay are steps of Pipeline.                            *)
LEMMA BaseStep ==
  Base /\ [Next]_vars => Base'
BY TypeStep, LifecycleStep, HandoffStep, ReportStep DEF Base

(* A step of a command, or of the replay it runs.                          *)
LEMMA CommandStep ==
  CommandNext => \/ NewReplay
                 \/ [Next]_vars
BY DEF CommandNext, ReaderStep, WorkerStep, SubmitNext, ReadEnds, Replayed,
       Compared, CommandFails, Over, allVars, Next, MainNext

(* What the pipeline guarantees holds while a command runs.                *)
LEMMA BaseKept ==
  ASSUME Inv, [CommandNext]_allVars PROVE Base'
<1>1. CASE NewReplay
  BY <1>1, BaseAgain DEF NewReplay
<1>2. CASE [Next]_vars
  BY <1>2, BaseStep DEF Inv
<1>3. CASE UNCHANGED allVars
  BY <1>3, BaseStep DEF Inv, allVars
<1> QED
  BY <1>1, <1>2, <1>3, CommandStep

-----------------------------------------------------------------------------
(* What has been submitted stays a beginning of the recording.             *)
LEMMA BoundKept ==
  ASSUME Inv, [CommandNext]_allVars PROVE Bound'
<1>0. /\ TypeOK /\ Bound /\ Lifecycle /\ submitted \in Seq(Trade)
      /\ Len(submitted) \in Nat
      /\ recording \in Recording
  BY LenProperties DEF Inv, Base, TypeOK, Bound
<1>1. CASE NewReplay
  <2>1. recording' \in Recording /\ submitted' = << >>
        /\ main' = "start_worker"
    BY <1>0, <1>1 DEF NewReplay, NewPipeline
  <2>2. Len(recording'.trades) \in Nat
    BY <2>1, RecordingType
  <2> QED
    BY <2>1, <2>2 DEF Bound, AllRead
<1>2. CASE SubmitNext /\ UNCHANGED commandVars
  <2>1. /\ Len(submitted) < Len(recording.trades) /\ recording' = recording
        /\ main' = "pushing"
    BY <1>2 DEF SubmitNext, Submit, MainAt, commandVars
  <2>2. PICK value \in Trade : /\ submitted' = Append(submitted, value)
                               /\ value = recording.trades[Len(submitted) + 1]
    BY <1>2 DEF SubmitNext, Submit
  <2>3. /\ Len(submitted') = Len(submitted) + 1
        /\ \A i \in 1 .. Len(submitted) : submitted'[i] = submitted[i]
        /\ submitted'[Len(submitted) + 1] = value
    BY <1>0, <2>2, AppendProperties
  <2>4. Len(recording.trades) \in Nat
    BY <1>0, RecordingType
  <2>5. Len(submitted') <= Len(recording.trades)
    BY <1>0, <2>1, <2>3, <2>4
  <2>6. ASSUME NEW i \in 1 .. Len(submitted')
        PROVE  submitted'[i] = recording.trades[i]
    <3>1. CASE i = Len(submitted) + 1
      BY <2>2, <2>3, <3>1
    <3>2. CASE i \in 1 .. Len(submitted)
      BY <1>0, <2>3, <3>2 DEF Bound
    <3> QED
      BY <1>0, <2>3, <3>1, <3>2
  <2> QED
    BY <1>0, <2>1, <2>5, <2>6 DEF Bound, AllRead
<1>3. ASSUME UNCHANGED << submitted, recording >>,
             AllRead' => AllRead \/ Len(submitted) = Len(recording.trades)
      PROVE  Bound'
  BY <1>0, <1>3 DEF Bound
<1>4. CASE ReaderStep /\ ~ SubmitNext
  <2>1. UNCHANGED << submitted, recording >>
    BY <1>4
    DEF ReaderStep, commandVars, StartWorker, InitMembers, TryPush, RetryPush,
        ReadEnds, ReadThrows, EndOfCapture, SignalDone, Join, TakeReport,
        DestroyFinished
  <2>2. AllRead' => AllRead \/ Len(submitted) = Len(recording.trades)
    BY <1>0, <1>4
    DEF ReaderStep, StartWorker, InitMembers, TryPush, RetryPush, ReadEnds,
        ReadThrows, EndOfCapture, SignalDone, Join, TakeReport,
        DestroyFinished, MainAt, mainVars, TypeOK, AllRead
  <2> QED
    BY <1>3, <2>1, <2>2
<1>5. CASE WorkerStep
  BY <1>3, <1>5
  DEF WorkerStep, WorkerNext, TryPop, PopEmpty, Observe, UpdateChecksum,
      CountEvent, CheckDone, commandVars, mainVars, AllRead
<1>6. CASE Replayed \/ Compared \/ CommandFails \/ Over \/ UNCHANGED allVars
  BY <1>3, <1>6
  DEF Replayed, Compared, CommandFails, Over, allVars, vars, commandVars,
      mainVars, AllRead
<1> QED
  BY <1>1, <1>2, <1>4, <1>5, <1>6 DEF CommandNext, ReaderStep

-----------------------------------------------------------------------------
(* The report of a replay that has returned speaks of all the recording.   *)
LEMMA ReturnedIsSound ==
  ASSUME Inv, main = "returned"
  PROVE  /\ Finished \in Entry /\ queue \in Seq(Trade)
         /\ Sound(Finished, queue) /\ Reported(Finished, queue, recording)
<1>1. TypeOK /\ Lifecycle /\ Handoff /\ ReportMatchesWork /\ Bound
  BY DEF Inv, Base
<1>2. /\ report \in Report /\ checksum_ \in Seq(Trade) /\ queue \in Seq(Trade)
      /\ submitted \in Seq(Trade) /\ Len(queue) <= Capacity
  BY <1>1 DEF TypeOK
<1>3. /\ Len(checksum_) \in Nat /\ Len(queue) \in Nat
      /\ Len(submitted) \in Nat
  BY <1>2, LenProperties
<1>4. /\ recording.trades \in Seq(Trade) /\ recording.malformed \in BOOLEAN
      /\ Len(recording.trades) \in Nat /\ recording.frames \in Nat
  BY <1>1, RecordingType DEF Bound
<1>5. worker = "joined" /\ ~unwinding
  BY <1>1 DEF Lifecycle
<1>6. /\ report.checksum = checksum_ /\ report.events = Len(checksum_)
      /\ report.samples = Len(checksum_) /\ report.dropped = 0
  BY <1>1, <1>2 DEF ReportMatchesWork, ReportTaken, Report
<1>7. /\ Len(submitted) = Len(checksum_) + Len(queue)
      /\ \A i \in 1 .. Len(checksum_) : checksum_[i] = submitted[i]
      /\ \A i \in 1 .. Len(queue) : queue[i] = submitted[Len(checksum_) + i]
  BY <1>1, <1>3, <1>5 DEF Handoff, FifoHandoff, Accepted, Pushing, Taken,
                          InFlight
<1>8. /\ Len(submitted) = Len(recording.trades)
      /\ \A i \in 1 .. Len(submitted) : submitted[i] = recording.trades[i]
  BY <1>1, <1>5 DEF Bound, AllRead
<1>9. checksum_ \o queue = recording.trades
  <2>1. /\ checksum_ \o queue \in Seq(Trade)
        /\ Len(checksum_ \o queue) = Len(checksum_) + Len(queue)
        /\ \A i \in 1 .. Len(checksum_) + Len(queue) :
             (checksum_ \o queue)[i] = IF i <= Len(checksum_) THEN checksum_[i]
                                       ELSE queue[i - Len(checksum_)]
    BY <1>2, ConcatProperties
  <2>2. ASSUME NEW i \in 1 .. Len(checksum_) + Len(queue)
        PROVE  (checksum_ \o queue)[i] = recording.trades[i]
    <3>1. CASE i <= Len(checksum_)
      BY <1>3, <1>7, <1>8, <2>1, <3>1
    <3>2. CASE ~ i <= Len(checksum_)
      <4> DEFINE j == i - Len(checksum_)
      <4>1. j \in 1 .. Len(queue) /\ Len(checksum_) + j = i
        BY <1>3, <3>2
      <4> QED
        BY <1>3, <1>7, <1>8, <2>1, <3>2, <4>1
    <3> QED
      BY <3>1, <3>2
  <2> QED
    BY <1>2, <1>3, <1>4, <1>7, <1>8, <2>1, <2>2, SeqEqual
<1>10. Finished \in Entry
  BY <1>2, <1>3, <1>4, <1>6 DEF Finished, Entry, Report
<1> QED
  BY <1>2, <1>3, <1>6, <1>7, <1>8, <1>9, <1>10
  DEF Sound, Reported, Finished

(* What a command has noted of its replays stays true of them.             *)
LEMMA ResultsKept ==
  ASSUME Inv, [CommandNext]_allVars PROVE Results'
<1>0. /\ finished \in Seq(Entry) /\ left \in Seq(Seq(Trade))
      /\ read \in Seq(Recording) /\ recording \in Recording
      /\ Len(left) = Len(finished) /\ Len(read) = Len(finished)
      /\ Len(finished) \in Nat
      /\ Undecided \notin {0, 1, 2}
  BY LenProperties, CommandsAssumption DEF Inv, Results, Bound
<1>1. ASSUME UNCHANGED << finished, left, read, command >>,
             status' = Undecided => status = Undecided
      PROVE  Results'
  BY <1>1 DEF Inv, Results
<1>2. CASE ReaderStep \/ WorkerStep \/ CommandFails \/ Over
           \/ UNCHANGED allVars
  BY <1>0, <1>1, <1>2
  DEF ReaderStep, WorkerStep, CommandFails, Over, allVars, commandVars
<1>3. CASE NewReplay
  <2>1. /\ finished' = << Finished >> /\ left' = << queue >>
        /\ read' = << recording >>
        /\ command' = "compare" /\ main = "returned"
    BY <1>3 DEF NewReplay
  <2>2. /\ Finished \in Entry /\ queue \in Seq(Trade)
        /\ Sound(Finished, queue) /\ Reported(Finished, queue, recording)
    BY <2>1, ReturnedIsSound
  <2> QED
    BY <1>0, <2>1, <2>2 DEF Results, Reported, Sound
<1>4. CASE Replayed
  <2>1. /\ finished' = << Finished >> /\ left' = << queue >>
        /\ read' = << recording >>
        /\ main = "returned" /\ status' # Undecided
    BY <1>0, <1>4 DEF Replayed
  <2>2. /\ Finished \in Entry /\ queue \in Seq(Trade)
        /\ Sound(Finished, queue) /\ Reported(Finished, queue, recording)
    BY <2>1, ReturnedIsSound
  <2> QED
    BY <1>0, <2>1, <2>2 DEF Results, Reported, Sound
<1>5. CASE Compared
  <2>1. /\ finished' = Append(finished, Finished)
        /\ left' = Append(left, queue) /\ Len(finished) = 1
        /\ read' = Append(read, recording)
        /\ main = "returned" /\ status' # Undecided
    BY <1>0, <1>5 DEF Compared
  <2>2. /\ Finished \in Entry /\ queue \in Seq(Trade)
        /\ Sound(Finished, queue) /\ Reported(Finished, queue, recording)
    BY <2>1, ReturnedIsSound
  <2>3. /\ finished' \in Seq(Entry) /\ Len(finished') = 2
        /\ finished'[1] = finished[1] /\ finished'[2] = Finished
    BY <1>0, <2>1, <2>2, AppendSecond
  <2>4. /\ left' \in Seq(Seq(Trade)) /\ Len(left') = 2
        /\ left'[1] = left[1] /\ left'[2] = queue
    BY <1>0, <2>1, <2>2, AppendSecond
  <2>5. /\ read' \in Seq(Recording) /\ Len(read') = 2
        /\ read'[1] = read[1] /\ read'[2] = recording
    BY <1>0, <2>1, AppendSecond
  <2>6. Sound(finished[1], left[1]) /\ Reported(finished[1], left[1], read[1])
    BY <2>1 DEF Inv, Results
  <2>7. 1 .. Len(finished') = {1, 2}
    BY <2>3
  <2> QED
    BY <2>1, <2>2, <2>3, <2>4, <2>5, <2>6, <2>7 DEF Results, Sound, Reported
<1> QED
  BY <1>2, <1>3, <1>4, <1>5 DEF CommandNext

-----------------------------------------------------------------------------
(* Two replays that left the same behind have processed the same.          *)
LEMMA SameRest ==
  ASSUME NEW a \in Seq(Trade), NEW b \in Seq(Trade), NEW rest \in Seq(Trade),
         a \o rest = b \o rest
  PROVE  a = b
BY ConcatSimplifications

(* The verdict follows from the reports.                                   *)
LEMMA VerdictKept ==
  ASSUME Inv, [CommandNext]_allVars PROVE Verdict'
<1>0. /\ Verdict /\ Results /\ Results' /\ Undecided \notin {0, 1, 2}
      /\ finished \in Seq(Entry) /\ Len(finished) \in Nat
  BY LenProperties, CommandsAssumption, ResultsKept DEF Inv, Results
<1>1. ASSUME UNCHANGED << finished, left, read >>,
             status' = status \/ status' = 2
      PROVE  Verdict'
  BY <1>0, <1>1 DEF Verdict, DifferenceHasCause
<1>2. CASE ReaderStep \/ WorkerStep \/ CommandFails \/ Over
           \/ UNCHANGED allVars
  BY <1>0, <1>1, <1>2
  DEF ReaderStep, WorkerStep, CommandFails, Over, allVars, commandVars
<1>3. CASE NewReplay
  <2>1. finished = << >> /\ status' = status
    BY <1>3 DEF NewReplay
  <2> QED
    BY <1>0, <2>1 DEF Verdict, DifferenceHasCause
<1>4. CASE Replayed
  <2>1. /\ finished' = << Finished >> /\ read' = << recording >>
        /\ main = "returned"
        /\ status' = IF recording.malformed \/ report.dropped # 0 THEN 1 ELSE 0
    BY <1>4 DEF Replayed
  <2>2. Finished \in Entry /\ Finished.malformed = recording.malformed
    BY <2>1, ReturnedIsSound DEF Reported
  <2>3. report.dropped = 0
    BY <2>2 DEF Finished, Entry
  <2>4. /\ Len(finished') = 1 /\ finished'[1] = Finished
        /\ read'[1] = recording /\ DOMAIN finished' = {1}
    BY <2>1
  <2>5. CASE recording.malformed
    <3>1. status' = 1 /\ read'[1].malformed /\ finished' # << >>
      BY <2>1, <2>2, <2>4, <2>5
    <3> QED
      BY <2>4, <3>1 DEF Verdict, DifferenceHasCause
  <2>6. CASE ~ recording.malformed
    BY <2>1, <2>2, <2>3, <2>4, <2>6 DEF Verdict, DifferenceHasCause
  <2> QED
    BY <2>5, <2>6
<1>5. CASE Compared
  <2>1. /\ Len(finished) = 1 /\ main = "returned"
        /\ finished' = Append(finished, Finished)
        /\ status' = IF reports_comparable(finished[1], Finished) THEN 0 ELSE 1
    BY <1>5 DEF Compared
  <2>2. Finished \in Entry
    BY <2>1, ReturnedIsSound
  <2>3. /\ Len(finished') = 2 /\ finished'[1] = finished[1]
        /\ finished'[2] = Finished /\ DOMAIN finished' = {1, 2}
        /\ 1 .. Len(finished') = {1, 2} /\ finished' # << >>
    <3>1. /\ Append(finished, Finished) \in Seq(Entry)
          /\ Len(Append(finished, Finished)) = 2
          /\ Append(finished, Finished)[1] = finished[1]
          /\ Append(finished, Finished)[2] = Finished
      BY <1>0, <2>1, <2>2, AppendSecond
    <3>2. DOMAIN finished' = 1 .. 2
      BY <2>1, <3>1, LenProperties
    <3> QED
      BY <2>1, <3>1, <3>2
  <2>4. /\ Sound(finished'[1], left'[1]) /\ Sound(finished'[2], left'[2])
        /\ Reported(finished'[1], left'[1], read'[1])
        /\ Reported(finished'[2], left'[2], read'[2])
    BY <1>0, <2>3 DEF Results
  <2>5. CASE reports_comparable(finished[1], Finished)
    BY <2>1, <2>3, <2>5 DEF reports_comparable, Verdict, DifferenceHasCause
  <2>6. CASE ~ reports_comparable(finished[1], Finished)
    <3>1. SUFFICES ASSUME ~ read'[1].malformed, ~ read'[2].malformed,
                          read'[1] = read'[2], left'[1] = left'[2]
                   PROVE  FALSE
      BY <2>1, <2>3, <2>6 DEF Verdict, DifferenceHasCause
    <3>2. /\ finished[1] \in Entry
          /\ left'[1] \in Seq(Trade) /\ left'[2] \in Seq(Trade)
      <4>1. left' \in Seq(Seq(Trade)) /\ Len(left') = 2
        BY <1>0, <2>3 DEF Results
      <4> QED
        BY <1>0, <2>1, <4>1, ElementOfSeq
    <3>3. finished[1].checksum \o left'[1] = Finished.checksum \o left'[1]
      BY <2>3, <2>4, <3>1 DEF Reported
    <3>4. finished[1].checksum = Finished.checksum
      BY <2>2, <3>2, <3>3, SameRest DEF Entry
    <3>5. /\ finished[1].frames = Finished.frames
          /\ ~finished[1].malformed /\ ~Finished.malformed
      BY <2>3, <2>4, <3>1 DEF Reported
    <3> QED
      BY <2>2, <2>3, <2>4, <2>6, <3>2, <3>4, <3>5
      DEF reports_comparable, Sound, Entry
  <2> QED
    BY <2>5, <2>6
<1> QED
  BY <1>2, <1>3, <1>4, <1>5 DEF CommandNext

-----------------------------------------------------------------------------
(* The inductive invariant of the two commands: the running pipeline's     *)
(* own, what it has read, and what is noted of the replays before.         *)
THEOREM CommandInvCorrect ==
  CommandSpec => []Inv
<1>1. CommandInit => Inv
  <2> SUFFICES ASSUME CommandInit PROVE Inv
    OBVIOUS
  <2>1. Base
    BY BaseInit DEF CommandInit
  <2>2. Bound
    <3>1. recording \in Recording /\ submitted = << >> /\ main = "start_worker"
      BY DEF CommandInit, Init
    <3>2. Len(recording.trades) \in Nat
      BY <3>1, RecordingType
    <3> QED
      BY <3>1, <3>2 DEF Bound, AllRead
  <2>3. /\ finished = << >> /\ read = << >> /\ left = << >>
        /\ status = Undecided
        /\ Undecided \notin {0, 1, 2}
    BY CommandsAssumption DEF CommandInit
  <2>4. Results
    BY <2>3 DEF Results
  <2>5. Verdict
    BY <2>3 DEF Verdict, DifferenceHasCause
  <2> QED
    BY <2>1, <2>2, <2>4, <2>5 DEF Inv
<1>2. Inv /\ [CommandNext]_allVars => Inv'
  BY BaseKept, BoundKept, ResultsKept, VerdictKept DEF Inv
<1> QED
  BY <1>1, <1>2, PTL DEF CommandSpec

(* What exit status 0 speaks for.                                          *)
THEOREM SuccessCorrect ==
  CommandSpec => []SuccessMeansSameWork
<1>1. Inv => SuccessMeansSameWork
  <2> SUFFICES ASSUME Inv, status = 0, NEW i \in DOMAIN finished
               PROVE  /\ ~read[i].malformed
                      /\ finished[i].checksum = finished[1].checksum
                      /\ finished[i].checksum \o left[i] = read[i].trades
                      /\ Len(left[i]) <= Capacity
    BY DEF SuccessMeansSameWork
  <2>1. i \in 1 .. Len(finished)
    BY LenProperties DEF Inv, Results
  <2> QED
    BY <2>1 DEF Inv, Results, Verdict, Sound, Reported
<1> QED
  BY <1>1, CommandInvCorrect, PTL

(* What exit status 1 has as its cause.                                    *)
THEOREM DifferenceCorrect ==
  CommandSpec => []DifferenceHasCause
BY CommandInvCorrect, PTL DEF Inv, Verdict
=============================================================================
