---------------------------- MODULE CaptureProofs ----------------------------
(***************************************************************************)
(* Proofs about Capture for every set of signals and every bound, and      *)
(* about Recording: what replay makes of every file capture can publish.   *)
(***************************************************************************)
EXTENDS Recording, SequenceTheorems, FiniteSetTheorems, TLAPS

InConnection == {"send", "wait_send", "receive", "wait_receive", "write"}
InTry        == InConnection \cup {"perform", "caught", "count"}
AfterCommit  == {"returned", "print"}
Ending       == AfterCommit \cup {"leave", "failed", "exited"}
Unprotected  == {"install", "leave", "failed", "exited"}

(* The message holds the chunks the provider sent on this connection.      *)
Assembled ==
  pc \in InConnection =>
    /\ message = [k \in 1 .. delivered |-> k]
    /\ Len(message) = delivered
    /\ delivered \in Nat

(* The bounded counters, at the locations from which they grow.            *)
Bounded ==
  /\ pc = "write" => frames < MaxFrames
  /\ pc \in {"send", "wait_send"} => unsent # 0
  /\ pc \notin {"leave", "failed", "exited"} =>
       consecutive_failures < maximum_consecutive_failures

(* A loop that goes on is one in which every connection has been counted;  *)
(* the deadline and the flag never go back.                                *)
Counted ==
  /\ ReconnectsAreCounted
  /\ pc \in {"install", "metadata", "backoff"} => connection_id = reconnects
  /\ pc = "loop" /\ MayGoOn => connection_id = reconnects

(* What the end of the command relies on.                                  *)
Outcome ==
  /\ frames = file.lines
  /\ interrupted => stopped
  /\ pc \notin Ending => ~published
  /\ pc = "commit" => frames # 0 \/ interrupted
  /\ pc \in AfterCommit => published /\ (frames # 0 \/ interrupted)
  /\ pc \in {"print", "leave"} =>
       status # "error" /\ (frames = 0 => status # None)
  /\ pc = "leave" => published
  /\ pc = "failed" /\ published => ioFailed
  /\ pc \notin {"print", "leave", "exited"} => status = None
  /\ StatusTellsOutcome

(* Frames are recorded under both handlers only, and lost for two reasons.  *)
Protected ==
  /\ pc \notin Unprotected => handled = Signal
  /\ pc = "install" => frames = 0
  /\ pc = "leave" => published
  /\ pc = "failed" /\ frames > 0 /\ ~published =>
       ioFailed \/ consecutive_failures = maximum_consecutive_failures
  /\ RecordedIsPublished

Inv == TypeOK /\ Assembled /\ Bounded /\ Counted /\ Outcome /\ Protected

-----------------------------------------------------------------------------
(* The initial values are in their domains.                                *)
LEMMA TypeInit == Init => TypeOK
<1> SUFFICES ASSUME Init PROVE TypeOK
  OBVIOUS
<1>1. << >> \in Seq(Nat) /\ Len(<< >>) = 0
  BY EmptySeq
<1>2. file \in [lines : Nat, spoiled : Nat, torn : BOOLEAN]
  BY DEF Init, EmptyFile
<1>3. /\ consecutive_failures \in 0 .. maximum_consecutive_failures
      /\ frames \in 0 .. MaxFrames /\ unsent \in 0 .. 2
      /\ Len(message) <= maximum_message_size
      /\ delivered \in 0 .. maximum_message_size + 1
  BY <1>1, CaptureAssumption DEF Init
<1> QED
  BY <1>1, <1>2, <1>3 DEF Init, TypeOK, Locations

(* The invariant holds before the handlers are installed.                  *)
LEMMA InvInit == Init => Inv
<1> SUFFICES ASSUME Init PROVE Inv
  OBVIOUS
<1>1. Assembled
  BY DEF Init, Assembled, InConnection
<1>2. Bounded
  BY CaptureAssumption DEF Init, Bounded
<1>3. Counted
  BY DEF Init, Counted, ReconnectsAreCounted
<1>4. Outcome
  BY DEF Init, Outcome, EmptyFile, stopped, AfterCommit, Ending,
         StatusTellsOutcome
<1>5. Protected
  BY DEF Init, Protected, Unprotected, RecordedIsPublished
<1> QED
  BY TypeInit, <1>1, <1>2, <1>3, <1>4, <1>5 DEF Inv

-----------------------------------------------------------------------------
(* A step that only moves on to another location.                          *)
Moves(from, to) ==
  Goes(from, to) /\ UNCHANGED << loopVars, dataVars, endVars, envVars >>

(* The moves of the program: the steps that change pc alone, with what     *)
(* the invariant has to know of their guards.                              *)
LEMMA MoveStep ==
  ASSUME TypeOK, Assembled, Bounded, Counted, Outcome, Protected,
         NEW from, NEW to, Moves(from, to),
         \/ from \in InTry \ {"count"} /\ to = "caught"
         \/ from \in {"loop", "perform", "send", "wait_send", "wait_receive",
                      "caught"} /\ to = "after"
         \/ << from, to >> \in {<< "send", "wait_send" >>,
                                << "wait_send", "send" >>,
                                << "receive", "wait_receive" >>,
                                << "wait_receive", "receive" >>,
                                << "receive", "receive" >>,
                                << "caught", "count" >>,
                                << "backoff", "loop" >>}
         \/ << from, to >> = << "receive", "loop" >> /\ ~MayGoOn
         \/ << from, to >> = << "check_frames", "failed" >> /\ frames = 0
         \/ << from, to >> = << "check_frames", "commit" >>
              /\ (frames # 0 \/ interrupted)
         \/ << from, to >> = << "install", "failed" >>
         \/ << from, to >> \in {<< "print", "leave" >>,
                                << "leave", "exited" >>}
  PROVE  Inv'
<1> USE DEF Moves, Goes, loopVars, dataVars, endVars, envVars
<1>1. TypeOK'
  BY DEF TypeOK, Locations
<1>2. Assembled'
  BY DEF Assembled, InConnection, InTry
<1>3. Bounded'
  BY DEF Bounded, InTry, InConnection
<1>4. Counted'
  BY DEF Counted, ReconnectsAreCounted, MayGoOn, stopped, InTry, InConnection
<1>5. Outcome'
  BY DEF Outcome, stopped, AfterCommit, Ending, StatusTellsOutcome, InTry,
         InConnection
<1>6. Protected'
  BY DEF Protected, Unprotected, RecordedIsPublished, Outcome, AfterCommit,
         InTry, InConnection
<1> QED
  BY <1>1, <1>2, <1>3, <1>4, <1>5, <1>6 DEF Inv

-----------------------------------------------------------------------------
(* Every step of the program, of a signal and of the clock keeps the       *)
(* invariant.                                                              *)
LEMMA InvStep == Inv /\ [Next]_vars => Inv'
<1> SUFFICES ASSUME Inv, [Next]_vars PROVE Inv'
  OBVIOUS
<1> USE DEF Inv, Goes, loopVars, dataVars, endVars, envVars
<1>1. CASE \E signal \in Signal : request_capture_stop(signal)
  <2>1. TypeOK'
    BY <1>1 DEF request_capture_stop, TypeOK, Locations
  <2>2. Assembled'
    BY <1>1 DEF request_capture_stop, Assembled, InConnection
  <2>3. Bounded'
    BY <1>1 DEF request_capture_stop, Bounded
  <2>4. Counted'
    BY <1>1
       DEF request_capture_stop, Counted, ReconnectsAreCounted, MayGoOn,
           stopped
  <2>5. Outcome'
    BY <1>1
       DEF request_capture_stop, Outcome, stopped, AfterCommit, Ending,
           StatusTellsOutcome
  <2>6. Protected'
    BY <1>1
       DEF request_capture_stop, Protected, Unprotected, RecordedIsPublished,
           TypeOK
  <2> QED
    BY <2>1, <2>2, <2>3, <2>4, <2>5, <2>6
<1>2. CASE Expire
  <2>1. TypeOK'
    BY <1>2 DEF Expire, TypeOK, Locations
  <2>2. Assembled'
    BY <1>2 DEF Expire, Assembled, InConnection
  <2>3. Bounded'
    BY <1>2 DEF Expire, Bounded
  <2>4. Counted'
    BY <1>2 DEF Expire, Counted, ReconnectsAreCounted, MayGoOn, stopped
  <2>5. Outcome'
    BY <1>2
       DEF Expire, Outcome, stopped, AfterCommit, Ending, StatusTellsOutcome
  <2>6. Protected'
    BY <1>2
       DEF Expire, Protected, Unprotected, RecordedIsPublished, TypeOK
  <2> QED
    BY <2>1, <2>2, <2>3, <2>4, <2>5, <2>6
<1>3. CASE WriteMetadata
  <2>1. TypeOK'
    BY <1>3 DEF WriteMetadata, TypeOK, Locations
  <2>2. Assembled'
    BY <1>3 DEF WriteMetadata, Assembled, InConnection
  <2>3. Bounded'
    BY <1>3 DEF WriteMetadata, Bounded
  <2>4. Counted'
    BY <1>3 DEF WriteMetadata, Counted, ReconnectsAreCounted, MayGoOn, stopped
  <2>5. Outcome'
    BY <1>3
       DEF WriteMetadata, Outcome, stopped, AfterCommit, Ending,
           StatusTellsOutcome
  <2>6. Protected'
    BY <1>3
       DEF WriteMetadata, Protected, Unprotected, RecordedIsPublished, TypeOK
  <2> QED
    BY <2>1, <2>2, <2>3, <2>4, <2>5, <2>6
<1>4. CASE LoopAgain
  <2>1. TypeOK'
    BY <1>4 DEF LoopAgain, TypeOK, Locations
  <2>2. Assembled'
    BY <1>4 DEF LoopAgain, Assembled, InConnection
  <2>3. Bounded'
    BY <1>4 DEF LoopAgain, Bounded
  <2>4. Counted'
    BY <1>4 DEF LoopAgain, Counted, ReconnectsAreCounted, MayGoOn, stopped,
                TypeOK
  <2>5. Outcome'
    BY <1>4
       DEF LoopAgain, Outcome, stopped, AfterCommit, Ending,
           StatusTellsOutcome
  <2>6. Protected'
    BY <1>4
       DEF LoopAgain, Protected, Unprotected, RecordedIsPublished, TypeOK
  <2> QED
    BY <2>1, <2>2, <2>3, <2>4, <2>5, <2>6
<1>5. CASE Connected
  <2>1. TypeOK'
    BY <1>5, EmptySeq, CaptureAssumption DEF Connected, TypeOK, Locations
  <2>2. Assembled'
    BY <1>5 DEF Connected, Assembled, InConnection
  <2>3. Bounded'
    BY <1>5 DEF Connected, Bounded
  <2>4. Counted'
    BY <1>5 DEF Connected, Counted, ReconnectsAreCounted, MayGoOn, stopped
  <2>5. Outcome'
    BY <1>5
       DEF Connected, Outcome, stopped, AfterCommit, Ending,
           StatusTellsOutcome
  <2>6. Protected'
    BY <1>5
       DEF Connected, Protected, Unprotected, RecordedIsPublished, TypeOK
  <2> QED
    BY <2>1, <2>2, <2>3, <2>4, <2>5, <2>6
<1>6. CASE SendAccepted
  <2>1. TypeOK'
    BY <1>6 DEF SendAccepted, TypeOK, Locations, Bounded
  <2>2. Assembled'
    BY <1>6 DEF SendAccepted, Assembled, InConnection
  <2>3. Bounded'
    BY <1>6 DEF SendAccepted, Bounded
  <2>4. Counted'
    BY <1>6 DEF SendAccepted, Counted, ReconnectsAreCounted, MayGoOn, stopped
  <2>5. Outcome'
    BY <1>6
       DEF SendAccepted, Outcome, stopped, AfterCommit, Ending,
           StatusTellsOutcome
  <2>6. Protected'
    BY <1>6
       DEF SendAccepted, Protected, Unprotected, RecordedIsPublished, TypeOK
  <2> QED
    BY <2>1, <2>2, <2>3, <2>4, <2>5, <2>6
<1>7. CASE ReceiveBinary
  <2>1. TypeOK'
    BY <1>7, EmptySeq, CaptureAssumption
       DEF ReceiveBinary, TypeOK, Locations
  <2>2. Assembled'
    BY <1>7 DEF ReceiveBinary, Assembled, InConnection
  <2>3. Bounded'
    BY <1>7 DEF ReceiveBinary, Bounded
  <2>4. Counted'
    BY <1>7 DEF ReceiveBinary, Counted, ReconnectsAreCounted, MayGoOn, stopped
  <2>5. Outcome'
    BY <1>7
       DEF ReceiveBinary, Outcome, stopped, AfterCommit, Ending,
           StatusTellsOutcome
  <2>6. Protected'
    BY <1>7
       DEF ReceiveBinary, Protected, Unprotected, RecordedIsPublished, TypeOK
  <2> QED
    BY <2>1, <2>2, <2>3, <2>4, <2>5, <2>6
<1>8. CASE \E last \in BOOLEAN : ReceiveText(last)
  <2>1. TypeOK'
    BY <1>8, AppendProperties, CaptureAssumption
       DEF ReceiveText, TypeOK, Locations, Assembled, InConnection
  <2>2. Assembled'
    BY <1>8 DEF ReceiveText, Assembled, InConnection
  <2>3. Bounded'
    BY <1>8 DEF ReceiveText, Bounded
  <2>4. Counted'
    BY <1>8 DEF ReceiveText, Counted, ReconnectsAreCounted, MayGoOn, stopped
  <2>5. Outcome'
    BY <1>8
       DEF ReceiveText, Outcome, stopped, AfterCommit, Ending,
           StatusTellsOutcome
  <2>6. Protected'
    BY <1>8
       DEF ReceiveText, Protected, Unprotected, RecordedIsPublished, TypeOK
  <2> QED
    BY <2>1, <2>2, <2>3, <2>4, <2>5, <2>6
<1>9. CASE ReceiveOversized
  <2>1. TypeOK'
    BY <1>9, CaptureAssumption
       DEF ReceiveOversized, TypeOK, Locations, Assembled, InConnection
  <2>2. Assembled'
    BY <1>9 DEF ReceiveOversized, Assembled, InConnection
  <2>3. Bounded'
    BY <1>9 DEF ReceiveOversized, Bounded
  <2>4. Counted'
    BY <1>9
       DEF ReceiveOversized, Counted, ReconnectsAreCounted, MayGoOn, stopped
  <2>5. Outcome'
    BY <1>9
       DEF ReceiveOversized, Outcome, stopped, AfterCommit, Ending,
           StatusTellsOutcome
  <2>6. Protected'
    BY <1>9
       DEF ReceiveOversized, Protected, Unprotected, RecordedIsPublished,
           TypeOK
  <2> QED
    BY <2>1, <2>2, <2>3, <2>4, <2>5, <2>6
<1>10. CASE WriteFrame
  <2>1. TypeOK'
    BY <1>10, EmptySeq, CaptureAssumption
       DEF WriteFrame, TypeOK, Locations, Bounded
  <2>2. Assembled'
    BY <1>10 DEF WriteFrame, Assembled, InConnection
  <2>3. Bounded'
    BY <1>10, CaptureAssumption DEF WriteFrame, Bounded
  <2>4. Counted'
    BY <1>10 DEF WriteFrame, Counted, ReconnectsAreCounted, MayGoOn, stopped
  <2>5. Outcome'
    BY <1>10
       DEF WriteFrame, Outcome, stopped, AfterCommit, Ending,
           StatusTellsOutcome
  <2>6. Protected'
    BY <1>10
       DEF WriteFrame, Protected, Unprotected, RecordedIsPublished, TypeOK
  <2> QED
    BY <2>1, <2>2, <2>3, <2>4, <2>5, <2>6
<1>11. CASE WriteFails
  <2>1. TypeOK'
    BY <1>11 DEF WriteFails, TypeOK, Locations
  <2>2. Assembled'
    BY <1>11 DEF WriteFails, Assembled, InConnection
  <2>3. Bounded'
    BY <1>11 DEF WriteFails, Bounded
  <2>4. Counted'
    BY <1>11 DEF WriteFails, Counted, ReconnectsAreCounted, MayGoOn, stopped
  <2>5. Outcome'
    BY <1>11
       DEF WriteFails, Outcome, stopped, AfterCommit, Ending,
           StatusTellsOutcome
  <2>6. Protected'
    BY <1>11
       DEF WriteFails, Protected, Unprotected, RecordedIsPublished, TypeOK
  <2> QED
    BY <2>1, <2>2, <2>3, <2>4, <2>5, <2>6
<1>12. CASE CountFailure
  <2>1. TypeOK'
    BY <1>12, CaptureAssumption DEF CountFailure, TypeOK, Locations, Bounded
  <2>2. Assembled'
    BY <1>12 DEF CountFailure, Assembled, InConnection
  <2>3. Bounded'
    BY <1>12, CaptureAssumption DEF CountFailure, Bounded, TypeOK
  <2>4. Counted'
    BY <1>12 DEF CountFailure, Counted, ReconnectsAreCounted, MayGoOn, stopped
  <2>5. Outcome'
    BY <1>12
       DEF CountFailure, Outcome, stopped, AfterCommit, Ending,
           StatusTellsOutcome
  <2>6. Protected'
    BY <1>12, CaptureAssumption
       DEF CountFailure, Protected, Unprotected, RecordedIsPublished, TypeOK,
           Bounded
  <2> QED
    BY <2>1, <2>2, <2>3, <2>4, <2>5, <2>6
<1>13. CASE ReadInterrupted
  <2>1. TypeOK'
    BY <1>13 DEF ReadInterrupted, TypeOK, Locations, stopped
  <2>2. Assembled'
    BY <1>13 DEF ReadInterrupted, Assembled, InConnection
  <2>3. Bounded'
    BY <1>13 DEF ReadInterrupted, Bounded
  <2>4. Counted'
    BY <1>13
       DEF ReadInterrupted, Counted, ReconnectsAreCounted, MayGoOn, stopped
  <2>5. Outcome'
    BY <1>13
       DEF ReadInterrupted, Outcome, stopped, AfterCommit, Ending,
           StatusTellsOutcome
  <2>6. Protected'
    BY <1>13
       DEF ReadInterrupted, Protected, Unprotected, RecordedIsPublished, TypeOK
  <2> QED
    BY <2>1, <2>2, <2>3, <2>4, <2>5, <2>6
<1>14. CASE Commit
  <2>1. TypeOK'
    BY <1>14 DEF Commit, TypeOK, Locations
  <2>2. Assembled'
    BY <1>14 DEF Commit, Assembled, InConnection
  <2>3. Bounded'
    BY <1>14 DEF Commit, Bounded
  <2>4. Counted'
    BY <1>14 DEF Commit, Counted, ReconnectsAreCounted, MayGoOn, stopped
  <2>5. Outcome'
    BY <1>14
       DEF Commit, Outcome, stopped, AfterCommit, Ending, StatusTellsOutcome
  <2>6. Protected'
    BY <1>14
       DEF Commit, Protected, Unprotected, RecordedIsPublished, TypeOK
  <2> QED
    BY <2>1, <2>2, <2>3, <2>4, <2>5, <2>6
<1>15. CASE CommitFails
  <2>1. TypeOK'
    BY <1>15 DEF CommitFails, TypeOK, Locations
  <2>2. Assembled'
    BY <1>15 DEF CommitFails, Assembled, InConnection
  <2>3. Bounded'
    BY <1>15 DEF CommitFails, Bounded
  <2>4. Counted'
    BY <1>15 DEF CommitFails, Counted, ReconnectsAreCounted, MayGoOn, stopped
  <2>5. Outcome'
    BY <1>15
       DEF CommitFails, Outcome, stopped, AfterCommit, Ending,
           StatusTellsOutcome
  <2>6. Protected'
    BY <1>15
       DEF CommitFails, Protected, Unprotected, RecordedIsPublished, TypeOK
  <2> QED
    BY <2>1, <2>2, <2>3, <2>4, <2>5, <2>6
<1>16. CASE ReadSignal
  <2>1. TypeOK'
    BY <1>16 DEF ReadSignal, TypeOK, Locations
  <2>2. Assembled'
    BY <1>16 DEF ReadSignal, Assembled, InConnection
  <2>3. Bounded'
    BY <1>16 DEF ReadSignal, Bounded
  <2>4. Counted'
    BY <1>16 DEF ReadSignal, Counted, ReconnectsAreCounted, MayGoOn, stopped
  <2>5. Outcome'
    BY <1>16, CaptureAssumption
       DEF ReadSignal, Outcome, stopped, AfterCommit, Ending,
           StatusTellsOutcome, TypeOK
  <2>6. Protected'
    BY <1>16
       DEF ReadSignal, Protected, Unprotected, RecordedIsPublished, TypeOK
  <2> QED
    BY <2>1, <2>2, <2>3, <2>4, <2>5, <2>6
<1>17. CASE Fail
  <2>1. TypeOK'
    BY <1>17 DEF Fail, TypeOK, Locations
  <2>2. Assembled'
    BY <1>17 DEF Fail, Assembled, InConnection
  <2>3. Bounded'
    BY <1>17 DEF Fail, Bounded
  <2>4. Counted'
    BY <1>17 DEF Fail, Counted, ReconnectsAreCounted, MayGoOn, stopped
  <2>5. Outcome'
    BY <1>17
       DEF Fail, Outcome, stopped, AfterCommit, Ending, StatusTellsOutcome
  <2>6. Protected'
    BY <1>17
       DEF Fail, Protected, Unprotected, RecordedIsPublished, TypeOK
  <2> QED
    BY <2>1, <2>2, <2>3, <2>4, <2>5, <2>6
<1>18. ASSUME LoopEnds \/ ConnectAborted \/ ConnectFails \/ SendStopped
             \/ SendAgain \/ SendFails \/ WaitSocket("wait_send", "send")
             \/ WaitSocket("wait_receive", "receive") \/ ReceiveEnds
             \/ ReceiveAgain \/ ReceiveFails \/ ReceiveControl \/ DumpFails
             \/ CaughtAtEnd \/ CaughtEarlier \/ Backoff \/ CheckFrames
             \/ PrintResult \/ InstallFails \/ Leave
      PROVE Inv'
  BY <1>18, MoveStep
     DEF LoopEnds, ConnectAborted, ConnectFails, SendStopped, SendAgain,
         SendFails, WaitSocket, ReceiveEnds, ReceiveAgain, ReceiveFails,
         ReceiveControl, DumpFails, CaughtAtEnd, CaughtEarlier, Backoff,
         CheckFrames, PrintResult, InstallFails, Leave, TypeOK, Moves, InTry,
         InConnection
<1>19. CASE UNCHANGED vars
  BY <1>19 DEF vars, TypeOK, Assembled, Bounded, Counted, Outcome,
               ReconnectsAreCounted, MayGoOn, stopped, StatusTellsOutcome,
               Protected, RecordedIsPublished
<1>20. CASE \E signal \in Signal : Terminate(signal)
  <2>1. TypeOK'
    BY <1>20
       DEF Terminate, TypeOK, Locations
  <2>2. Assembled'
    BY <1>20
       DEF Terminate, Assembled, InConnection
  <2>3. Bounded'
    BY <1>20
       DEF Terminate, Bounded
  <2>4. Counted'
    BY <1>20
       DEF Terminate, Counted, ReconnectsAreCounted, MayGoOn, stopped
  <2>5. Outcome'
    BY <1>20
       DEF Terminate, Outcome, stopped, AfterCommit, Ending, StatusTellsOutcome
  <2>6. Protected'
    BY <1>20
       DEF Terminate, Protected, Unprotected, RecordedIsPublished, TypeOK
  <2> QED
    BY <2>1, <2>2, <2>3, <2>4, <2>5, <2>6
<1>21. CASE InstallHandler
  <2>1. TypeOK'
    BY <1>21
       DEF InstallHandler, TypeOK, Locations
  <2>2. Assembled'
    BY <1>21
       DEF InstallHandler, Assembled, InConnection
  <2>3. Bounded'
    BY <1>21
       DEF InstallHandler, Bounded
  <2>4. Counted'
    BY <1>21
       DEF InstallHandler, Counted, ReconnectsAreCounted, MayGoOn, stopped
  <2>5. Outcome'
    BY <1>21
       DEF InstallHandler, Outcome, stopped, AfterCommit, Ending,
           StatusTellsOutcome
  <2>6. Protected'
    BY <1>21
       DEF InstallHandler, Protected, Unprotected, RecordedIsPublished, TypeOK
  <2> QED
    BY <2>1, <2>2, <2>3, <2>4, <2>5, <2>6
<1>22. CASE RestoreHandler
  <2>1. TypeOK'
    BY <1>22
       DEF RestoreHandler, TypeOK, Locations
  <2>2. Assembled'
    BY <1>22
       DEF RestoreHandler, Assembled, InConnection
  <2>3. Bounded'
    BY <1>22
       DEF RestoreHandler, Bounded
  <2>4. Counted'
    BY <1>22
       DEF RestoreHandler, Counted, ReconnectsAreCounted, MayGoOn, stopped
  <2>5. Outcome'
    BY <1>22
       DEF RestoreHandler, Outcome, stopped, AfterCommit, Ending,
           StatusTellsOutcome
  <2>6. Protected'
    BY <1>22
       DEF RestoreHandler, Protected, Unprotected, RecordedIsPublished, TypeOK
  <2> QED
    BY <2>1, <2>2, <2>3, <2>4, <2>5, <2>6
<1> QED
  BY <1>1, <1>2, <1>3, <1>4, <1>5, <1>6, <1>7, <1>8, <1>9, <1>10, <1>11,
     <1>12, <1>13, <1>14, <1>15, <1>16, <1>17, <1>18, <1>19, <1>20, <1>21,
     <1>22
     DEF Next, Program, Exited

(* The invariant of the capture command.                                   *)
LEMMA InvAlways == Spec => []Inv
<1> QED
  BY InvInit, InvStep, PTL DEF Spec

(* The domains of the capture's state, with its counters within bounds.    *)
THEOREM TypeCorrect == Spec => []TypeOK
<1>1. Inv => TypeOK
  BY DEF Inv
<1> QED
  BY <1>1, InvAlways, PTL

(* What is recorded is one message of the provider, whole and in order.    *)
THEOREM MessagesCorrect == Spec => []WholeMessages
<1>1. Inv => WholeMessages
  BY DEF Inv, Assembled, InConnection, WholeMessages
<1> QED
  BY <1>1, InvAlways, PTL

(* The count of reconnects agrees with the connections made.               *)
THEOREM ReconnectsCorrect == Spec => []ReconnectsAreCounted
<1>1. Inv => ReconnectsAreCounted
  BY DEF Inv, Counted
<1> QED
  BY <1>1, InvAlways, PTL

(* Frames are lost to a failed write or commit or to repeated connection   *)
(* failures, never to a signal.                                            *)
THEOREM RecordingCorrect == Spec => []RecordedIsPublished
<1>1. Inv => RecordedIsPublished
  BY DEF Inv, Protected
<1> QED
  BY <1>1, InvAlways, PTL

(* The exit status and the counts tell what became of the recording.       *)
THEOREM StatusCorrect == Spec => []StatusTellsOutcome
<1>1. Inv => StatusTellsOutcome
  BY DEF Inv, Outcome
<1> QED
  BY <1>1, InvAlways, PTL

-----------------------------------------------------------------------------
(* What is recorded, as the reader will meet it.                           *)

Entry == [connection : Nat, sequence : Nat, torn : BOOLEAN, size : Nat]

(* The file's records, and its end when that is torn.                      *)
Written ==
  /\ recording \in Seq(Entry) /\ Len(recording) = frames
  /\ unended \in Seq(Entry) /\ Len(unended) <= 1
  /\ file.torn <=> Len(unended) = 1
  /\ file.spoiled = 0 <=> \A k \in 1 .. Len(recording) : ~recording[k].torn
  /\ sequence_num \in Nat

(* A record is the first of its connection, or the successor of the line   *)
(* before it; only a first one can have torn bytes in front.               *)
First(k) == \A i \in 1 .. k - 1 : Lines[i].connection < Lines[k].connection

Successor(k) ==
  /\ k > 1 /\ Lines[k].connection = Lines[k - 1].connection
  /\ Lines[k].sequence = Lines[k - 1].sequence + 1
  /\ ~Lines[k].torn

Numbered ==
  \A k \in 1 .. Len(Lines) :
    /\ First(k) \/ Successor(k)
    /\ \A i \in 1 .. k : Lines[i].connection <= Lines[k].connection

(* The current connection is new, or continues the last record's.          *)
Fresh == \A k \in 1 .. Len(Lines) : Lines[k].connection < connection_id

Ongoing ==
  /\ Len(recording) > 0 /\ Len(unended) = 0
  /\ recording[Len(recording)].connection = connection_id
  /\ sequence_num = recording[Len(recording)].sequence + 1

Current ==
  /\ \A k \in 1 .. Len(Lines) : Lines[k].connection <= connection_id
  /\ pc = "perform" => Fresh
  /\ pc \in InConnection => Fresh \/ Ongoing

-----------------------------------------------------------------------------
(* The reader, behind lines - 1 records.                                   *)

Followed ==
  /\ Reader!Tracked \subseteq {Lines[k].connection : k \in 1 .. lines - 1}
  /\ IsFiniteSet(Reader!Tracked)
  /\ Cardinality(Reader!Tracked) <= maximum_sequence_streams
  /\ /\ lines - 1 \in 1 .. Len(recording)
     /\ Lines[lines - 1].connection \in Reader!Tracked
     => last_sequences[Lines[lines - 1].connection]
          = Lines[lines - 1].sequence

Counts ==
  /\ submitted \in Nat /\ parse_errors \in Nat
  /\ sequence_gaps = 0 /\ out_of_order = 0
  /\ submitted + parse_errors = (IF lines = 0 THEN 0 ELSE lines - 1)
  /\ parse_errors = 0 =>
       \A k \in 1 .. lines - 1 :
         Lines[k].connection \in Reader!Tracked /\ ~Lines[k].torn
  /\ parse_errors # 0 => file.spoiled # 0 \/ file.torn \/ ~Within

Replaying ==
  /\ lines \in 0 .. Len(Lines) + 1
  /\ metadata_seen <=> lines > 0
  /\ state \in {"reading", "returned", "thrown"}
  /\ lines > 0 \/ state # "reading" => pc = "exited"
  /\ state = "returned" => lines = Len(Lines) + 1
  /\ state = "thrown" => \E k \in 1 .. Len(Lines) : MayExceed(Lines[k])

-----------------------------------------------------------------------------
LinesShape ==
  /\ Len(recording) \in Nat /\ Len(unended) \in Nat
  /\ Len(Lines) = Len(recording) + Len(unended)
  /\ \A k \in 1 .. Len(Lines) : Lines[k] \in Entry
  /\ \A k \in 1 .. Len(recording) : Lines[k] = recording[k]
  /\ Len(unended) = 1 => Lines[Len(recording) + 1] = unended[1]
  /\ Len(unended) \in {0, 1} /\ (~file.torn => unended = << >>)

(* The lines of the file are its records, and perhaps one more.            *)
LEMMA LinesAre == Written => LinesShape
<1> SUFFICES ASSUME Written PROVE LinesShape
  OBVIOUS
<1>1. recording \in Seq(Entry) /\ unended \in Seq(Entry)
  BY DEF Written
<1>2. /\ Lines \in Seq(Entry)
      /\ Len(Lines) = Len(recording) + Len(unended)
      /\ \A i \in 1 .. Len(recording) + Len(unended) :
           Lines[i] = IF i <= Len(recording) THEN recording[i]
                      ELSE unended[i - Len(recording)]
  BY <1>1, ConcatProperties DEF Lines
<1>3. Len(recording) \in Nat /\ Len(unended) \in Nat
  BY <1>1, LenProperties
<1>4. \A k \in 1 .. Len(Lines) : Lines[k] \in Entry
  BY <1>2, ElementOfSeq
<1>5. Len(unended) \in {0, 1} /\ (~file.torn => unended = << >>)
  <2>1. Len(unended) \in {0, 1}
    <3>1. Len(unended) <= 1
      BY DEF Written
    <3>2. \A n \in Nat : n <= 1 => n = 0 \/ n = 1
      OBVIOUS
    <3> QED
      BY <1>3, <3>1, <3>2, Zenon
  <2>2. Len(unended) = 0 => unended = << >>
    BY <1>1, EmptySeq
  <2> QED
    BY <2>1, <2>2 DEF Written
<1>6. \A k \in 1 .. Len(recording) : Lines[k] = recording[k]
  BY <1>2, <1>3
<1>7. Len(unended) = 1 => Lines[Len(recording) + 1] = unended[1]
  BY <1>2, <1>3
<1> QED
  BY <1>2, <1>3, <1>4, <1>5, <1>6, <1>7 DEF LinesShape

(* The same of the lines after a step.                                     *)
LEMMA LinesAreNext == Written' => LinesShape'
<1> QED
  BY LinesAre, PTL

(* What a step of capture does to the file and to the connection.          *)
Keeps ==
  /\ frames' = frames /\ file' = file /\ connection_id' = connection_id
  /\ pc = "exited" => pc' = "exited"
  /\ pc' = "perform" => pc = "perform"
  /\ pc' \in InConnection =>
       pc \in InConnection \/ (pc = "perform" /\ pc' = "send")

Connects ==
  /\ pc = "loop" /\ pc' = "perform"
  /\ frames' = frames /\ file' = file /\ connection_id' = connection_id + 1

Writes ==
  /\ pc = "write" /\ pc' = "receive"
  /\ frames' = frames + 1 /\ connection_id' = connection_id
  /\ file' = [lines   |-> file.lines + 1,
              spoiled |-> file.spoiled + (IF file.torn THEN 1 ELSE 0),
              torn    |-> FALSE]

Tears ==
  /\ WriteFails
  /\ pc = "write" /\ pc' = "caught"
  /\ frames' = frames /\ connection_id' = connection_id
  /\ \E some \in BOOLEAN : file' = [file EXCEPT !.torn = @ \/ some]

(* Only a new connection and a write change what the lines depend on.      *)
LEMMA CaptureEffect ==
  ASSUME Next
  PROVE  Tears \/ (~WriteFails /\ (Keeps \/ Connects \/ Writes))
<1> USE DEF Goes, loopVars, dataVars, endVars, envVars
<1>1. SUFFICES ASSUME ~WriteFails PROVE Keeps \/ Connects \/ Writes
  BY DEF WriteFails, Tears
<1>2. CASE LoopAgain
  BY <1>2 DEF LoopAgain, Connects
<1>3. CASE WriteFrame
  BY <1>3 DEF WriteFrame, Writes
<1>4. CASE \/ InstallHandler \/ InstallFails \/ RestoreHandler
           \/ WriteMetadata \/ LoopEnds
           \/ Connected \/ ConnectAborted \/ ConnectFails
  BY <1>4 DEF InstallHandler, InstallFails, RestoreHandler, WriteMetadata,
              LoopEnds, Connected, ConnectAborted, ConnectFails, Keeps,
              InConnection
<1>5. CASE \/ SendStopped \/ SendAccepted \/ SendAgain \/ SendFails
           \/ WaitSocket("wait_send", "send")
           \/ WaitSocket("wait_receive", "receive")
  BY <1>5 DEF SendStopped, SendAccepted, SendAgain, SendFails, WaitSocket,
              Keeps, InConnection
<1>6. CASE \/ ReceiveEnds \/ ReceiveAgain \/ ReceiveFails \/ ReceiveControl
           \/ ReceiveBinary \/ ReceiveOversized
           \/ \E last \in BOOLEAN : ReceiveText(last)
  BY <1>6 DEF ReceiveEnds, ReceiveAgain, ReceiveFails, ReceiveControl,
              ReceiveBinary, ReceiveOversized, ReceiveText, Keeps,
              InConnection
<1>7. CASE \/ DumpFails \/ CaughtAtEnd \/ CaughtEarlier \/ CountFailure
           \/ Backoff \/ ReadInterrupted \/ CheckFrames
  BY <1>7 DEF DumpFails, CaughtAtEnd, CaughtEarlier, CountFailure, Backoff,
              ReadInterrupted, CheckFrames, Keeps, InConnection
<1>8. CASE Commit \/ CommitFails \/ ReadSignal \/ PrintResult \/ Leave \/ Fail
  BY <1>8 DEF Commit, CommitFails, ReadSignal, PrintResult, Leave, Fail,
              Keeps, InConnection
<1>9. CASE \/ \E signal \in Signal : request_capture_stop(signal)
                                       \/ Terminate(signal)
           \/ Expire \/ Exited
  BY <1>9 DEF request_capture_stop, Terminate, Expire, Exited, vars, Keeps,
              InConnection
<1> QED
  BY <1>1, <1>2, <1>3, <1>4, <1>5, <1>6, <1>7, <1>8, <1>9
     DEF Next, Program

-----------------------------------------------------------------------------
WriterInv == Written /\ Numbered /\ Current

(* Nothing is recorded at first.                                           *)
LEMMA WriterInit == RecordingInit => WriterInv
<1> SUFFICES ASSUME RecordingInit PROVE WriterInv
  OBVIOUS
<1>1. recording = << >> /\ unended = << >> /\ sequence_num = 0
      /\ frames = 0 /\ file = EmptyFile /\ pc = "install"
  BY DEF RecordingInit, Init
<1>2. Written
  <2>1. << >> \in Seq(Entry) /\ Len(<< >>) = 0
    BY EmptySeq
  <2> QED
    BY <1>1, <2>1 DEF Written, EmptyFile
<1>3. Len(Lines) = 0
  BY <1>1, <1>2, LinesAre, EmptySeq DEF LinesShape
<1> QED
  BY <1>1, <1>2, <1>3 DEF WriterInv, Numbered, Current, InConnection

(* A step that leaves the file alone leaves the lines alone.               *)
LEMMA SameLines ==
  ASSUME WriterInv, CaptureStep, ~WriteFails, Keeps \/ Connects
  PROVE  /\ recording' = recording /\ unended' = unended /\ Lines' = Lines
         /\ Written'
<1>1. recording' = recording
  BY DEF CaptureStep, Keeps, Connects
<1>2. unended' = unended
  <2>1. file' = file
    BY DEF Keeps, Connects
  <2>2. unended' = IF file.torn THEN unended ELSE << >>
    BY <2>1 DEF CaptureStep, Unended
  <2>3. ~file.torn => unended = << >>
    BY LinesAre DEF WriterInv, Written, LinesShape
  <2> QED
    BY <2>2, <2>3
<1>3. sequence_num' \in Nat
  <2>1. frames' - frames = 0 \/ ~(frames' = frames)
    BY LinesAre DEF WriterInv, Written, LinesShape
  <2> QED
    BY <2>1 DEF CaptureStep, Keeps, Connects, WriterInv, Written
<1>4. frames' = frames /\ file' = file
  BY DEF Keeps, Connects
<1> QED
  BY <1>1, <1>2, <1>3, <1>4 DEF Lines, WriterInv, Written

(* The sequence number of the record that would come next.                 *)
LEMMA NumberKept ==
  ASSUME WriterInv, CaptureStep, frames' = frames,
         ~(pc = "perform" /\ pc' = "send")
  PROVE  sequence_num' = sequence_num
<1>1. frames' - frames = 0
  BY LinesAre DEF WriterInv, Written, LinesShape
<1> QED
  BY <1>1 DEF CaptureStep, WriterInv, Written

(* Steps that neither connect nor write.                                   *)
LEMMA WriterKeeps ==
  ASSUME WriterInv, CaptureStep, ~WriteFails, Keeps
  PROVE  WriterInv'
<1>1. /\ recording' = recording /\ unended' = unended /\ Lines' = Lines
      /\ Written' /\ connection_id' = connection_id
  BY SameLines DEF Keeps
<1>2. Numbered'
  BY <1>1 DEF WriterInv, Numbered, First, Successor
<1>3. Fresh' <=> Fresh
  BY <1>1 DEF Fresh
<1>4. pc \in InConnection /\ pc' \in InConnection /\ Ongoing => Ongoing'
  BY <1>1, NumberKept DEF Ongoing, Keeps, InConnection
<1>5. pc' \in InConnection => Fresh' \/ Ongoing'
  BY <1>3, <1>4 DEF Keeps, WriterInv, Current
<1>6. pc' = "perform" => Fresh'
  BY <1>3 DEF Keeps, WriterInv, Current
<1>7. \A k \in 1 .. Len(Lines') : Lines'[k].connection <= connection_id'
  BY <1>1 DEF WriterInv, Current
<1> QED
  BY <1>1, <1>2, <1>5, <1>6, <1>7 DEF WriterInv, Current

(* A new connection has a number no line has.                              *)
LEMMA WriterConnects ==
  ASSUME WriterInv, TypeOK, CaptureStep, ~WriteFails, Connects
  PROVE  WriterInv'
<1>1. /\ recording' = recording /\ unended' = unended /\ Lines' = Lines
      /\ Written' /\ connection_id' = connection_id + 1
  BY SameLines DEF Connects
<1>2. Numbered'
  BY <1>1 DEF WriterInv, Numbered, First, Successor
<1>3. \A k \in 1 .. Len(Lines) :
        /\ Lines[k].connection \in Nat /\ connection_id \in Nat
        /\ Lines[k].connection <= connection_id
  BY LinesAre DEF WriterInv, Current, LinesShape, Entry, TypeOK
<1>4. Fresh' /\ \A k \in 1 .. Len(Lines') :
                  Lines'[k].connection <= connection_id'
  BY <1>1, <1>3 DEF Fresh
<1> QED
  BY <1>1, <1>2, <1>4 DEF WriterInv, Current, Connects, InConnection

(* A record that continues the numbering, behind the whole records.        *)
LEMMA NumberedExtends ==
  ASSUME WriterInv, TypeOK, pc = "write", NEW e \in Entry,
         e.connection = connection_id, e.sequence = sequence_num,
         e.torn => file.torn,
         NEW n \in Nat, n = Len(recording),
         Len(Lines') = n + 1,
         \A k \in 1 .. n : Lines'[k] = recording[k],
         Lines'[n + 1] = e,
         connection_id' = connection_id
  PROVE  /\ Numbered'
         /\ \A k \in 1 .. Len(Lines') : Lines'[k].connection <= connection_id'
<1>1. /\ n \in Nat /\ n <= Len(Lines)
      /\ \A k \in 1 .. n : /\ Lines'[k] = Lines[k] /\ k \in 1 .. Len(Lines)
                           /\ Lines[k].connection \in Nat
                           /\ Lines[k].connection <= connection_id
  BY LinesAre DEF WriterInv, LinesShape, Current, Entry
<1>2. connection_id \in Nat
  BY DEF TypeOK
<1>3. ASSUME NEW k \in 1 .. n
      PROVE  /\ (First(k) \/ Successor(k))'
             /\ \A i \in 1 .. k : Lines'[i].connection <= Lines'[k].connection
  <2>1. /\ First(k) \/ Successor(k)
        /\ \A i \in 1 .. k : Lines[i].connection <= Lines[k].connection
    BY <1>1 DEF WriterInv, Numbered
  <2>2. \A i \in 1 .. k : i \in 1 .. n
    BY <1>1
  <2>3. k > 1 => k - 1 \in 1 .. n
    BY <1>1
  <2>4. \A i \in 1 .. k - 1 : i \in 1 .. n
    BY <1>1
  <2>5. First(k) => First(k)'
    BY <1>1, <2>4 DEF First
  <2>6. Successor(k) => Successor(k)'
    BY <1>1, <2>3 DEF Successor
  <2> QED
    BY <1>1, <2>1, <2>2, <2>5, <2>6
<1>4. (First(n + 1) \/ Successor(n + 1))'
  <2>1. CASE Fresh
    <3>1. \A i \in 1 .. n : Lines'[i].connection < e.connection
      BY <1>1, <2>1 DEF Fresh
    <3>2. (n + 1) - 1 = n
      BY <1>1
    <3> QED
      BY <3>1, <3>2 DEF First
  <2>2. CASE Ongoing
    <3>1. /\ n > 0 /\ Lines'[n].connection = connection_id
          /\ e.sequence = Lines'[n].sequence + 1
      BY <1>1, <2>2 DEF Ongoing
    <3>2. ~e.torn
      BY <2>2 DEF Ongoing, WriterInv, Written
    <3>3. (n + 1) - 1 = n /\ n + 1 > 1
      BY <1>1, <3>1
    <3> QED
      BY <3>1, <3>2, <3>3 DEF Successor
  <2> QED
    BY <2>1, <2>2 DEF WriterInv, Current, InConnection
<1>5. \A i \in 1 .. n + 1 : Lines'[i].connection <= connection_id
  BY <1>1, <1>2
<1>6. \A k \in 1 .. n + 1 : k \in 1 .. n \/ k = n + 1
  BY <1>1
<1> QED
  BY <1>3, <1>4, <1>5, <1>6 DEF Numbered

(* The record that a write appends.                                        *)
LEMMA RecordIsEntry ==
  ASSUME WriterInv, TypeOK
  PROVE  /\ Record \in Entry
         /\ Record.connection = connection_id /\ Record.sequence = sequence_num
         /\ Record.torn = file.torn
<1>1. Len(message) \in Nat
  BY LenProperties DEF TypeOK
<1>2. unended # << >> => unended[1].size \in Nat
  <2> SUFFICES ASSUME unended # << >> PROVE unended[1].size \in Nat
    OBVIOUS
  <2>1. unended \in Seq(Entry) /\ Len(unended) \in Nat /\ Len(unended) # 0
    BY LenProperties, EmptySeq DEF WriterInv, Written
  <2>2. unended[1] \in Entry
    BY <2>1, ElementOfSeq
  <2> QED
    BY <2>2 DEF Entry
<1>3. Record.size \in Nat
  BY <1>1, <1>2 DEF Record, Escaped
<1> QED
  BY <1>3 DEF WriterInv, Written, Record, Entry, TypeOK

(* A whole record is written.                                              *)
LEMMA WriterWrites ==
  ASSUME WriterInv, TypeOK, CaptureStep, Writes
  PROVE  WriterInv'
<1> DEFINE n == Len(recording)
<1>1. n \in Nat /\ n = frames /\ recording \in Seq(Entry)
  BY LinesAre DEF WriterInv, Written, LinesShape
<1>2. /\ recording' = Append(recording, Record) /\ unended' = << >>
      /\ sequence_num' = sequence_num + 1
      /\ pc = "write" /\ pc' = "receive" /\ frames' = frames + 1
      /\ connection_id' = connection_id
  <2>1. frames' # frames /\ frames' - frames = 1
    BY <1>1 DEF Writes
  <2> QED
    BY <2>1 DEF CaptureStep, Unended, Writes
<1>3. /\ recording' \in Seq(Entry) /\ Len(recording') = n + 1
      /\ \A k \in 1 .. n : recording'[k] = recording[k]
      /\ recording'[n + 1] = Record
  BY <1>1, <1>2, RecordIsEntry, AppendProperties
<1>4. unended' \in Seq(Entry) /\ Len(unended') = 0
  BY <1>2, EmptySeq
<1>5. (file.spoiled = 0)' <=>
        \A k \in 1 .. Len(recording') : ~recording'[k].torn
  <2>1. file'.spoiled = 0 <=> file.spoiled = 0 /\ ~file.torn
    BY DEF Writes, TypeOK
  <2>2. file.spoiled = 0 <=> \A k \in 1 .. n : ~recording[k].torn
    BY DEF WriterInv, Written
  <2>3. 1 .. Len(recording') = 1 .. n \cup {n + 1}
    BY <1>1, <1>3
  <2> QED
    BY <1>3, <2>1, <2>2, <2>3, RecordIsEntry
<1>6. ~file'.torn
  BY DEF Writes
<1>7. Written'
  <2>1. sequence_num' \in Nat
    BY <1>2 DEF WriterInv, Written
  <2> QED
    BY <1>1, <1>2, <1>3, <1>4, <1>5, <1>6, <2>1 DEF Written
<1>8. /\ Len(Lines') = n + 1
      /\ \A k \in 1 .. n : Lines'[k] = recording[k]
      /\ Lines'[n + 1] = Record
  BY <1>1, <1>3, <1>4, <1>7, LinesAreNext DEF LinesShape
<1>9. /\ Numbered'
      /\ \A k \in 1 .. Len(Lines') : Lines'[k].connection <= connection_id'
  BY <1>2, <1>8, RecordIsEntry, NumberedExtends
<1>10. Ongoing'
  BY <1>1, <1>2, <1>3, <1>4, RecordIsEntry DEF Ongoing
<1> QED
  BY <1>2, <1>7, <1>9, <1>10 DEF WriterInv, Current, InConnection

(* A write fails, with bytes left in the file or without.                  *)
LEMMA WriterTears ==
  ASSUME WriterInv, TypeOK, CaptureStep, Tears
  PROVE  WriterInv'
<1> DEFINE n == Len(recording)
<1>1. /\ n \in Nat /\ n = frames /\ recording \in Seq(Entry)
      /\ unended \in Seq(Entry) /\ Len(unended) \in {0, 1}
  BY LinesAre DEF WriterInv, Written, LinesShape
<1>2. PICK some \in BOOLEAN : file' = [file EXCEPT !.torn = @ \/ some]
  BY DEF Tears
<1>3. /\ file'.spoiled = file.spoiled
      /\ file'.torn = (file.torn \/ some)
  BY <1>2 DEF TypeOK
<1>4. /\ recording' = recording /\ frames' = frames
      /\ sequence_num' = sequence_num
      /\ pc = "write" /\ pc' = "caught" /\ connection_id' = connection_id
  BY NumberKept DEF CaptureStep, Tears
<1>5. CASE unended' = unended /\ file'.torn = file.torn
  <2>1. Lines' = Lines
    BY <1>4, <1>5 DEF Lines
  <2>2. Written'
    BY <1>3, <1>4, <1>5 DEF WriterInv, Written
  <2>3. Numbered'
    BY <2>1 DEF WriterInv, Numbered, First, Successor
  <2> QED
    BY <1>4, <2>1, <2>2, <2>3 DEF WriterInv, Current, InConnection
<1>6. CASE unended' = << Record >> /\ file'.torn
  <2>1. unended' \in Seq(Entry) /\ Len(unended') = 1 /\ unended'[1] = Record
    BY <1>6, RecordIsEntry
  <2>2. Written'
    BY <1>3, <1>4, <1>6, <2>1 DEF WriterInv, Written
  <2>3. /\ Len(Lines') = n + 1
        /\ \A k \in 1 .. n : Lines'[k] = recording[k]
        /\ Lines'[n + 1] = Record
    BY <1>1, <1>4, <2>1, <2>2, LinesAreNext DEF LinesShape
  <2>4. /\ Numbered'
        /\ \A k \in 1 .. Len(Lines') : Lines'[k].connection <= connection_id'
    BY <1>4, <2>3, RecordIsEntry, NumberedExtends
  <2> QED
    BY <1>4, <2>2, <2>4 DEF WriterInv, Current, InConnection
<1>7. ~file.torn => unended = << >>
  BY LinesAre DEF WriterInv, Written, LinesShape
<1>8. file.torn \in BOOLEAN
  BY DEF TypeOK
<1> QED
  BY <1>3, <1>5, <1>6, <1>7, <1>8 DEF CaptureStep, Unended, Tears

(* Every step of capture keeps the file numbered.                          *)
LEMMA WriterStep ==
  ASSUME WriterInv, TypeOK, CaptureStep
  PROVE  WriterInv'
<1>1. Next
  BY DEF CaptureStep
<1> QED
  BY <1>1, CaptureEffect, WriterKeeps, WriterConnects, WriterWrites,
     WriterTears

-----------------------------------------------------------------------------
ReaderInv == Followed /\ Counts /\ Replaying

(* Nothing has been read at first.                                         *)
LEMMA ReaderInit == RecordingInit => ReaderInv
<1> SUFFICES ASSUME RecordingInit PROVE ReaderInv
  OBVIOUS
<1>1. /\ state = "reading" /\ lines = 0 /\ metadata_seen = FALSE
      /\ parse_errors = 0 /\ sequence_gaps = 0 /\ out_of_order = 0
      /\ last_sequences = << >> /\ submitted = 0
  BY DEF RecordingInit, Reader!Init
<1>2. Reader!Tracked = {}
  BY <1>1 DEF Reader!Tracked
<1>3. IsFiniteSet(Reader!Tracked) /\ Cardinality(Reader!Tracked) = 0
  BY <1>2, FS_EmptySet
<1>4. Len(Lines) \in Nat
  BY WriterInit, LinesAre DEF WriterInv, LinesShape
<1>5. Followed
  BY <1>1, <1>2, <1>3, RecordingAssumption DEF Followed
<1>6. Counts
  BY <1>1, <1>2 DEF Counts
<1>7. Replaying
  BY <1>1, <1>4 DEF Replaying
<1> QED
  BY <1>5, <1>6, <1>7 DEF ReaderInv

(* The reader waits for the capture to exit, and then the file rests.      *)
LEMMA ReaderWaits ==
  ASSUME WriterInv, TypeOK, ReaderInv, CaptureStep
  PROVE  ReaderInv'
<1>1. UNCHANGED << state, lines, metadata_seen, parse_errors, sequence_gaps,
                   out_of_order, last_sequences, submitted >>
      /\ Reader!Tracked' = Reader!Tracked
  BY DEF CaptureStep, readerVars, Reader!Tracked
<1>2. Next
  BY DEF CaptureStep
<1>3. CASE pc = "exited"
  <2>1. Keeps
    BY <1>2, <1>3, CaptureEffect DEF Connects, Writes, Tears
  <2>0. ~WriteFails
    BY <1>3 DEF WriteFails, Goes
  <2>2. /\ recording' = recording /\ Lines' = Lines /\ file' = file
        /\ pc' = "exited"
    BY <1>3, <2>0, <2>1, SameLines DEF Keeps
  <2>3. Followed'
    BY <1>1, <2>2 DEF ReaderInv, Followed
  <2>4. Counts'
    BY <1>1, <2>2 DEF ReaderInv, Counts, Within, Streams
  <2>5. Replaying'
    BY <1>1, <2>2 DEF ReaderInv, Replaying
  <2> QED
    BY <2>3, <2>4, <2>5 DEF ReaderInv
<1>4. CASE pc # "exited"
  <2>1. lines = 0 /\ state = "reading" /\ ~metadata_seen
        /\ parse_errors = 0 /\ submitted = 0
    BY <1>4 DEF ReaderInv, Replaying, Counts
  <2>2. 1 .. lines - 1 = {} /\ Reader!Tracked = {}
    BY <2>1 DEF ReaderInv, Followed
  <2>3. Len(Lines') \in Nat
    <3>1. Written'
      BY WriterStep DEF WriterInv
    <3> QED
      BY <3>1, LinesAreNext DEF LinesShape
  <2>4. Followed'
    BY <1>1, <2>1, <2>2 DEF ReaderInv, Followed
  <2>5. Counts'
    BY <1>1, <2>1, <2>2 DEF ReaderInv, Counts
  <2>6. Replaying'
    BY <1>1, <2>1, <2>3 DEF Replaying
  <2> QED
    BY <2>4, <2>5, <2>6 DEF ReaderInv
<1> QED
  BY <1>3, <1>4

-----------------------------------------------------------------------------
(* The line that comes next belongs to a stream that is followed only if   *)
(* it is whole and the successor of the line before it.                    *)
LEMMA NextLineFollows ==
  ASSUME WriterInv, ReaderInv, NEW k \in 1 .. Len(Lines), k = lines,
         Lines[k].connection \in Reader!Tracked
  PROVE  /\ Lines[k].sequence = last_sequences[Lines[k].connection] + 1
         /\ last_sequences[Lines[k].connection] \in Nat
         /\ ~Lines[k].torn
<1>1. PICK i \in 1 .. k - 1 : Lines[i].connection = Lines[k].connection
  BY DEF ReaderInv, Followed
<1>2. /\ Len(Lines) \in Nat /\ k \in Nat /\ k - 1 \in 1 .. Len(recording)
      /\ k - 1 \in 1 .. Len(Lines)
  <2>1. /\ Len(recording) \in Nat /\ Len(unended) \in {0, 1}
        /\ Len(Lines) = Len(recording) + Len(unended)
    BY LinesAre DEF WriterInv, LinesShape
  <2>2. Len(Lines) \in Nat /\ Len(Lines) <= Len(recording) + 1
    BY <2>1
  <2>3. k \in Nat /\ k <= Len(Lines)
    BY <2>2
  <2>4. k - 1 >= 1
    BY <1>1, <2>3
  <2> QED
    BY <2>1, <2>2, <2>3, <2>4
<1>3. /\ Lines[k].connection \in Nat /\ Lines[k - 1].sequence \in Nat
  BY <1>2, LinesAre DEF WriterInv, LinesShape, Entry
<1>4. ~First(k)
  BY <1>1, <1>3 DEF First
<1>5. Successor(k)
  BY <1>4 DEF WriterInv, Numbered
<1>6. last_sequences[Lines[k].connection] = Lines[k - 1].sequence
  BY <1>2, <1>5 DEF Successor, ReaderInv, Followed
<1> QED
  BY <1>3, <1>5, <1>6 DEF Successor

(* A stream too many: the recording has more than the reader can follow.   *)
LEMMA StreamTooMany ==
  ASSUME WriterInv, TypeOK, ReaderInv, NEW k \in 1 .. Len(Lines), k = lines,
         Lines[k].connection \notin Reader!Tracked,
         Cardinality(Reader!Tracked) = maximum_sequence_streams
  PROVE  file.torn \/ ~Within
<1> SUFFICES ASSUME ~file.torn, Within PROVE FALSE
  OBVIOUS
<1>1. /\ Len(Lines) = Len(recording) /\ Len(Lines) \in Nat
      /\ \A i \in 1 .. Len(Lines) :
           /\ Lines[i] = recording[i] /\ Lines[i].connection \in Nat
           /\ Lines[i].connection <= connection_id
  <2>1. LinesShape
    BY LinesAre DEF WriterInv
  <2>2. unended = << >> /\ Len(unended) = 0
    BY <2>1, EmptySeq DEF LinesShape
  <2>3. Len(Lines) = Len(recording) /\ Len(Lines) \in Nat
    BY <2>1, <2>2 DEF LinesShape
  <2>4. \A i \in 1 .. Len(Lines) :
          Lines[i] = recording[i] /\ Lines[i].connection \in Nat
    BY <2>1, <2>3 DEF LinesShape, Entry
  <2>5. \A i \in 1 .. Len(Lines) : Lines[i].connection <= connection_id
    BY DEF WriterInv, Current
  <2> QED
    BY <2>3, <2>4, <2>5
<1>2. IsFiniteSet(Streams)
  <2>1. connection_id \in Nat
    BY DEF TypeOK
  <2>2. Streams \in SUBSET (0 .. connection_id)
    BY <1>1, <2>1 DEF Streams
  <2>3. IsFiniteSet(0 .. connection_id)
    BY <2>1, FS_Interval
  <2> QED
    BY <2>2, <2>3, FS_Subset
<1>3. Reader!Tracked \cup {Lines[k].connection} \in SUBSET Streams
  <2>1. \A i \in 1 .. lines - 1 : i \in 1 .. Len(Lines)
    BY <1>1
  <2> QED
    BY <1>1, <2>1 DEF Streams, ReaderInv, Followed
<1>4. Cardinality(Reader!Tracked \cup {Lines[k].connection})
        = maximum_sequence_streams + 1
  BY FS_AddElement DEF ReaderInv, Followed
<1>5. Cardinality(Reader!Tracked \cup {Lines[k].connection})
        <= Cardinality(Streams)
  BY <1>2, <1>3, FS_Subset
<1>6. Cardinality(Streams) \in Nat
  BY <1>2, FS_CardinalityType
<1> QED
  BY <1>4, <1>5, <1>6, RecordingAssumption DEF Within

-----------------------------------------------------------------------------
(* What reading a line does: it is handed over, or it is a parse error.    *)
NextLineRead ==
  /\ state = "reading" /\ state' = "reading" /\ lines' = lines + 1
  /\ metadata_seen' = metadata_seen
  /\ sequence_gaps' = sequence_gaps /\ out_of_order' = out_of_order

LineRejected ==
  /\ NextLineRead
  /\ submitted' = submitted /\ parse_errors' = parse_errors + 1
  /\ last_sequences' = last_sequences

LineHandedOver(connection, sequence) ==
  /\ NextLineRead
  /\ submitted' = submitted + 1 /\ parse_errors' = parse_errors
  /\ last_sequences' = [c \in Reader!Tracked \cup {connection} |->
                         IF c = connection THEN sequence
                                           ELSE last_sequences[c]]

(* The instance counts with an operator of its own, which is the same.     *)
LEMMA SameCardinality == \A S : Reader!Cardinality(S) = Cardinality(S)
<1> QED
  BY DEF Reader!Cardinality, Cardinality

(* A line in one piece is handed over, or rejected because its stream is   *)
(* one too many; it is never late and leaves no gap.                       *)
LEMMA RecordEffect ==
  ASSUME WriterInv, ReaderInv, NEW k \in 1 .. Len(Lines), k = lines,
         ReadRecord(Lines[k])
  PROVE  \/ /\ LineRejected /\ Lines[k].connection \notin Reader!Tracked
            /\ Cardinality(Reader!Tracked) = maximum_sequence_streams
         \/ /\ LineHandedOver(Lines[k].connection, Lines[k].sequence)
            /\ Lines[k].connection \in Reader!Tracked \/
                 Cardinality(Reader!Tracked) # maximum_sequence_streams
<1> DEFINE c == Lines[k].connection
           s == Lines[k].sequence
<1> USE DEF Reader!FrameLine, Reader!NextLine, Reader!HandOver, TradeFrame,
            Reader!counters, Reader!history, NextLineRead
<1>0. parse_errors \in Nat /\ submitted \in Nat /\ sequence_gaps = 0
  BY DEF ReaderInv, Counts
<1>1. CASE Reader!FrameOverStreamLimit(c, TradeFrame)
  <2>1. /\ c \notin Reader!Tracked
        /\ Cardinality(Reader!Tracked) = maximum_sequence_streams
    BY <1>1, SameCardinality DEF Reader!FrameOverStreamLimit
  <2>2. LineRejected
    BY <1>1 DEF Reader!FrameOverStreamLimit, LineRejected
  <2> QED
    BY <2>1, <2>2
<1>2. CASE Reader!FirstOfStream(c, s, TradeFrame)
  <2>1. Cardinality(Reader!Tracked) # maximum_sequence_streams
    BY <1>2, SameCardinality DEF Reader!FirstOfStream
  <2>2. LineHandedOver(c, s)
    BY <1>2, <1>0 DEF Reader!FirstOfStream, LineHandedOver, Reader!NewHigh
  <2> QED
    BY <2>1, <2>2
<1>3. CASE Reader!NextOfStream(c, s, TradeFrame)
  <2>1. c \in Reader!Tracked
    BY <1>3 DEF Reader!NextOfStream
  <2>2. s = last_sequences[c] + 1 /\ last_sequences[c] \in Nat
    BY <2>1, NextLineFollows
  <2>3. sequence_gaps + s - last_sequences[c] - 1 = 0
    BY <1>0, <2>2
  <2>4. 0 % (MaxFrames + 1) = 0
    BY CaptureAssumption
  <2>5. sequence_gaps' = sequence_gaps
    BY <1>0, <1>3, <2>3, <2>4 DEF Reader!NextOfStream
  <2> QED
    BY <1>0, <1>3, <2>1, <2>5
       DEF Reader!NextOfStream, LineHandedOver, Reader!NewHigh
<1>4. CASE Reader!LateInStream(c, s, TradeFrame)
  <2>1. c \in Reader!Tracked /\ s <= last_sequences[c]
    BY <1>4 DEF Reader!LateInStream
  <2>2. s = last_sequences[c] + 1 /\ last_sequences[c] \in Nat
    BY <2>1, NextLineFollows
  <2> QED
    BY <2>1, <2>2
<1> QED
  BY <1>1, <1>2, <1>3, <1>4 DEF ReadRecord

(* A rejected line is counted, and its stream is not followed.             *)
LEMMA ReaderRejects ==
  ASSUME WriterInv, TypeOK, ReaderInv, pc = "exited",
         UNCHANGED << vars, recording, unended, sequence_num >>,
         NEW k \in 1 .. Len(Lines), k = lines,
         LineRejected,
         k \in 1 .. Len(recording) =>
           Lines[k].connection \notin Reader!Tracked,
         file.spoiled # 0 \/ file.torn \/ ~Within
  PROVE  ReaderInv'
<1>1. /\ Lines' = Lines /\ recording' = recording /\ file' = file
      /\ pc' = pc /\ Reader!Tracked' = Reader!Tracked
      /\ Within' = Within
  BY DEF vars, dataVars, Lines, LineRejected, Reader!Tracked, Within, Streams
<1>2. lines \in Nat /\ lines > 0 /\ lines <= Len(Lines) /\ Len(Lines) \in Nat
  BY LinesAre DEF WriterInv, LinesShape
<1>3. lines' = k + 1 /\ lines' - 1 = k
  BY <1>2 DEF LineRejected, NextLineRead
<1>4. Followed'
  <2>1. \A i \in 1 .. lines - 1 : i \in 1 .. k
    BY <1>2
  <2>2. Reader!Tracked \subseteq {Lines[i].connection : i \in 1 .. k}
    BY <2>1 DEF ReaderInv, Followed
  <2> QED
    BY <1>1, <1>3, <2>2 DEF ReaderInv, Followed, LineRejected
<1>5. Counts'
  <2>1. parse_errors' \in Nat /\ parse_errors' # 0 /\ submitted' \in Nat
        /\ submitted' + parse_errors' = lines
    BY <1>2 DEF ReaderInv, Counts, LineRejected
  <2> QED
    BY <1>1, <1>2, <1>3, <2>1
       DEF ReaderInv, Counts, LineRejected, NextLineRead
<1>6. Replaying'
  BY <1>1, <1>2, <1>3 DEF ReaderInv, Replaying, LineRejected, NextLineRead
<1> QED
  BY <1>4, <1>5, <1>6 DEF ReaderInv

(* A trade handed over is counted, and its stream is followed.             *)
LEMMA ReaderHandsOver ==
  ASSUME WriterInv, TypeOK, ReaderInv, pc = "exited",
         UNCHANGED << vars, recording, unended, sequence_num >>,
         NEW k \in 1 .. Len(Lines), k = lines, ~Lines[k].torn,
         LineHandedOver(Lines[k].connection, Lines[k].sequence),
         \/ Lines[k].connection \in Reader!Tracked
         \/ Cardinality(Reader!Tracked) # maximum_sequence_streams
  PROVE  ReaderInv'
<1> DEFINE c == Lines[k].connection
<1>1. /\ Lines' = Lines /\ recording' = recording /\ file' = file
      /\ pc' = pc /\ Within' = Within
  BY DEF vars, dataVars, Lines, Within, Streams
<1>2. lines \in Nat /\ lines > 0 /\ lines <= Len(Lines) /\ Len(Lines) \in Nat
  BY LinesAre DEF WriterInv, LinesShape
<1>3. lines' = k + 1 /\ lines' - 1 = k
  BY <1>2 DEF LineHandedOver, NextLineRead
<1>t. /\ Reader!Tracked' = Reader!Tracked \cup {c}
      /\ last_sequences'[c] = Lines[k].sequence
  BY DEF LineHandedOver, Reader!Tracked
<1>4. Followed'
  <2>1. \A i \in 1 .. lines - 1 : i \in 1 .. k
    BY <1>2
  <2>2. Reader!Tracked' \subseteq {Lines[i].connection : i \in 1 .. k}
    <3>1. k \in 1 .. k
      BY <1>2
    <3> QED
      BY <1>t, <2>1, <3>1 DEF ReaderInv, Followed
  <2>3. /\ IsFiniteSet(Reader!Tracked')
        /\ Cardinality(Reader!Tracked') =
             IF c \in Reader!Tracked THEN Cardinality(Reader!Tracked)
             ELSE Cardinality(Reader!Tracked) + 1
    BY <1>t, FS_AddElement DEF ReaderInv, Followed
  <2>4. Cardinality(Reader!Tracked) \in Nat
    BY FS_CardinalityType DEF ReaderInv, Followed
  <2>5. Cardinality(Reader!Tracked') <= maximum_sequence_streams
    BY <2>3, <2>4, RecordingAssumption DEF ReaderInv, Followed
  <2> QED
    BY <1>1, <1>3, <1>t, <2>2, <2>3, <2>5 DEF Followed
<1>5. Counts'
  <2>1. /\ parse_errors' = parse_errors /\ submitted' = submitted + 1
        /\ parse_errors \in Nat /\ submitted \in Nat
        /\ submitted + parse_errors = lines - 1
    BY <1>2 DEF ReaderInv, Counts, LineHandedOver
  <2>2. submitted' + parse_errors' = lines /\ submitted' \in Nat
    BY <1>2, <2>1
  <2>3. \A i \in 1 .. k : i \in 1 .. lines - 1 \/ i = k
    BY <1>2
  <2>4. parse_errors' = 0 =>
          \A i \in 1 .. k :
            Lines[i].connection \in Reader!Tracked' /\ ~Lines[i].torn
    BY <1>t, <2>1, <2>3 DEF ReaderInv, Counts
  <2> QED
    BY <1>1, <1>2, <1>3, <2>1, <2>2, <2>4
       DEF ReaderInv, Counts, LineHandedOver, NextLineRead
<1>6. Replaying'
  BY <1>1, <1>2, <1>3 DEF ReaderInv, Replaying, LineHandedOver, NextLineRead
<1> QED
  BY <1>4, <1>5, <1>6 DEF ReaderInv

(* A step that reads no record: the metadata, the end, and a line too long. *)
LEMMA ReaderMoves ==
  ASSUME WriterInv, ReaderInv, pc = "exited",
         UNCHANGED << vars, recording, unended, sequence_num >>,
         UNCHANGED << parse_errors, submitted, sequence_gaps, out_of_order,
                      last_sequences >>,
         lines' = IF lines = 0 THEN 1 ELSE lines,
         Replaying'
  PROVE  ReaderInv'
<1>1. /\ Lines' = Lines /\ recording' = recording /\ file' = file
      /\ Reader!Tracked' = Reader!Tracked /\ Within' = Within
  BY DEF vars, dataVars, Lines, Reader!Tracked, Within, Streams
<1>2. 1 .. lines' - 1 = 1 .. lines - 1
  BY DEF ReaderInv, Replaying
<1>3. lines' - 1 = lines - 1 \/ lines' - 1 = 0
  OBVIOUS
<1>4. Followed'
  BY <1>1, <1>2, <1>3 DEF ReaderInv, Followed
<1>5. Counts'
  BY <1>1, <1>2, <1>3 DEF ReaderInv, Counts
<1> QED
  BY <1>4, <1>5 DEF ReaderInv

(* Every line that is read keeps the reader in step with the file.         *)
LEMMA ReaderStep ==
  ASSUME WriterInv, TypeOK, ReaderInv, Replay
  PROVE  ReaderInv'
<1>1. pc = "exited" /\ ReadRecording
      /\ UNCHANGED << vars, recording, unended, sequence_num >>
  BY DEF Replay
<1>2. /\ Lines' = Lines /\ file' = file /\ pc' = pc
      /\ Len(recording) \in Nat /\ Len(Lines) \in Nat
      /\ Len(Lines) = Len(recording) + Len(unended)
  BY <1>1, LinesAre
     DEF Lines, vars, dataVars, WriterInv, LinesShape
<1>3. CASE lines = 0 /\ Reader!Metadata
  <2>1. /\ lines' = 1 /\ metadata_seen' = TRUE /\ state' = "reading"
        /\ UNCHANGED << parse_errors, submitted, sequence_gaps, out_of_order,
                        last_sequences >>
    BY <1>3 DEF Reader!Metadata, Reader!NextLine, Reader!counters,
                Reader!history
  <2>2. Replaying'
    BY <1>1, <1>2, <2>1 DEF Replaying
  <2> QED
    BY <1>1, <1>3, <2>1, <2>2, ReaderMoves
<1>4. ASSUME lines \in 1 .. Len(Lines), ~Lines[lines].torn,
             ReadRecord(Lines[lines])
      PROVE  ReaderInv'
  <2>1. CASE /\ LineRejected
             /\ Lines[lines].connection \notin Reader!Tracked
             /\ Cardinality(Reader!Tracked) = maximum_sequence_streams
    BY <1>1, <1>4, <2>1, StreamTooMany, ReaderRejects
  <2>2. CASE /\ LineHandedOver(Lines[lines].connection,
                               Lines[lines].sequence)
             /\ Lines[lines].connection \in Reader!Tracked \/
                  Cardinality(Reader!Tracked) # maximum_sequence_streams
    BY <1>1, <1>4, <2>2, ReaderHandsOver
  <2> QED
    BY <1>4, <2>1, <2>2, RecordEffect
<1>5. ASSUME lines \in 1 .. Len(Lines),
             Lines[lines].torn \/ lines > Len(recording),
             Reader!RejectedLine
      PROVE  ReaderInv'
  <2>1. LineRejected
    BY <1>5
       DEF Reader!RejectedLine, Reader!NextLine, Reader!history,
           LineRejected, NextLineRead
  <2>2. lines \in 1 .. Len(recording) =>
          /\ Lines[lines].torn /\ Lines[lines] = recording[lines]
          /\ file.spoiled # 0
    BY <1>2, <1>5, LinesAre DEF WriterInv, Written, LinesShape
  <2>3. lines \notin 1 .. Len(recording) => file.torn
    <3> SUFFICES ASSUME lines \notin 1 .. Len(recording), ~file.torn
                 PROVE  FALSE
      OBVIOUS
    <3>1. Len(unended) = 0
      BY LinesAre DEF WriterInv, Written, LinesShape
    <3> QED
      BY <1>2, <1>5, <3>1
  <2>4. lines \in 1 .. Len(recording) =>
          Lines[lines].connection \notin Reader!Tracked
    BY <1>5, <2>2, NextLineFollows
  <2> QED
    BY <1>1, <1>5, <2>1, <2>2, <2>3, <2>4, ReaderRejects
<1>6. CASE lines = Len(Lines) + 1 /\ Reader!EndOfFile
  <2>1. /\ state' = (IF metadata_seen THEN "returned" ELSE "thrown")
        /\ UNCHANGED << lines, metadata_seen, parse_errors, submitted,
                        sequence_gaps, out_of_order, last_sequences >>
    BY <1>6 DEF Reader!EndOfFile, Reader!counters, Reader!history
  <2>2. lines > 0 /\ metadata_seen
    BY <1>2, <1>6 DEF ReaderInv, Replaying
  <2>3. Replaying'
    BY <1>1, <1>2, <1>6, <2>1, <2>2 DEF ReaderInv, Replaying
  <2> QED
    BY <1>1, <2>1, <2>2, <2>3, ReaderMoves
<1>7. ASSUME lines \in 1 .. Len(Lines), MayExceed(Lines[lines]),
             Reader!OversizedLine
      PROVE  ReaderInv'
  <2>1. /\ state' = "thrown"
        /\ UNCHANGED << lines, metadata_seen, parse_errors, submitted,
                        sequence_gaps, out_of_order, last_sequences >>
    BY <1>7 DEF Reader!OversizedLine, Reader!counters, Reader!history
  <2>2. Replaying'
    BY <1>1, <1>2, <1>7, <2>1 DEF ReaderInv, Replaying, MayExceed
  <2>3. lines # 0
    BY <1>7
  <2> QED
    BY <1>1, <2>1, <2>2, <2>3, ReaderMoves
<1> QED
  BY <1>1, <1>3, <1>4, <1>5, <1>6, <1>7 DEF ReadRecording

(* The reader leaves the file alone.                                       *)
LEMMA WriterRests ==
  ASSUME WriterInv, UNCHANGED << vars, recording, unended, sequence_num >>
  PROVE  WriterInv'
<1>1. /\ Lines' = Lines /\ recording' = recording /\ unended' = unended
      /\ frames' = frames /\ file' = file /\ connection_id' = connection_id
      /\ sequence_num' = sequence_num /\ pc' = pc
  BY DEF Lines, vars, dataVars, loopVars
<1>2. Written'
  BY <1>1 DEF WriterInv, Written
<1>3. Numbered'
  BY <1>1 DEF WriterInv, Numbered, First, Successor
<1>4. Current'
  BY <1>1 DEF WriterInv, Current, Fresh, Ongoing
<1> QED
  BY <1>2, <1>3, <1>4 DEF WriterInv

(* Nothing changes in a stuttering step.                                   *)
LEMMA ReaderRests ==
  ASSUME ReaderInv, UNCHANGED recordingVars
  PROVE  ReaderInv'
<1>1. /\ Lines' = Lines /\ recording' = recording /\ file' = file
      /\ pc' = pc /\ Reader!Tracked' = Reader!Tracked /\ Within' = Within
      /\ UNCHANGED << state, lines, metadata_seen, parse_errors, submitted,
                      sequence_gaps, out_of_order, last_sequences >>
  BY DEF Lines, vars, dataVars, recordingVars, readerVars, Reader!Tracked,
         Within, Streams
<1>2. Followed'
  BY <1>1 DEF ReaderInv, Followed
<1>3. Counts'
  BY <1>1 DEF ReaderInv, Counts
<1>4. Replaying'
  BY <1>1 DEF ReaderInv, Replaying
<1> QED
  BY <1>2, <1>3, <1>4 DEF ReaderInv

(* The capture of a recording is a capture: what is proved of capture      *)
(* holds while it is recorded and replayed.                                *)
THEOREM RecordingCaptures == RecordingSpec => Spec
<1>1. RecordingInit => Init
  BY DEF RecordingInit
<1>2. [RecordingNext]_recordingVars => [Next]_vars
  BY DEF RecordingNext, CaptureStep, Replay, recordingVars
<1> QED
  BY <1>1, <1>2, PTL DEF RecordingSpec, Spec

(* The invariant of the recording and its replay.                          *)
LEMMA RecordingInvAlways == RecordingSpec => [](WriterInv /\ ReaderInv)
<1>1. RecordingInit => WriterInv /\ ReaderInv
  BY WriterInit, ReaderInit
<1>2. TypeOK /\ WriterInv /\ ReaderInv /\ [RecordingNext]_recordingVars
        => (WriterInv /\ ReaderInv)'
  <2> SUFFICES ASSUME TypeOK, WriterInv, ReaderInv,
                      [RecordingNext]_recordingVars
               PROVE  WriterInv' /\ ReaderInv'
    OBVIOUS
  <2>1. CASE CaptureStep
    BY <2>1, WriterStep, ReaderWaits
  <2>2. CASE Replay
    BY <2>2, WriterRests, ReaderStep DEF Replay
  <2>3. CASE UNCHANGED recordingVars
    BY <2>3, WriterRests, ReaderRests DEF recordingVars
  <2> QED
    BY <2>1, <2>2, <2>3 DEF RecordingNext
<1> QED
  BY <1>1, <1>2, RecordingCaptures, TypeCorrect, PTL DEF RecordingSpec

(* replay agrees with capture about every recording that was published.    *)
THEOREM ReplayedCorrect == RecordingSpec => []CaptureIsReplayed
<1>1. WriterInv /\ ReaderInv => CaptureIsReplayed
  <2> SUFFICES ASSUME WriterInv, ReaderInv PROVE CaptureIsReplayed
    OBVIOUS
  <2>1. /\ sequence_gaps = 0 /\ out_of_order = 0
        /\ state = "thrown" => \E k \in 1 .. Len(Lines) : MayExceed(Lines[k])
    BY DEF ReaderInv, Counts, Replaying
  <2>2. ASSUME state = "returned"
        PROVE  /\ submitted + parse_errors = Len(Lines)
               /\ parse_errors = 0 => file.spoiled = 0 /\ Within
               /\ file.spoiled = 0 /\ ~file.torn /\ Within =>
                    parse_errors = 0
    <3>1. /\ lines = Len(Lines) + 1 /\ Len(Lines) \in Nat
          /\ lines - 1 = Len(Lines) /\ lines # 0
          /\ Len(recording) \in Nat /\ Len(recording) <= Len(Lines)
          /\ \A k \in 1 .. Len(recording) :
               k \in 1 .. Len(Lines) /\ Lines[k] = recording[k]
      BY <2>2, LinesAre DEF ReaderInv, Replaying, WriterInv, LinesShape
    <3>2. submitted + parse_errors = Len(Lines)
      BY <3>1 DEF ReaderInv, Counts
    <3>3. ASSUME parse_errors = 0 PROVE file.spoiled = 0 /\ Within
      <4>1. \A k \in 1 .. Len(Lines) :
              Lines[k].connection \in Reader!Tracked /\ ~Lines[k].torn
        BY <3>1, <3>3 DEF ReaderInv, Counts
      <4>2. file.spoiled = 0
        BY <3>1, <4>1 DEF WriterInv, Written
      <4>3. Streams \in SUBSET Reader!Tracked
        BY <3>1, <4>1 DEF Streams
      <4>4. Cardinality(Streams) <= Cardinality(Reader!Tracked)
            /\ IsFiniteSet(Streams)
        BY <4>3, FS_Subset DEF ReaderInv, Followed
      <4>5. Cardinality(Streams) \in Nat
            /\ Cardinality(Reader!Tracked) \in Nat
        BY <4>4, FS_CardinalityType DEF ReaderInv, Followed
      <4> QED
        BY <4>2, <4>4, <4>5, RecordingAssumption
           DEF Within, ReaderInv, Followed
    <3> QED
      BY <3>2, <3>3 DEF ReaderInv, Counts
  <2> QED
    BY <2>1, <2>2 DEF CaptureIsReplayed
<1> QED
  BY <1>1, RecordingInvAlways, PTL

-----------------------------------------------------------------------------
(* The recording stays within the bounds the reader is given: every        *)
(* connection but one per recorded frame has failed, and no more than      *)
(* maximum_consecutive_failures fail in a row.                             *)
Limits ==
  /\ reconnects <= frames * maximum_consecutive_failures
                     + consecutive_failures
  /\ sequence_num \in 0 .. frames
  /\ \A k \in 1 .. Len(Lines) : /\ Lines[k].connection \in 1 .. ConnectionBound
                                /\ Lines[k].sequence \in 0 .. MaxFrames

(* One failure series more than there are frames.                          *)
LEMMA SeriesOfFailures ==
  ASSUME NEW n \in Nat
  PROVE  /\ (n + 1) * maximum_consecutive_failures
              = n * maximum_consecutive_failures + maximum_consecutive_failures
         /\ n <= MaxFrames =>
              (n + 1) * maximum_consecutive_failures <= ConnectionBound
<1> DEFINE m == maximum_consecutive_failures
<1>1. m \in Nat /\ MaxFrames \in Nat
  BY CaptureAssumption
<1>2. (n + 1) * m = n * m + m
  BY <1>1
<1>3. ASSUME n <= MaxFrames
      PROVE  (n + 1) * m <= (MaxFrames + 1) * m
  <2>1. n + 1 <= MaxFrames + 1 /\ n + 1 \in Nat /\ MaxFrames + 1 \in Nat
    BY <1>1, <1>3
  <2>2. \A a, b, c \in Nat : a <= b => a * c <= b * c
    OBVIOUS
  <2> QED
    BY <1>1, <2>1, <2>2
<1> QED
  BY <1>2, <1>3 DEF ConnectionBound

(* Nothing has failed at first.                                            *)
LEMMA LimitsInit == RecordingInit => Limits
<1> SUFFICES ASSUME RecordingInit PROVE Limits
  OBVIOUS
<1>1. /\ reconnects = 0 /\ frames = 0 /\ consecutive_failures = 0
      /\ sequence_num = 0 /\ recording = << >> /\ unended = << >>
  BY DEF RecordingInit, Init
<1>2. Len(Lines) = 0
  BY <1>1, WriterInit, LinesAre, EmptySeq DEF WriterInv, LinesShape
<1>3. 0 * maximum_consecutive_failures = 0
  BY CaptureAssumption
<1> QED
  BY <1>1, <1>2, <1>3 DEF Limits

(* The failure count grows with the reconnects, and falls to zero with a   *)
(* new frame only.                                                         *)
LEMMA CountEffect ==
  ASSUME Next
  PROVE  \/ /\ reconnects' = reconnects /\ frames' = frames
            /\ consecutive_failures' = consecutive_failures
         \/ /\ reconnects' = reconnects + 1 /\ frames' = frames
            /\ consecutive_failures' = consecutive_failures + 1
         \/ /\ reconnects' = reconnects /\ frames' = frames + 1
            /\ consecutive_failures' = 0
<1> USE DEF loopVars, dataVars, endVars, envVars
<1>1. CASE WriteFrame
  BY <1>1 DEF WriteFrame
<1>2. CASE CountFailure
  BY <1>2 DEF CountFailure
<1>3. CASE \/ InstallHandler \/ InstallFails \/ RestoreHandler
           \/ WriteMetadata \/ LoopAgain \/ LoopEnds
           \/ Connected \/ ConnectAborted \/ ConnectFails
  BY <1>3 DEF InstallHandler, InstallFails, RestoreHandler, WriteMetadata,
              LoopAgain, LoopEnds, Connected, ConnectAborted, ConnectFails
<1>4. CASE \/ SendStopped \/ SendAccepted \/ SendAgain \/ SendFails
           \/ WaitSocket("wait_send", "send")
           \/ WaitSocket("wait_receive", "receive")
  BY <1>4 DEF SendStopped, SendAccepted, SendAgain, SendFails, WaitSocket
<1>5. CASE \/ ReceiveEnds \/ ReceiveAgain \/ ReceiveFails \/ ReceiveControl
           \/ ReceiveBinary \/ ReceiveOversized
           \/ \E last \in BOOLEAN : ReceiveText(last)
  BY <1>5 DEF ReceiveEnds, ReceiveAgain, ReceiveFails, ReceiveControl,
              ReceiveBinary, ReceiveOversized, ReceiveText
<1>6. CASE \/ DumpFails \/ WriteFails \/ CaughtAtEnd \/ CaughtEarlier
           \/ Backoff \/ ReadInterrupted \/ CheckFrames
  BY <1>6 DEF DumpFails, WriteFails, CaughtAtEnd, CaughtEarlier, Backoff,
              ReadInterrupted, CheckFrames
<1>7. CASE Commit \/ CommitFails \/ ReadSignal \/ PrintResult \/ Leave \/ Fail
  BY <1>7 DEF Commit, CommitFails, ReadSignal, PrintResult, Leave, Fail
<1>8. CASE \/ \E signal \in Signal : request_capture_stop(signal)
                                       \/ Terminate(signal)
           \/ Expire \/ Exited
  BY <1>8 DEF request_capture_stop, Terminate, Expire, Exited, vars
<1> QED
  BY <1>1, <1>2, <1>3, <1>4, <1>5, <1>6, <1>7, <1>8 DEF Next, Program

(* The connection that is recorded from is within its bound.               *)
LEMMA ConnectionWithin ==
  ASSUME Inv, Limits, pc = "write"
  PROVE  connection_id \in 1 .. ConnectionBound
<1> DEFINE m == maximum_consecutive_failures
           product == frames * m
<1>1. /\ frames \in Nat /\ frames <= MaxFrames /\ m \in Nat
      /\ consecutive_failures \in Nat /\ reconnects \in Nat
      /\ consecutive_failures < m /\ connection_id = reconnects + 1
  BY CaptureAssumption
     DEF Inv, TypeOK, Bounded, Counted, ReconnectsAreCounted
<1>2. product \in Nat /\ (frames + 1) * m = product + m
  BY <1>1, SeriesOfFailures
<1>3. product + m <= ConnectionBound
  BY <1>1, <1>2, SeriesOfFailures
<1>4. ConnectionBound \in Nat
  BY CaptureAssumption DEF ConnectionBound
<1>5. reconnects <= product + consecutive_failures
  BY DEF Limits
<1> HIDE DEF product
<1> QED
  BY <1>1, <1>2, <1>3, <1>4, <1>5

(* Every step of capture stays within the limits.                          *)
LEMMA LimitsStep ==
  ASSUME Inv, WriterInv, Limits, CaptureStep
  PROVE  Limits'
<1> DEFINE m == maximum_consecutive_failures
<1>n. Next
  BY DEF CaptureStep
<1>t. /\ frames \in Nat /\ frames <= MaxFrames /\ m \in Nat
      /\ consecutive_failures \in 0 .. m /\ reconnects \in Nat
      /\ (pc = "write" => frames < MaxFrames) /\ MaxFrames \in Nat
  BY CaptureAssumption DEF Inv, TypeOK, Bounded
<1>1. reconnects' <= frames' * m + consecutive_failures'
  <2> DEFINE product == frames * m
  <2>1. product \in Nat /\ (frames + 1) * m = product + m
    BY <1>t, SeriesOfFailures
  <2>2. reconnects <= product + consecutive_failures
    BY DEF Limits
  <2>3. CASE reconnects' = reconnects /\ frames' = frames
             /\ consecutive_failures' = consecutive_failures
    BY <2>2, <2>3
  <2>4. CASE reconnects' = reconnects + 1 /\ frames' = frames
             /\ consecutive_failures' = consecutive_failures + 1
    <3>1. frames' * m = product
      BY <2>4
    <3> HIDE DEF product
    <3> QED
      BY <1>t, <2>1, <2>2, <2>4, <3>1
  <2>5. CASE reconnects' = reconnects /\ frames' = frames + 1
             /\ consecutive_failures' = 0
    <3>1. frames' * m = product + m
      BY <2>1, <2>5
    <3> HIDE DEF product
    <3> QED
      BY <1>t, <2>1, <2>2, <2>5, <3>1
  <2> QED
    BY <1>n, <2>3, <2>4, <2>5, CountEffect
<1>2. CASE ~WriteFails /\ (Keeps \/ Connects)
  <2>1. Lines' = Lines /\ frames' = frames
    BY <1>2, SameLines DEF Keeps, Connects
  <2>2. sequence_num' \in 0 .. frames
    <3>1. frames' - frames = 0
      BY <1>t, <2>1
    <3> QED
      BY <1>t, <3>1 DEF CaptureStep, Limits
  <2> QED
    BY <1>1, <2>1, <2>2 DEF Limits
<1>3. ASSUME NEW n \in Nat, n = Len(recording), pc = "write",
             Len(Lines') = n + 1 \/ Lines' = Lines,
             Len(Lines') = n + 1 =>
               /\ \A k \in 1 .. n : Lines'[k] = recording[k]
               /\ Lines'[n + 1] = Record
      PROVE  \A k \in 1 .. Len(Lines') :
               /\ Lines'[k].connection \in 1 .. ConnectionBound
               /\ Lines'[k].sequence \in 0 .. MaxFrames
  <2>1. CASE Lines' = Lines
    BY <2>1 DEF Limits
  <2>2. CASE Len(Lines') = n + 1
    <3>1. \A k \in 1 .. n : k \in 1 .. Len(Lines) /\ Lines[k] = recording[k]
      BY <1>3, LinesAre DEF WriterInv, LinesShape
    <3>2. /\ Record.connection \in 1 .. ConnectionBound
          /\ Record.sequence \in 0 .. MaxFrames
      BY <1>3, <1>t, ConnectionWithin, RecordIsEntry DEF Inv, Limits
    <3>3. \A k \in 1 .. n + 1 : k \in 1 .. n \/ k = n + 1
      OBVIOUS
    <3> QED
      BY <1>3, <2>2, <3>1, <3>2, <3>3 DEF Limits
  <2> QED
    BY <1>3, <2>1, <2>2
<1>4. Len(recording) \in Nat
  BY LinesAre DEF WriterInv, LinesShape
<1>5. CASE Writes
  <2>1. /\ Len(recording') = Len(recording) + 1 /\ unended' = << >>
        /\ \A k \in 1 .. Len(recording) : recording'[k] = recording[k]
        /\ recording'[Len(recording) + 1] = Record
        /\ sequence_num' = sequence_num + 1 /\ frames' = frames + 1
    <3>1. frames' # frames /\ frames' - frames = 1 /\ pc = "write"
          /\ frames' = frames + 1
      BY <1>t, <1>5 DEF Writes
    <3>2. /\ recording' = Append(recording, Record) /\ unended' = << >>
          /\ sequence_num' = sequence_num + 1
      BY <1>5, <3>1 DEF CaptureStep, Unended, Writes
    <3>3. recording \in Seq(Entry) /\ Record \in Entry
      BY RecordIsEntry DEF Inv, WriterInv, Written
    <3> QED
      BY <3>1, <3>2, <3>3, AppendProperties
  <2>2. LinesShape'
    BY WriterStep, LinesAreNext DEF Inv, WriterInv
  <2>3. /\ Len(Lines') = Len(recording) + 1
        /\ \A k \in 1 .. Len(recording) : Lines'[k] = recording[k]
        /\ Lines'[Len(recording) + 1] = Record
    BY <1>4, <2>1, <2>2, EmptySeq DEF LinesShape
  <2>4. \A k \in 1 .. Len(Lines') :
          /\ Lines'[k].connection \in 1 .. ConnectionBound
          /\ Lines'[k].sequence \in 0 .. MaxFrames
    BY <1>3, <1>4, <1>5, <2>3 DEF Writes
  <2>5. sequence_num' \in 0 .. frames'
    BY <1>t, <2>1 DEF Limits
  <2> QED
    BY <1>1, <2>4, <2>5 DEF Limits
<1>6. CASE Tears
  <2>1. recording' = recording /\ frames' = frames /\ pc = "write"
        /\ sequence_num' = sequence_num
    BY <1>6, NumberKept DEF CaptureStep, Tears
  <2>2. LinesShape'
    BY WriterStep, LinesAreNext DEF Inv, WriterInv
  <2>3. unended' \in {<< >>, unended, << Record >>}
    BY DEF CaptureStep, Unended
  <2>4. CASE unended' = << Record >>
    <3>1. Len(unended') = 1 /\ unended'[1] = Record
      BY <2>4
    <3>2. /\ Len(Lines') = Len(recording) + 1
          /\ \A k \in 1 .. Len(recording) : Lines'[k] = recording[k]
          /\ Lines'[Len(recording) + 1] = Record
      BY <1>4, <2>1, <2>2, <3>1 DEF LinesShape
    <3> QED
      BY <1>1, <1>3, <1>4, <2>1, <3>2 DEF Limits
  <2>5. CASE unended' = unended
    <3>1. Lines' = Lines
      BY <2>1, <2>5 DEF Lines
    <3> QED
      BY <1>1, <2>1, <3>1 DEF Limits
  <2>6. CASE unended' = << >>
    <3>1. /\ Len(Lines') = Len(recording)
          /\ \A k \in 1 .. Len(recording) :
               Lines'[k] = recording[k] /\ Lines[k] = recording[k]
               /\ k \in 1 .. Len(Lines)
      BY <1>4, <2>1, <2>2, <2>6, EmptySeq, LinesAre
         DEF WriterInv, LinesShape
    <3> QED
      BY <1>1, <2>1, <3>1 DEF Limits
  <2> QED
    BY <2>3, <2>4, <2>5, <2>6
<1> QED
  BY <1>2, <1>5, <1>6, <1>n, CaptureEffect

(* Reading the recording is reading: the replay of what capture has left   *)
(* is a behaviour of the reader, within the bounds it is given.            *)
THEOREM RecordingReads == RecordingSpec => Reader!Spec
<1>1. RecordingInit => WriterInv /\ Limits /\ Reader!Init
  BY WriterInit, LimitsInit DEF RecordingInit
<1>2. Inv /\ WriterInv /\ Limits /\ [RecordingNext]_recordingVars
        => (WriterInv /\ Limits)'
  <2> SUFFICES ASSUME Inv, WriterInv, Limits, [RecordingNext]_recordingVars
               PROVE  WriterInv' /\ Limits'
    OBVIOUS
  <2>1. CASE CaptureStep
    BY <2>1, WriterStep, LimitsStep DEF Inv
  <2>2. CASE UNCHANGED << vars, recording, unended, sequence_num >>
    <3>1. /\ Lines' = Lines /\ frames' = frames /\ reconnects' = reconnects
          /\ consecutive_failures' = consecutive_failures
          /\ sequence_num' = sequence_num
      BY <2>2 DEF Lines, vars, dataVars, loopVars
    <3> QED
      BY <2>2, <3>1, WriterRests DEF Limits
  <2> QED
    BY <2>1, <2>2 DEF RecordingNext, Replay, recordingVars
<1>3. Limits /\ [RecordingNext]_recordingVars => [Reader!Next]_(Reader!vars)
  <2> SUFFICES ASSUME Limits, Replay
               PROVE  Reader!Next
    BY DEF RecordingNext, CaptureStep, recordingVars, readerVars,
           Reader!vars, Reader!counters, Reader!history
  <2>1. ASSUME NEW k \in 1 .. Len(Lines), ReadRecord(Lines[k])
        PROVE  Reader!Next
    <3>1. /\ Lines[k].connection \in 1 .. ConnectionBound
          /\ Lines[k].sequence \in Reader!Number
      BY CaptureAssumption DEF Limits, Reader!Number
    <3>2. TradeFrame \in Reader!Frames
      BY DEF TradeFrame, Reader!Frames, Reader!MarketTrades
    <3> QED
      BY <2>1, <3>1, <3>2 DEF ReadRecord, Reader!Next, Reader!ReadFrame
  <2> QED
    BY <2>1 DEF Replay, ReadRecording, Reader!Next
<1> QED
  BY <1>1, <1>2, <1>3, RecordingCaptures, InvAlways, PTL
     DEF RecordingSpec, Reader!Spec
=============================================================================
