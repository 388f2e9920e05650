------------------------------ MODULE Capture ------------------------------
(***************************************************************************)
(* The capture command: capture_live's connect / receive / reconnect loop  *)
(* and the part of main around it, with the signal handler free to run     *)
(* between any two steps.  A step ends where the code looks at the stop    *)
(* flag or the deadline again, or calls curl or the file system.           *)
(*                                                                         *)
(* External: curl and the provider (any answer, messages in chunks), the   *)
(* clock (the deadline passes at some point), and the file system behind   *)
(* write_line and commit, whose detail is AtomicOutput.  A chunk is its    *)
(* position in the message the provider is sending.                        *)
(***************************************************************************)
EXTENDS Integers, Sequences

CONSTANTS
  Signal,        \* SIGINT, SIGTERM
  None,
  maximum_consecutive_failures,
  maximum_message_size,   \* in chunks
  MaxFrames      \* bound: frames one capture records

ASSUME CaptureAssumption ==
  /\ None \notin Signal
  /\ {"error", "killed"} \cap (Signal \cup {None}) = {}
  /\ maximum_consecutive_failures \in Nat \ {0}
  /\ maximum_message_size \in Nat \ {0}
  /\ MaxFrames \in Nat

VARIABLES
  pc,
  handled,            \* signals with request_capture_stop installed
  capture_signal,     \* set by the handler, the first signal only
  expired,            \* clock_type::now() >= deadline
  connection_id, reconnects, consecutive_failures, frames, interrupted,
  unsent,             \* subscriptions send_all has still to send
  message,            \* chunks assembled so far
  delivered,          \* chunks of its current message the provider sent
  file,               \* what write_line left in the partial file
  published,          \* the recording has its final name
  ioFailed,           \* history: a write or a step of commit failed
  status              \* exit status: None is 0, a signal is 128 + signal,
                      \* "killed" an end by the default action of a signal

loopVars == << connection_id, reconnects, consecutive_failures, unsent >>
dataVars == << message, delivered, frames, file >>
endVars  == << interrupted, published, ioFailed, status >>
envVars  == << handled, capture_signal, expired >>
vars == << pc, loopVars, dataVars, endVars, envVars >>

(* file: frame records ended by a newline, how many of them hold a torn    *)
(* record's bytes before their own, and whether such bytes end the file.   *)
EmptyFile == [lines |-> 0, spoiled |-> 0, torn |-> FALSE]

Init ==
  /\ pc = "install"
  /\ handled = {}
  /\ capture_signal = None
  /\ expired = FALSE
  /\ connection_id = 0 /\ reconnects = 0 /\ consecutive_failures = 0
  /\ frames = 0
  /\ interrupted = FALSE
  /\ unsent = 0
  /\ message = << >> /\ delivered = 0
  /\ file = EmptyFile
  /\ published = FALSE
  /\ ioFailed = FALSE
  /\ status = None

Goes(from, to) == pc = from /\ pc' = to

(* Mutant of stopped: the callback is not passed on.                       *)
NeverStopped == FALSE

stopped == capture_signal # None


MayGoOn == ~expired /\ ~stopped

-----------------------------------------------------------------------------
(* External: the signals, and the clock.                                   *)

request_capture_stop(signal) ==
  /\ pc # "exited" /\ signal \in handled
  /\ capture_signal = None
  /\ capture_signal' = signal
  /\ UNCHANGED << pc, handled, expired, loopVars, dataVars, endVars >>

(* The default action of a signal without our handler.                     *)
Terminate(signal) ==
  /\ pc # "exited" /\ signal \notin handled
  /\ pc' = "exited" /\ status' = "killed"
  /\ UNCHANGED << interrupted, published, ioFailed, loopVars, dataVars,
                  envVars >>

Expire ==
  /\ ~expired /\ expired' = TRUE
  /\ UNCHANGED << pc, handled, capture_signal, loopVars, dataVars, endVars >>

-----------------------------------------------------------------------------
(* capture_signal_scope: one call of sigaction a step, in any order.       *)

(* Mutant of InstallHandler: the capture starts behind the first handler.  *)
InstallOneHandler ==
  /\ \E signal \in Signal \ handled :
       handled' = handled \cup {signal} /\ Goes("install", "metadata")
  /\ UNCHANGED << capture_signal, expired, loopVars, dataVars, endVars >>

InstallHandler ==
  /\ \E signal \in Signal \ handled :
       /\ handled' = handled \cup {signal}
       /\ Goes("install", IF handled' = Signal THEN "metadata" ELSE "install")
  /\ UNCHANGED << capture_signal, expired, loopVars, dataVars, endVars >>

InstallFails ==
  /\ Goes("install", "failed")
  /\ UNCHANGED << loopVars, dataVars, endVars, envVars >>

(* The destructor, at the end of main's scope or on the way to its catch.  *)
RestoreHandler ==
  /\ pc \in {"leave", "failed"}
  /\ \E signal \in handled : handled' = handled \ {signal}
  /\ UNCHANGED << pc, capture_signal, expired, loopVars, dataVars, endVars >>

-----------------------------------------------------------------------------
(* Before the loop: an exception from the first write_line ends it all.    *)
WriteMetadata ==
  /\ \/ Goes("metadata", "loop") /\ UNCHANGED ioFailed
     \/ Goes("metadata", "failed") /\ ioFailed' = TRUE
  /\ UNCHANGED << interrupted, published, status, loopVars, dataVars,
                  envVars >>

(* Mutant of LoopAgain: a reconnect keeps the connection's number.         *)
LoopAgainUnnumbered ==
  /\ Goes("loop", "perform")
  /\ MayGoOn
  /\ connection_id' = 1
  /\ UNCHANGED << reconnects, consecutive_failures, unsent, dataVars,
                  endVars, envVars >>

LoopAgain ==
  /\ Goes("loop", "perform")
  /\ MayGoOn
  /\ connection_id' = connection_id + 1
  /\ UNCHANGED << reconnects, consecutive_failures, unsent, dataVars,
                  endVars, envVars >>

LoopEnds ==
  /\ Goes("loop", "after")
  /\ ~MayGoOn
  /\ UNCHANGED << loopVars, dataVars, endVars, envVars >>

-----------------------------------------------------------------------------
(* connect, send_all and wait_socket.                                      *)

(* A new connection starts with an empty message on both sides.            *)
Connected ==
  /\ Goes("perform", "send")
  /\ unsent' = 2
  /\ message' = << >> /\ delivered' = 0
  /\ UNCHANGED << connection_id, reconnects, consecutive_failures, frames,
                  file, endVars, envVars >>

(* progress_callback saw the flag and aborted the transfer.                *)
ConnectAborted ==
  /\ Goes("perform", "after")
  /\ stopped
  /\ UNCHANGED << loopVars, dataVars, endVars, envVars >>

ConnectFails ==
  /\ Goes("perform", "caught")
  /\ UNCHANGED << loopVars, dataVars, endVars, envVars >>

SendStopped ==
  /\ Goes("send", "after")
  /\ stopped
  /\ UNCHANGED << loopVars, dataVars, endVars, envVars >>

(* One subscription is through; after the second one connect returns.      *)
SendAccepted ==
  /\ Goes("send", IF unsent = 1 THEN "receive" ELSE "send")
  /\ ~stopped
  /\ unsent' = unsent - 1
  /\ UNCHANGED << connection_id, reconnects, consecutive_failures, dataVars,
                  endVars, envVars >>

SendAgain ==
  /\ Goes("send", "wait_send")
  /\ ~stopped
  /\ UNCHANGED << loopVars, dataVars, endVars, envVars >>

SendFails ==
  /\ Goes("send", "caught")
  /\ ~stopped
  /\ UNCHANGED << loopVars, dataVars, endVars, envVars >>

(* wait_socket: the flag is looked at before and after the poll.           *)
WaitSocket(from, back) ==
  /\ \/ stopped /\ Goes(from, "after")
     \/ ~stopped /\ Goes(from, back)
     \/ ~stopped /\ Goes(from, "caught")
  /\ UNCHANGED << loopVars, dataVars, endVars, envVars >>

-----------------------------------------------------------------------------
(* The receive loop.                                                       *)

ReceiveEnds ==
  /\ Goes("receive", "loop")
  /\ ~MayGoOn
  /\ UNCHANGED << loopVars, dataVars, endVars, envVars >>

ReceiveAgain ==
  /\ Goes("receive", "wait_receive")
  /\ MayGoOn
  /\ UNCHANGED << loopVars, dataVars, endVars, envVars >>

(* An error, a close frame, no frame metadata.                             *)
ReceiveFails ==
  /\ Goes("receive", "caught")
  /\ MayGoOn
  /\ UNCHANGED << loopVars, dataVars, endVars, envVars >>

(* Control frames come at any time, even inside a message.                 *)
ReceiveControl ==
  /\ Goes("receive", "receive")
  /\ MayGoOn
  /\ UNCHANGED << loopVars, dataVars, endVars, envVars >>

(* A binary message, which cannot come inside a text message.              *)
ReceiveBinary ==
  /\ Goes("receive", "receive")
  /\ MayGoOn
  /\ delivered = 0
  /\ message' = << >>
  /\ UNCHANGED << delivered, frames, file, loopVars, endVars, envVars >>

(* A chunk of a text message: bytesleft and CURLWS_CONT tell the last one. *)
ReceiveText(last) ==
  /\ Goes("receive", IF last THEN "write" ELSE "receive")
  /\ MayGoOn
  /\ frames < MaxFrames
  /\ Len(message) < maximum_message_size
  /\ delivered' = delivered + 1
  /\ message' = Append(message, delivered + 1)
  /\ UNCHANGED << frames, file, loopVars, endVars, envVars >>

ReceiveOversized ==
  /\ Goes("receive", "caught")
  /\ MayGoOn
  /\ Len(message) = maximum_message_size
  /\ delivered' = delivered + 1
  /\ UNCHANGED << message, frames, file, loopVars, endVars, envVars >>

(* Mutant of WriteFrame: no message.clear().                               *)
WriteFrameKeepsMessage ==
  /\ Goes("write", "receive")
  /\ file' = [file EXCEPT !.lines = @ + 1]
  /\ frames' = frames + 1
  /\ consecutive_failures' = 0
  /\ delivered' = 0
  /\ UNCHANGED << message, connection_id, reconnects, unsent, endVars,
                  envVars >>

WriteFrame ==
  /\ Goes("write", "receive")
  /\ file' = [lines   |-> file.lines + 1,
              spoiled |-> file.spoiled + (IF file.torn THEN 1 ELSE 0),
              torn    |-> FALSE]
  /\ frames' = frames + 1
  /\ consecutive_failures' = 0
  /\ message' = << >> /\ delivered' = 0
  /\ UNCHANGED << connection_id, reconnects, unsent, endVars, envVars >>

(* The envelope cannot be dumped (the payload is not UTF-8): nothing was   *)
(* written, and the message is dropped with the connection.                *)
DumpFails ==
  /\ Goes("write", "caught")
  /\ UNCHANGED << loopVars, dataVars, endVars, envVars >>

(* write_line throws, with some, all or none of the record written, inside *)
(* the same try block as the socket calls.                                 *)
WriteFails ==
  /\ Goes("write", "caught")
  /\ \E some \in BOOLEAN : file' = [file EXCEPT !.torn = @ \/ some]
  /\ ioFailed' = TRUE
  /\ UNCHANGED << message, delivered, frames, interrupted, published, status,
                  loopVars, envVars >>

-----------------------------------------------------------------------------
(* catch (const std::exception&).                                          *)

CaughtAtEnd ==
  /\ Goes("caught", "after")
  /\ ~MayGoOn
  /\ UNCHANGED << loopVars, dataVars, endVars, envVars >>

CaughtEarlier ==
  /\ Goes("caught", "count")
  /\ MayGoOn
  /\ UNCHANGED << loopVars, dataVars, endVars, envVars >>

(* Mutants of CountFailure: > for >=, and a forgotten ++result.reconnects. *)
CountFailureTooLate ==
  /\ Goes("count",
          IF consecutive_failures > maximum_consecutive_failures
          THEN "failed" ELSE "backoff")
  /\ reconnects' = reconnects + 1
  /\ consecutive_failures' = consecutive_failures + 1
  /\ UNCHANGED << connection_id, unsent, dataVars, endVars, envVars >>

CountFailureNoReconnect ==
  /\ Goes("count",
          IF consecutive_failures + 1 >= maximum_consecutive_failures
          THEN "failed" ELSE "backoff")
  /\ consecutive_failures' = consecutive_failures + 1
  /\ UNCHANGED << connection_id, reconnects, unsent, dataVars, endVars,
                  envVars >>

CountFailure ==
  /\ Goes("count",
          IF consecutive_failures + 1 >= maximum_consecutive_failures
          THEN "failed" ELSE "backoff")
  /\ reconnects' = reconnects + 1
  /\ consecutive_failures' = consecutive_failures + 1
  /\ UNCHANGED << connection_id, unsent, dataVars, endVars, envVars >>

Backoff ==
  /\ Goes("backoff", "loop")
  /\ UNCHANGED << loopVars, dataVars, endVars, envVars >>

-----------------------------------------------------------------------------
(* After the loop.                                                         *)

ReadInterrupted ==
  /\ Goes("after", "check_frames")
  /\ interrupted' = stopped
  /\ UNCHANGED << published, ioFailed, status, loopVars, dataVars, envVars >>

(* Mutant of CheckFrames: an empty recording is committed.                 *)
CheckFramesNot ==
  /\ Goes("check_frames", "commit")
  /\ UNCHANGED << loopVars, dataVars, endVars, envVars >>

CheckFrames ==
  /\ Goes("check_frames",
          IF frames = 0 /\ ~interrupted THEN "failed" ELSE "commit")
  /\ UNCHANGED << loopVars, dataVars, endVars, envVars >>

Commit ==
  /\ Goes("commit", "returned")
  /\ published' = TRUE
  /\ UNCHANGED << interrupted, ioFailed, status, loopVars, dataVars,
                  envVars >>

(* A call before link fails, or one after it.                              *)
CommitFails ==
  /\ Goes("commit", "failed")
  /\ published' \in BOOLEAN
  /\ ioFailed' = TRUE
  /\ UNCHANGED << interrupted, status, loopVars, dataVars, envVars >>

(* main: const int signal = capture_signal.                                *)
ReadSignal ==
  /\ Goes("returned", "print")
  /\ status' = capture_signal
  /\ UNCHANGED << interrupted, published, ioFailed, loopVars, dataVars,
                  envVars >>

PrintResult ==
  /\ Goes("print", "leave")
  /\ UNCHANGED << loopVars, dataVars, endVars, envVars >>

Leave ==
  /\ Goes("leave", "exited")
  /\ handled = {}
  /\ UNCHANGED << loopVars, dataVars, endVars, envVars >>

(* main's handler: status 2.                                               *)
Fail ==
  /\ Goes("failed", "exited")
  /\ handled = {}
  /\ status' = "error"
  /\ UNCHANGED << interrupted, published, ioFailed, loopVars, dataVars,
                  envVars >>

Exited == pc = "exited" /\ UNCHANGED vars

-----------------------------------------------------------------------------
Program ==
  \/ InstallHandler \/ InstallFails \/ RestoreHandler
  \/ WriteMetadata \/ LoopAgain \/ LoopEnds
  \/ Connected \/ ConnectAborted \/ ConnectFails
  \/ SendStopped \/ SendAccepted \/ SendAgain \/ SendFails
  \/ WaitSocket("wait_send", "send") \/ WaitSocket("wait_receive", "receive")
  \/ ReceiveEnds \/ ReceiveAgain \/ ReceiveFails \/ ReceiveControl
  \/ ReceiveBinary \/ ReceiveOversized
  \/ \E last \in BOOLEAN : ReceiveText(last)
  \/ WriteFrame \/ DumpFails \/ WriteFails
  \/ CaughtAtEnd \/ CaughtEarlier \/ CountFailure \/ Backoff
  \/ ReadInterrupted \/ CheckFrames \/ Commit \/ CommitFails
  \/ ReadSignal \/ PrintResult \/ Leave \/ Fail

Next ==
  \/ Program
  \/ \E signal \in Signal : request_capture_stop(signal) \/ Terminate(signal)
  \/ Expire
  \/ Exited

Spec == Init /\ [][Next]_vars

(* The process runs, and every call returns: the waits have timeouts.      *)
(* Nothing is assumed of the clock, the signals or the provider.           *)
FairSpec == Spec /\ WF_vars(Program)

-----------------------------------------------------------------------------
Locations ==
  {"install", "metadata", "loop", "perform", "send", "wait_send", "receive",
   "wait_receive", "write", "caught", "count", "backoff", "after",
   "check_frames", "commit", "returned", "print", "leave", "failed",
   "exited"}

(* Every variable keeps to its domain; the failure counter never passes    *)
(* its limit.                                                              *)
TypeOK ==
  /\ pc \in Locations
  /\ handled \in SUBSET Signal
  /\ capture_signal \in Signal \cup {None}
  /\ expired \in BOOLEAN /\ interrupted \in BOOLEAN
  /\ published \in BOOLEAN /\ ioFailed \in BOOLEAN
  /\ connection_id \in Nat /\ reconnects \in Nat
  /\ consecutive_failures \in 0 .. maximum_consecutive_failures
  /\ frames \in 0 .. MaxFrames
  /\ unsent \in 0 .. 2
  /\ message \in Seq(Nat) /\ Len(message) <= maximum_message_size
  /\ delivered \in 0 .. maximum_message_size + 1
  /\ file \in [lines : Nat, spoiled : Nat, torn : BOOLEAN]
  /\ status \in Signal \cup {None, "error", "killed"}

(* What is about to be recorded is one provider message: all its chunks,   *)
(* in order, whatever came between them and on whatever connection.        *)
WholeMessages ==
  pc = "write" => message = [k \in 1 .. delivered |-> k]

(* Each connection but the current one ended in a counted reconnect, so    *)
(* the count never hides a connection boundary.                            *)
ReconnectsAreCounted ==
  /\ connection_id - reconnects \in {0, 1}
  /\ pc \in {"perform", "send", "wait_send", "receive", "wait_receive",
             "write", "caught", "count"} => connection_id = reconnects + 1

(* A run that ends without an error has published a recording of exactly   *)
(* the frames it reports, and reports none only when it was interrupted;   *)
(* an error status with a published recording is a failed commit.          *)
StatusTellsOutcome ==
  pc = "exited" =>
    /\ status \notin {"error", "killed"} =>
         published /\ frames = file.lines /\ (frames = 0 => status # None)
    /\ status = "error" /\ published => ioFailed

(* docs/DATA_FORMAT.md:5-6: "Each line is one complete JSON object         *)
(* followed by `\n`."  A failing write_line is taken for a connection      *)
(* failure: the loop goes on after the torn bytes and may end in success.  *)
EveryLineComplete ==
  pc = "exited" /\ status \notin {"error", "killed"} =>
    file.spoiled = 0 /\ ~file.torn

(* A signal never costs the recording: whatever moment it comes at, frames *)
(* recorded are published but for a failed write or commit, or the last of *)
(* the consecutive connection failures.  A handler that is missing while   *)
(* frames are recorded, or a throw past the commit, would lose them.       *)
RecordedIsPublished ==
  pc = "exited" /\ frames > 0 /\ ~published =>
    ioFailed \/ consecutive_failures = maximum_consecutive_failures

(* docs/OPERATIONS.md:70-71: "Handled signals sync and atomically publish  *)
(* the recording, then exit with status 130 or 143."  The flag may be set  *)
(* after the loop's or main's last look at it: repeated failures throw     *)
(* without asking again, and main's handlers outlive its copy of the flag. *)
HandledSignalFinalizes ==
  /\ pc = "exited" /\ status # "killed"
  /\ capture_signal # None /\ frames > 0 /\ ~ioFailed
  => published /\ status = capture_signal

(* Every wait looks at the flag: a signal ends the command from any state, *)
(* without help from the provider or the clock.                            *)
SignalEndsCapture == capture_signal # None ~> pc = "exited"

=============================================================================
