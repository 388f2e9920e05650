----------------------------- MODULE Recording ------------------------------
(***************************************************************************)
(* What capture has recorded, read by replay: Capture writes the lines,    *)
(* and once it has exited read_capture goes over a published recording.    *)
(* A line keeps what the reader's verdict depends on: its connection,      *)
(* whether torn bytes precede it, and the most room it can take, the torn  *)
(* bytes included.                                                         *)
(*                                                                         *)
(* External: the provider numbers the messages of each connection one by   *)
(* one, and each is a market_trades frame with one valid trade.            *)
(***************************************************************************)
EXTENDS Capture, FiniteSets

CONSTANTS
  maximum_sequence_streams,
  maximum_record_size    \* in chunks, as maximum_message_size

ASSUME RecordingAssumption ==
  maximum_sequence_streams \in Nat /\ maximum_record_size \in Nat

VARIABLES
  recording,     \* the frame records in the file
  unended,       \* the torn end of the file, as a line without a newline
  sequence_num,  \* the provider's number for its next message
  state, lines, metadata_seen, replayed_frames, parse_errors, sequence_gaps,
  out_of_order, last_sequences, submitted, recorded, highs   \* the reader's

readerVars == << state, lines, metadata_seen, replayed_frames, parse_errors,
                 sequence_gaps, out_of_order, last_sequences, submitted,
                 recorded, highs >>

(* No run makes more connections than this.                                *)
ConnectionBound == (MaxFrames + 1) * maximum_consecutive_failures

Reader == INSTANCE CaptureReader WITH
            frames <- replayed_frames,
            Connection <- 1 .. ConnectionBound,
            Width <- MaxFrames + 1,
            MaxLines <- MaxFrames + 2

RecordingInit ==
  /\ Init /\ Reader!Init
  /\ recording = << >> /\ unended = << >> /\ sequence_num = 0

TradeFrame == [channel |-> "market_trades", good |-> 1, rest |-> 0]

-----------------------------------------------------------------------------
(* A record's message is escaped in it, which makes six bytes (\u00XX) of  *)
(* a control character, and the envelope comes on top.                     *)
Escaped(chunks) == 6 * chunks + 1

(* The bytes of failed writes end up before the next record, without a     *)
(* newline in between.                                                     *)
Record ==
  [connection |-> connection_id, sequence |-> sequence_num,
   torn |-> file.torn,
   size |-> Escaped(Len(message))
            + (IF unended = << >> THEN 0 ELSE unended[1].size)]

(* A failed write leaves some of the record behind, up to all of it but    *)
(* the newline; behind bytes that were torn before, it may leave nothing.  *)
Unended ==
  IF ~file'.torn THEN unended' = << >>
  ELSE IF WriteFails
       THEN \/ unended' = << Record >>
            \/ file.torn /\ UNCHANGED unended
       ELSE UNCHANGED unended

CaptureStep ==
  /\ Next
  /\ recording' = IF frames' = frames THEN recording
                  ELSE Append(recording, Record)
  /\ Unended
  /\ sequence_num' = IF pc = "perform" /\ pc' = "send" THEN 0
                     ELSE sequence_num + (frames' - frames)
  /\ UNCHANGED readerVars

(* A record in one piece.                                                  *)
ReadRecord(line) ==
  \/ Reader!FrameOverStreamLimit(line.connection, TradeFrame)
  \/ Reader!FirstOfStream(line.connection, line.sequence, TradeFrame)
  \/ Reader!NextOfStream(line.connection, line.sequence, TradeFrame)
  \/ Reader!LateInStream(line.connection, line.sequence, TradeFrame)

(* Torn bytes and a record behind them are one line, and no JSON text.  At *)
(* the end of the file they can be a record that lacks its newline only.   *)
(* Of a line's size only the most it can be is known, so that one that may *)
(* exceed the limit may also be read.                                      *)
Lines == recording \o unended

MayExceed(line) == line.size > maximum_record_size

ReadRecording ==
  \/ lines = 0 /\ Reader!Metadata
  \/ /\ lines \in 1 .. Len(Lines)
     /\ \/ ~Lines[lines].torn /\ ReadRecord(Lines[lines])
        \/ /\ Lines[lines].torn \/ lines > Len(recording)
           /\ Reader!RejectedLine
        \/ MayExceed(Lines[lines]) /\ Reader!OversizedLine
  \/ lines = Len(Lines) + 1 /\ Reader!EndOfFile

Replay ==
  /\ pc = "exited" /\ published
  /\ ReadRecording
  /\ UNCHANGED << vars, recording, unended, sequence_num >>

RecordingNext == CaptureStep \/ Replay

recordingVars == << vars, recording, unended, sequence_num, readerVars >>

RecordingSpec ==
  /\ RecordingInit /\ [][RecordingNext]_recordingVars
  /\ WF_vars(Program)

-----------------------------------------------------------------------------
(* The connections with a frame in the recording, and whether the reader   *)
(* can follow them all.                                                    *)
Streams == {recording[k].connection : k \in 1 .. Len(recording)}
Within  == Cardinality(Streams) <= maximum_sequence_streams

(* What capture publishes replay can read, to the end, and with the        *)
(* verdict that fits it: no gap and no late number is ever reported where  *)
(* the connection changed, however often it did; each frame is handed over *)
(* but those whose line is spoiled by a failed write and those of the      *)
(* connections beyond the reader's limit, which are parse errors.  Only a  *)
(* line over the reader's limit can stop the replay: one that starts with  *)
(* the bytes of failed writes, or that of a message which outgrows the     *)
(* limit when escaped.                                                     *)
CaptureIsReplayed ==
  /\ sequence_gaps = 0 /\ out_of_order = 0
  /\ state = "thrown" => \E k \in 1 .. Len(Lines) : MayExceed(Lines[k])
  /\ state = "returned" =>
       /\ submitted + parse_errors = Len(Lines)
       /\ parse_errors = 0 => file.spoiled = 0 /\ Within
       /\ file.spoiled = 0 /\ ~file.torn /\ Within => parse_errors = 0
=============================================================================
