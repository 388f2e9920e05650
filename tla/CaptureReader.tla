--------------------------- MODULE CaptureReader ---------------------------
(***************************************************************************)
(* read_capture: one pass over the lines of a recording, which checks each *)
(* record, follows the sequence numbers of every connection and hands the  *)
(* trades to the pipeline.  A record is handled in one step; what is wrong *)
(* with it decides how far the handler gets before it throws, and what it  *)
(* has changed by then stays changed.                                      *)
(*                                                                         *)
(* JSON is not modelled character by character: a line is a record with    *)
(* the fields the code branches on, and a trade is valid or not.           *)
(***************************************************************************)
EXTENDS Integers, Sequences, FiniteSets

CONSTANTS
  Connection,                 \* connection_id values
  Width,                      \* 2^64: sequence numbers and counters
  maximum_sequence_streams,
  MaxLines                    \* bound: lines one recording has

ASSUME ReaderAssumption ==
  /\ Width \in Nat \ {0}
  /\ maximum_sequence_streams \in Nat
  /\ MaxLines \in Nat

VARIABLES
  state,             \* "reading", "returned" or "thrown"
  lines,             \* lines read
  metadata_seen,
  frames, parse_errors, sequence_gaps, out_of_order,   \* parse_metrics
  last_sequences,    \* the map; its domain is the set of tracked streams
  submitted,         \* trades handed to the consumer
  recorded,          \* history: trades in the market_trades frames read
  highs              \* history: the numbers that were a stream's highest

counters == << frames, parse_errors, sequence_gaps, out_of_order >>
history  == << submitted, recorded, highs >>
vars == << state, lines, metadata_seen, counters, last_sequences, history >>

Number == 0 .. Width - 1

Init ==
  /\ state = "reading"
  /\ lines = 0
  /\ metadata_seen = FALSE
  /\ frames = 0 /\ parse_errors = 0 /\ sequence_gaps = 0 /\ out_of_order = 0
  /\ last_sequences = << >>
  /\ submitted = 0 /\ recorded = 0
  /\ highs = [c \in Connection |-> {}]

Tracked == DOMAIN last_sequences

(* read_bounded_line returns one more line.                                *)
NextLine ==
  /\ state = "reading" /\ lines < MaxLines
  /\ lines' = lines + 1
  /\ UNCHANGED state

-----------------------------------------------------------------------------
(* Lines that are not frames.                                              *)

EmptyLine ==
  /\ NextLine
  /\ UNCHANGED << metadata_seen, counters, last_sequences, history >>

Metadata ==
  /\ NextLine
  /\ ~metadata_seen
  /\ metadata_seen' = TRUE
  /\ UNCHANGED << counters, last_sequences, history >>

(* Not JSON, no type, an unknown type, bad or repeated metadata.           *)
RejectedLine ==
  /\ NextLine
  /\ parse_errors' = parse_errors + 1
  /\ UNCHANGED << metadata_seen, frames, sequence_gaps, out_of_order,
                  last_sequences, history >>

-----------------------------------------------------------------------------
(* Frames.  good is how many trades a frame has before its first invalid   *)
(* one, rest how many there are from that one on.                          *)

MarketTrades == [channel : {"market_trades"}, good : 0 .. 1, rest : 0 .. 1]
Frames == MarketTrades \cup
          {[channel |-> "heartbeats", good |-> 0, rest |-> 0],
           [channel |-> "subscriptions", good |-> 0, rest |-> 0]}

Recorded(frame) == recorded' = recorded + frame.good + frame.rest

FrameBeforeMetadata(frame) ==
  /\ NextLine
  /\ ~metadata_seen
  /\ parse_errors' = parse_errors + 1
  /\ Recorded(frame)
  /\ UNCHANGED << metadata_seen, frames, sequence_gaps, out_of_order,
                  last_sequences, submitted, highs >>

FrameLine ==
  /\ NextLine
  /\ metadata_seen
  /\ frames' = frames + 1
  /\ UNCHANGED metadata_seen

(* received_ns, connection_id, payload, channel or sequence_num is missing *)
(* or of a wrong type.                                                     *)
MalformedFrame(frame) ==
  /\ FrameLine
  /\ parse_errors' = parse_errors + 1
  /\ Recorded(frame)
  /\ UNCHANGED << sequence_gaps, out_of_order, last_sequences, submitted,
                  highs >>

(* Mutant of FrameWithoutSequence: any channel may do without a number.    *)
FrameWithoutSequenceAllowed(frame) ==
  /\ FrameLine
  /\ Recorded(frame)
  /\ UNCHANGED << parse_errors, sequence_gaps, out_of_order, last_sequences,
                  submitted, highs >>

(* Only data channels must have a sequence number.                         *)
FrameWithoutSequence(frame) ==
  /\ FrameLine
  /\ parse_errors' = IF frame.channel \in {"market_trades", "heartbeats"}
                     THEN parse_errors + 1 ELSE parse_errors
  /\ Recorded(frame)
  /\ UNCHANGED << sequence_gaps, out_of_order, last_sequences, submitted,
                  highs >>

(* A new stream when the map is full: the frame is an error, and a later   *)
(* one of the same connection is again.                                    *)
FrameOverStreamLimit(connection, frame) ==
  /\ FrameLine
  /\ connection \notin Tracked
  /\ Cardinality(Tracked) = maximum_sequence_streams
  /\ parse_errors' = parse_errors + 1
  /\ Recorded(frame)
  /\ UNCHANGED << sequence_gaps, out_of_order, last_sequences, submitted,
                  highs >>

(* The trades of an admitted frame go to the consumer one by one up to the *)
(* first invalid one.                                                      *)
HandOver(frame) ==
  /\ submitted' = submitted + frame.good
  /\ parse_errors' = IF frame.rest > 0 THEN parse_errors + 1 ELSE parse_errors
  /\ Recorded(frame)

NewHigh(connection, sequence) ==
  /\ last_sequences' = [c \in Tracked \cup {connection} |->
                         IF c = connection THEN sequence
                                           ELSE last_sequences[c]]
  /\ highs' = [highs EXCEPT ![connection] = @ \cup {sequence}]

(* Mutant of FirstOfStream: the limit is not checked.                      *)
FirstOfStreamUnlimited(connection, sequence, frame) ==
  /\ FrameLine
  /\ connection \notin Tracked
  /\ NewHigh(connection, sequence)
  /\ HandOver(frame)
  /\ UNCHANGED << sequence_gaps, out_of_order >>

FirstOfStream(connection, sequence, frame) ==
  /\ FrameLine
  /\ connection \notin Tracked
  /\ Cardinality(Tracked) # maximum_sequence_streams
  /\ NewHigh(connection, sequence)
  /\ HandOver(frame)
  /\ UNCHANGED << sequence_gaps, out_of_order >>

(* Mutant of NextOfStream: the gap counts the number that arrived.         *)
NextOfStreamOffByOne(connection, sequence, frame) ==
  /\ FrameLine
  /\ connection \in Tracked
  /\ sequence > last_sequences[connection]
  /\ LET step == sequence - last_sequences[connection] IN
     sequence_gaps' = IF step > 1 THEN (sequence_gaps + step) % Width
                                  ELSE sequence_gaps
  /\ NewHigh(connection, sequence)
  /\ HandOver(frame)
  /\ UNCHANGED out_of_order

NextOfStream(connection, sequence, frame) ==
  /\ FrameLine
  /\ connection \in Tracked
  /\ sequence > last_sequences[connection]
  /\ sequence_gaps' =
       (sequence_gaps + sequence - last_sequences[connection] - 1) % Width
  /\ NewHigh(connection, sequence)
  /\ HandOver(frame)
  /\ UNCHANGED out_of_order

(* A late or repeated number leaves last_sequences alone; its trades are   *)
(* handed over all the same.                                               *)
LateInStream(connection, sequence, frame) ==
  /\ FrameLine
  /\ connection \in Tracked
  /\ sequence <= last_sequences[connection]
  /\ out_of_order' = out_of_order + 1
  /\ HandOver(frame)
  /\ UNCHANGED << sequence_gaps, last_sequences, highs >>

-----------------------------------------------------------------------------
EndOfFile ==
  /\ state = "reading"
  /\ state' = IF metadata_seen THEN "returned" ELSE "thrown"
  /\ UNCHANGED << lines, metadata_seen, counters, last_sequences, history >>

(* A line over maximum_record_size is not a parse error: it ends the       *)
(* replay.                                                                 *)
OversizedLine ==
  /\ state = "reading" /\ lines < MaxLines
  /\ state' = "thrown"
  /\ UNCHANGED << lines, metadata_seen, counters, last_sequences, history >>

Ended == state # "reading" /\ UNCHANGED vars

ReadFrame(frame) ==
  \/ FrameBeforeMetadata(frame) \/ MalformedFrame(frame)
  \/ FrameWithoutSequence(frame)
  \/ \E connection \in Connection :
       \/ FrameOverStreamLimit(connection, frame)
       \/ \E sequence \in Number :
            \/ FirstOfStream(connection, sequence, frame)
            \/ NextOfStream(connection, sequence, frame)
            \/ LateInStream(connection, sequence, frame)

Next ==
  \/ EmptyLine \/ Metadata \/ RejectedLine
  \/ \E frame \in Frames : ReadFrame(frame)
  \/ EndOfFile \/ OversizedLine \/ Ended

Spec == Init /\ [][Next]_vars

-----------------------------------------------------------------------------
(* Every variable keeps to its domain; the map never tracks more than      *)
(* maximum_sequence_streams connections.                                   *)
TypeOK ==
  /\ state \in {"reading", "returned", "thrown"}
  /\ lines \in 0 .. MaxLines
  /\ metadata_seen \in BOOLEAN
  /\ frames \in 0 .. lines /\ parse_errors \in 0 .. lines
  /\ sequence_gaps \in Number /\ out_of_order \in 0 .. frames
  /\ Tracked \subseteq Connection
  /\ Cardinality(Tracked) <= maximum_sequence_streams
  /\ \A c \in Tracked : last_sequences[c] \in Number
  /\ recorded \in Nat /\ submitted \in 0 .. recorded
  /\ highs \in [Connection -> SUBSET Number]

(* The numbers a stream skipped on its way up, whether they came late or   *)
(* never.                                                                  *)
Skipped(c) ==
  {n \in Number \ highs[c] : \E low, high \in highs[c] : low < n /\ n < high}

AllSkipped == {skip \in Connection \X Number : skip[2] \in Skipped(skip[1])}

(* The counter says exactly how many numbers all streams skipped (modulo   *)
(* its width), and each stream's entry in the map is its highest number:   *)
(* late, repeated and rejected frames of any connection change neither.    *)
GapsCountTheSkipped ==
  /\ \A c \in Connection : highs[c] # {} <=> c \in Tracked
  /\ \A c \in Tracked : /\ last_sequences[c] \in highs[c]
                         /\ \A n \in highs[c] : n <= last_sequences[c]
  /\ sequence_gaps = Cardinality(AllSkipped) % Width

(* A recording without parse errors was read completely: every trade it    *)
(* holds was handed to the pipeline, on whatever channel mix and order.    *)
CleanMeansComplete == parse_errors = 0 => submitted = recorded
=============================================================================
