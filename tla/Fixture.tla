------------------------------ MODULE Fixture -------------------------------
(***************************************************************************)
(* generate_fixture, and read_capture on what it wrote.  The generator     *)
(* writes through a stream with a buffer: a failed write drops everything  *)
(* behind it and makes generate_fixture throw, but the last buffer is      *)
(* written by the stream's destructor, after the check, and nobody learns  *)
(* whether that worked.  Either way the file is a prefix of the fixture.   *)
(***************************************************************************)
EXTENDS CaptureReader

CONSTANTS
  One,        \* the connection_id of a fixture
  MaxEvents   \* bound: events of a fixture

(* event_count has 64 bits, as the numbers have; the stream limit is 4096. *)
ASSUME FixtureAssumption ==
  /\ One \in Connection
  /\ MaxEvents \in 1 .. Width - 1
  /\ maximum_sequence_streams > 0

VARIABLES
  generated,     \* the file comes from generate_fixture
  event_count,
  kept,          \* whole lines in the file, the last perhaps without its \n
  cut            \* a part of one more line is there

fixtureVars == << generated, event_count, kept, cut >>
allVars     == << vars, fixtureVars >>

(* Mutant of sequence_num: the first number comes twice.                   *)
sequence_num_again(index) == IF index = 0 THEN 1 ELSE index

sequence_num(index) == index + 1

(* One market_trades frame with one trade, which is valid: its price and   *)
(* its size are formatted by format_decimal, its id has no more than 20    *)
(* digits, and its product is as long as the reader allows.                *)
EventFrame == [channel |-> "market_trades", good |-> 1, rest |-> 0]

(* What generate_fixture can leave, with status 0 only if no more is       *)
(* missing than the last buffer held.                                      *)
generate_fixture ==
  /\ event_count \in 1 .. MaxEvents
  /\ kept \in 0 .. event_count + 1
  /\ cut \in BOOLEAN
  /\ cut => kept <= event_count

NoFixture == event_count = 0 /\ kept = 0 /\ cut = FALSE

FixtureInit ==
  /\ Init
  /\ generated \in BOOLEAN
  /\ IF generated THEN generate_fixture ELSE NoFixture

-----------------------------------------------------------------------------
(* read_capture on the fixture: the line after the first is event 0.       *)
ReadEvent ==
  LET sequence == sequence_num(lines - 1)
  IN \/ FirstOfStream(One, sequence, EventFrame)
     \/ NextOfStream(One, sequence, EventFrame)
     \/ LateInStream(One, sequence, EventFrame)
     \/ FrameOverStreamLimit(One, EventFrame)

ReadFixtureLine ==
  /\ lines < kept
  /\ IF lines = 0 THEN Metadata ELSE ReadEvent

ReadFixture ==
  \/ ReadFixtureLine
  \/ lines = kept /\ cut /\ RejectedLine
  \/ lines = kept + (IF cut THEN 1 ELSE 0) /\ EndOfFile
  \/ Ended

FixtureNext ==
  /\ IF generated THEN ReadFixture ELSE Next
  /\ UNCHANGED fixtureVars

FixtureSpec == FixtureInit /\ [][FixtureNext]_allVars

-----------------------------------------------------------------------------
(* Generator and reader agree about format and numbering: every event in   *)
(* the file is handed over, without a gap or a late number.  A fixture     *)
(* that was cut short loses its tail only, at the cost of at most one      *)
(* parse error; the gap counter does not notice, and a cut at the end of a *)
(* line leaves no trace but the number of frames.                          *)
FixtureIsRead ==
  generated =>
    /\ state = "thrown" => kept = 0
    /\ state = "returned" => submitted = kept - 1 /\ frames = kept - 1
    /\ parse_errors = (IF lines > kept THEN 1 ELSE 0)
    /\ sequence_gaps = 0 /\ out_of_order = 0
=============================================================================
