------------------------- MODULE CaptureReaderProofs -------------------------
(***************************************************************************)
(* Proofs about CaptureReader for every set of connections, counter width, *)
(* stream limit and length of recording, and about Fixture for every size  *)
(* of a fixture, wherever it was cut.                                      *)
(***************************************************************************)
EXTENDS Fixture, FiniteSetTheorems, TLAPS

(* TypeOK and CleanMeansComplete, with what the first of the two needs.    *)
Inv == TypeOK /\ IsFiniteSet(Tracked) /\ CleanMeansComplete

-----------------------------------------------------------------------------
(* Nothing is read yet.                                                    *)
LEMMA InvInit == Init => Inv
<1> SUFFICES ASSUME Init PROVE Inv
  OBVIOUS
<1>1. Tracked = {}
  BY DEF Init, Tracked
<1>2. IsFiniteSet(Tracked) /\ Cardinality(Tracked) = 0
  BY <1>1, FS_EmptySet
<1>3. highs \in [Connection -> SUBSET Number]
  BY DEF Init
<1>4. /\ lines \in 0 .. MaxLines /\ sequence_gaps \in Number
      /\ Cardinality(Tracked) <= maximum_sequence_streams
  BY <1>2, ReaderAssumption DEF Init, Number
<1>5. /\ frames \in 0 .. lines /\ parse_errors \in 0 .. lines
      /\ out_of_order \in 0 .. frames
      /\ recorded \in Nat /\ submitted \in 0 .. recorded
      /\ CleanMeansComplete
  BY DEF Init, CleanMeansComplete
<1> QED
  BY <1>1, <1>2, <1>3, <1>4, <1>5 DEF Init, Inv, TypeOK

(* A new highest number tracks one connection more at most.                *)
LEMMA NewHighStep ==
  ASSUME Inv, NEW connection \in Connection, NEW sequence \in Number,
         NewHigh(connection, sequence)
  PROVE  /\ Tracked' = Tracked \cup {connection}
         /\ Tracked' \subseteq Connection
         /\ \A c \in Tracked' : last_sequences'[c] \in Number
         /\ highs' \in [Connection -> SUBSET Number]
         /\ IsFiniteSet(Tracked')
         /\ connection \in Tracked =>
              Cardinality(Tracked') = Cardinality(Tracked)
         /\ connection \notin Tracked =>
              Cardinality(Tracked') = Cardinality(Tracked) + 1
<1> USE DEF Inv, TypeOK, NewHigh
<1>1. Tracked' = Tracked \cup {connection}
  BY DEF Tracked
<1>2. \A c \in Tracked' : last_sequences'[c] \in Number
  BY <1>1
<1>3. highs' \in [Connection -> SUBSET Number]
  OBVIOUS
<1> QED
  BY <1>1, <1>2, <1>3, FS_AddElement

(* The counters of one handled line.                                       *)
LEMMA HandOverStep ==
  ASSUME Inv, NEW frame \in Frames, FrameLine, HandOver(frame)
  PROVE  /\ parse_errors' \in 0 .. lines'
         /\ recorded' \in Nat /\ submitted' \in 0 .. recorded'
         /\ CleanMeansComplete'
<1>1. /\ frame.good \in Nat /\ frame.rest \in Nat
      /\ lines' = lines + 1 /\ lines \in Nat
  BY DEF Frames, MarketTrades, FrameLine, NextLine, Inv, TypeOK
<1>2. parse_errors' = 0 => parse_errors = 0 /\ frame.rest = 0
  BY <1>1 DEF Inv, TypeOK, HandOver
<1> QED
  BY <1>1, <1>2 DEF Inv, TypeOK, HandOver, Recorded, CleanMeansComplete

(* Every record keeps the invariant.                                       *)
LEMMA InvStep == Inv /\ [Next]_vars => Inv'
<1> SUFFICES ASSUME Inv, [Next]_vars PROVE Inv'
  OBVIOUS
<1> USE DEF Inv, TypeOK, CleanMeansComplete, counters, history
<1>n. ASSUME NextLine
      PROVE  /\ state' = state /\ lines' = lines + 1
             /\ lines' \in 0 .. MaxLines /\ lines \in Nat
  BY <1>n, ReaderAssumption DEF NextLine
<1>u. UNCHANGED last_sequences => Tracked' = Tracked
  BY DEF Tracked
<1>1. CASE EmptyLine \/ Metadata \/ RejectedLine
  <2>1. NextLine /\ UNCHANGED << frames, sequence_gaps, out_of_order,
                                 last_sequences, history >>
    BY <1>1 DEF EmptyLine, Metadata, RejectedLine
  <2>2. metadata_seen' \in BOOLEAN /\ parse_errors' \in {parse_errors,
                                                        parse_errors + 1}
    BY <1>1 DEF EmptyLine, Metadata, RejectedLine
  <2> QED
    BY <2>1, <2>2, <1>n, <1>u
<1>2. ASSUME NEW frame \in Frames,
             \/ FrameBeforeMetadata(frame) \/ MalformedFrame(frame)
             \/ FrameWithoutSequence(frame)
             \/ \E connection \in Connection :
                  FrameOverStreamLimit(connection, frame)
      PROVE Inv'
  <2>1. frame.good \in Nat /\ frame.rest \in Nat
    BY DEF Frames, MarketTrades
  <2>2. frame.channel \notin {"market_trades", "heartbeats"} =>
          frame.good = 0 /\ frame.rest = 0
    BY DEF Frames, MarketTrades
  <2>3. NextLine
    BY <1>2 DEF FrameBeforeMetadata, MalformedFrame, FrameWithoutSequence,
                FrameOverStreamLimit, FrameLine
  <2>4. /\ recorded' = recorded + frame.good + frame.rest
        /\ submitted' = submitted /\ UNCHANGED << last_sequences, highs >>
        /\ UNCHANGED << sequence_gaps, out_of_order, metadata_seen >>
        /\ frames' \in {frames, frames + 1}
    BY <1>2 DEF FrameBeforeMetadata, MalformedFrame, FrameWithoutSequence,
                FrameOverStreamLimit, FrameLine, Recorded
  <2>5. \/ parse_errors' = parse_errors + 1
        \/ parse_errors' = parse_errors /\ frame.good = 0 /\ frame.rest = 0
    BY <1>2, <2>2 DEF FrameBeforeMetadata, MalformedFrame,
                      FrameWithoutSequence, FrameOverStreamLimit
  <2> QED
    BY <2>1, <2>3, <2>4, <2>5, <1>n, <1>u
<1>3. ASSUME NEW frame \in Frames, NEW connection \in Connection,
             NEW sequence \in Number,
             \/ FirstOfStream(connection, sequence, frame)
             \/ NextOfStream(connection, sequence, frame)
      PROVE Inv'
  <2>1. FrameLine /\ HandOver(frame) /\ NewHigh(connection, sequence)
        /\ UNCHANGED out_of_order
    BY <1>3 DEF FirstOfStream, NextOfStream
  <2>2. NextLine /\ frames' = frames + 1 /\ UNCHANGED metadata_seen
    BY <2>1 DEF FrameLine
  <2>3. sequence_gaps' \in Number
    BY <1>3, ReaderAssumption DEF FirstOfStream, NextOfStream, Number
  <2>4. Cardinality(Tracked') <= maximum_sequence_streams
    <3>1. Cardinality(Tracked) \in Nat
      BY FS_CardinalityType
    <3> QED
      BY <1>3, <2>1, <3>1, NewHighStep, ReaderAssumption
         DEF FirstOfStream, NextOfStream
  <2> QED
    BY <2>1, <2>2, <2>3, <2>4, <1>n, NewHighStep, HandOverStep
<1>4. ASSUME NEW frame \in Frames, NEW connection \in Connection,
             NEW sequence \in Number, LateInStream(connection, sequence, frame)
      PROVE Inv'
  <2>1. FrameLine /\ HandOver(frame) /\ out_of_order' = out_of_order + 1
        /\ UNCHANGED << sequence_gaps, last_sequences, highs >>
    BY <1>4 DEF LateInStream
  <2>2. NextLine /\ frames' = frames + 1 /\ UNCHANGED metadata_seen
    BY <2>1 DEF FrameLine
  <2> QED
    BY <2>1, <2>2, <1>n, <1>u, HandOverStep
<1>5. CASE EndOfFile \/ OversizedLine
  BY <1>5, <1>u DEF EndOfFile, OversizedLine
<1>6. CASE UNCHANGED vars
  BY <1>6, <1>u DEF vars
<1> QED
  BY <1>1, <1>2, <1>3, <1>4, <1>5, <1>6 DEF Next, ReadFrame, Ended

(* The invariant holds of every behaviour.                                 *)
LEMMA InvAlways == Spec => []Inv
<1> QED
  BY InvInit, InvStep, PTL DEF Spec

(* The reader's domains, with the map never above its limit.               *)
THEOREM TypeCorrect == Spec => []TypeOK
<1>1. Inv => TypeOK
  BY DEF Inv
<1> QED
  BY <1>1, InvAlways, PTL

(* read_capture hands over all that a recording it finds no fault with     *)
(* holds.                                                                  *)
THEOREM CleanCorrect == Spec => []CleanMeansComplete
<1>1. Inv => CleanMeansComplete
  BY DEF Inv
<1> QED
  BY <1>1, InvAlways, PTL

-----------------------------------------------------------------------------
(* The gap counter.                                                        *)

(* A remainder is the only number below the divisor that differs from the  *)
(* dividend by a multiple of it.                                           *)
LEMMA RemainderUnique ==
  ASSUME NEW d \in Nat \ {0}, NEW p \in Int, NEW q \in Int,
         NEW r \in 0 .. d - 1, NEW s \in 0 .. d - 1,
         d * p + r = d * q + s
  PROVE  r = s
<1>1. CASE p = q
  BY <1>1
<1>2. CASE p >= q + 1
  <2>1. d * p >= d * (q + 1)
    BY <1>2
  <2>2. d * (q + 1) = d * q + d
    OBVIOUS
  <2> QED
    BY <2>1, <2>2
<1>3. CASE q >= p + 1
  <2>1. d * q >= d * (p + 1)
    BY <1>3
  <2>2. d * (p + 1) = d * p + d
    OBVIOUS
  <2> QED
    BY <2>1, <2>2
<1> QED
  BY <1>1, <1>2, <1>3

(* Quotient and remainder, for arithmetic with the quotient left alone.    *)
LEMMA Division ==
  ASSUME NEW n \in Nat
  PROVE  \E q \in Int : n = Width * q + (n % Width)
<1>1. n \div Width \in Int
  BY ReaderAssumption
<1>2. n = Width * (n \div Width) + (n % Width)
  BY ReaderAssumption
<1> QED
  BY <1>1, <1>2

(* A remainder is one of the counter's values.                             *)
LEMMA RemainderType ==
  ASSUME NEW n \in Nat
  PROVE  n % Width \in 0 .. Width - 1
<1> QED
  BY ReaderAssumption

(* Counting on from a remainder gives the same remainder.                  *)
LEMMA CountingOn ==
  ASSUME NEW count \in Nat, NEW more \in Nat
  PROVE  ((count % Width) + more) % Width = (count + more) % Width
<1>w. Width \in Nat \ {0}
  BY ReaderAssumption
<1> DEFINE r == count % Width
           sum == r + more
           all == count + more
           s == sum % Width
           t == all % Width
<1>1. r \in 0 .. Width - 1
  BY RemainderType
<1>2. PICK o \in Int : count = Width * o + r
  BY Division
<1>3. sum \in Nat /\ all \in Nat
  <2> HIDE DEF r
  <2> QED
    BY <1>1, <1>w
<1>4. s \in 0 .. Width - 1 /\ t \in 0 .. Width - 1
  <2> HIDE DEF sum, all
  <2> QED
    BY <1>3, RemainderType
<1>5. PICK p \in Int : sum = Width * p + s
  <2> HIDE DEF sum
  <2> QED
    BY <1>3, Division
<1>6. PICK q \in Int : all = Width * q + t
  <2> HIDE DEF all
  <2> QED
    BY <1>3, Division
<1>7. all = Width * o + sum
  <2> HIDE DEF r
  <2> QED
    BY <1>1, <1>2, <1>w
<1>8. Width * q + t = Width * (o + p) + s
  <2>1. Width * (o + p) = Width * o + Width * p
    BY <1>w
  <2> HIDE DEF s, t, sum, all
  <2> QED
    BY <2>1, <1>3, <1>4, <1>5, <1>6, <1>7, <1>w
<1>9. t = s
  <2> HIDE DEF s, t
  <2> QED
    BY <1>4, <1>8, <1>w, RemainderUnique
<1> QED
  BY <1>9

(* Only tracked streams have skipped anything, and finitely many numbers.  *)
LEMMA SkippedFinite ==
  ASSUME Inv, GapsCountTheSkipped
  PROVE  IsFiniteSet(AllSkipped) /\ Cardinality(AllSkipped) \in Nat
<1>1. IsFiniteSet(Number)
  BY ReaderAssumption, FS_Interval DEF Number
<1>2. IsFiniteSet(Tracked \X Number)
  BY <1>1, FS_Product DEF Inv
<1>3. ASSUME NEW skip \in AllSkipped
      PROVE  skip \in Tracked \X Number
  <2>1. /\ skip \in Connection \X Number
        /\ skip[2] \in Skipped(skip[1])
    BY DEF AllSkipped
  <2>2. highs[skip[1]] # {}
    BY <2>1 DEF Skipped
  <2> QED
    BY <2>1, <2>2 DEF GapsCountTheSkipped
<1>4. AllSkipped \in SUBSET (Tracked \X Number)
  BY <1>3
<1> QED
  BY <1>2, <1>4, FS_Subset, FS_CardinalityType

(* The numbers between a stream's highest and the next that arrives.       *)
Jumped(connection, sequence) ==
  {connection} \X (last_sequences[connection] + 1 .. sequence - 1)

(* A jump skips the numbers between the last and the new one.              *)
LEMMA JumpedCount ==
  ASSUME Inv, NEW connection \in Tracked, NEW sequence \in Number,
         sequence > last_sequences[connection]
  PROVE  /\ IsFiniteSet(Jumped(connection, sequence))
         /\ Cardinality(Jumped(connection, sequence))
              = sequence - last_sequences[connection] - 1
<1> DEFINE last == last_sequences[connection]
           between == last + 1 .. sequence - 1
<1>1. last \in Nat /\ sequence \in Nat /\ sequence > last
  BY ReaderAssumption DEF Inv, TypeOK, Number
<1>2. /\ IsFiniteSet(between)
      /\ Cardinality(between) = sequence - last - 1
  <2> HIDE DEF last
  <2>1. last + 1 \in Int /\ sequence - 1 \in Int
    BY <1>1
  <2>2. /\ IsFiniteSet(between)
        /\ Cardinality(between) = IF last + 1 > sequence - 1 THEN 0
                                  ELSE (sequence - 1) - (last + 1) + 1
    BY <2>1, FS_Interval
  <2> QED
    BY <1>1, <2>2
<1>3. IsFiniteSet({connection}) /\ Cardinality({connection}) = 1
  BY FS_Singleton
<1>4. /\ IsFiniteSet({connection} \X between)
      /\ Cardinality({connection} \X between) = 1 * Cardinality(between)
  BY <1>2, <1>3, FS_Product
<1>5. Cardinality({connection} \X between) = sequence - last - 1
  <2> HIDE DEF between
  <2>1. Cardinality({connection} \X between) = Cardinality(between)
    BY <1>1, <1>2, <1>4
  <2> QED
    BY <1>2, <2>1
<1> QED
  BY <1>4, <1>5 DEF Jumped

(* Skipped numbers of one set of numbers, and of the set with a new        *)
(* maximum.                                                                *)
Between(n, numbers) ==
  /\ n \notin numbers
  /\ \E low, high \in numbers : low < n /\ n < high

(* What a new greatest number adds to the skipped ones.                    *)
LEMMA NewMaximum ==
  ASSUME NEW numbers \in SUBSET Nat, NEW last \in numbers,
         \A n \in numbers : n <= last,
         NEW sequence \in Nat, sequence > last, NEW n \in Nat
  PROVE  /\ Between(n, numbers \cup {sequence}) <=>
              Between(n, numbers) \/ (n > last /\ n < sequence)
         /\ Between(n, numbers) => n < last
<1>1. Between(n, numbers) => n < last
  <2> SUFFICES ASSUME NEW low \in numbers, NEW high \in numbers,
                      low < n, n < high
               PROVE  n < last
    BY DEF Between
  <2>1. high <= last /\ high \in Nat /\ last \in Nat
    OBVIOUS
  <2> QED
    BY <2>1
<1>2. ASSUME Between(n, numbers \cup {sequence}), ~(n > last)
      PROVE  Between(n, numbers)
  <2>1. PICK low, high \in numbers \cup {sequence} : low < n /\ n < high
    BY <1>2 DEF Between
  <2>2. n \notin numbers /\ n # last
    BY <1>2 DEF Between
  <2>3. n < last
    BY <1>2, <2>2
  <2>4. low \in numbers
    BY <2>1, <2>3
  <2> QED
    BY <2>2, <2>3, <2>1, <2>4 DEF Between
<1>3. ASSUME Between(n, numbers \cup {sequence})
      PROVE  n < sequence
  <2>1. PICK high \in numbers \cup {sequence} : n < high
    BY <1>3 DEF Between
  <2>2. high <= sequence /\ high \in Nat
    BY <2>1
  <2> QED
    BY <2>1, <2>2
<1>4. ASSUME Between(n, numbers)
      PROVE  Between(n, numbers \cup {sequence})
  <2>1. n # sequence
    BY <1>1, <1>4
  <2> QED
    BY <1>4, <2>1 DEF Between
<1>5. ASSUME n > last, n < sequence
      PROVE  Between(n, numbers \cup {sequence})
  <2>1. n \notin numbers
    <3>1. \A m \in numbers : m <= last /\ m \in Nat
      OBVIOUS
    <3> QED
      BY <3>1, <1>5
  <2> QED
    BY <1>5, <2>1 DEF Between
<1> QED
  BY <1>1, <1>2, <1>3, <1>4, <1>5

(* A higher number of a stream adds what it jumped, no number twice.       *)
LEMMA JumpAddsSkips ==
  ASSUME Inv, GapsCountTheSkipped,
         NEW connection \in Tracked, NEW sequence \in Number,
         sequence > last_sequences[connection],
         NewHigh(connection, sequence)
  PROVE  /\ AllSkipped' = AllSkipped \cup Jumped(connection, sequence)
         /\ AllSkipped \cap Jumped(connection, sequence) = {}
<1> DEFINE last == last_sequences[connection]
<1>1. /\ connection \in Connection
      /\ last \in highs[connection] /\ highs[connection] \subseteq Number
      /\ \A n \in highs[connection] : n <= last
  BY DEF Inv, TypeOK, GapsCountTheSkipped
<1>2. highs' = [highs EXCEPT ![connection] = @ \cup {sequence}]
  BY DEF NewHigh
<1>3. highs'[connection] = highs[connection] \cup {sequence}
  BY <1>1, <1>2 DEF Inv, TypeOK
<1>n. Number \subseteq Nat /\ \A n \in Nat : n <= sequence => n \in Number
  BY ReaderAssumption DEF Number
<1>t. last \in Nat /\ sequence \in Nat /\ sequence > last
  BY <1>1, <1>n
<1>s. \A c : \A n \in Number :
        /\ n \in Skipped(c) <=> Between(n, highs[c])
        /\ n \in Skipped(c)' <=> Between(n, highs'[c])
  BY DEF Skipped, Between, Number
<1>4. ASSUME NEW n \in Number
      PROVE  /\ n \in Skipped(connection)' <=>
                  \/ n \in Skipped(connection)
                  \/ n > last /\ n < sequence
             /\ n \in Skipped(connection) => n < last
  <2>1. highs[connection] \in SUBSET Nat /\ n \in Nat
    BY <1>1, <1>n
  <2> HIDE DEF last
  <2>2. /\ Between(n, highs[connection] \cup {sequence}) <=>
             Between(n, highs[connection]) \/ (n > last /\ n < sequence)
        /\ Between(n, highs[connection]) => n < last
    BY <2>1, <1>1, <1>t, NewMaximum
  <2> QED
    BY <2>2, <1>3, <1>s
<1>5. ASSUME NEW c \in Connection, c # connection
      PROVE  Skipped(c)' = Skipped(c)
  <2>1. highs'[c] = highs[c]
    BY <1>2, <1>5 DEF Inv, TypeOK
  <2> QED
    BY <2>1 DEF Skipped, Number
<1>6. ASSUME NEW skip
      PROVE  skip \in Jumped(connection, sequence) <=>
               /\ skip \in Connection \X Number
               /\ skip[1] = connection
               /\ skip[2] > last /\ skip[2] < sequence
  <2>1. \A n : n \in last + 1 .. sequence - 1 <=>
                 n \in Number /\ n > last /\ n < sequence
    <3> HIDE DEF last
    <3>1. \A n \in last + 1 .. sequence - 1 :
            n \in Nat /\ n <= sequence /\ n > last /\ n < sequence
      BY <1>t
    <3>2. \A n \in Nat : n > last /\ n < sequence =>
                           n \in last + 1 .. sequence - 1
      BY <1>t
    <3> QED
      BY <1>n, <3>1, <3>2
  <2> QED
    BY <2>1, <1>1 DEF Jumped
<1>7. ASSUME NEW skip
      PROVE  skip \in AllSkipped' <=>
               skip \in AllSkipped \/ skip \in Jumped(connection, sequence)
  <2>1. skip \in AllSkipped' <=>
          skip \in Connection \X Number /\ skip[2] \in Skipped(skip[1])'
    BY DEF AllSkipped, Number
  <2>2. skip \in AllSkipped <=>
          skip \in Connection \X Number /\ skip[2] \in Skipped(skip[1])
    BY DEF AllSkipped
  <2>3. CASE skip \notin Connection \X Number
    BY <2>1, <2>2, <2>3, <1>6
  <2>4. CASE skip \in Connection \X Number /\ skip[1] # connection
    <3>1. Skipped(skip[1])' = Skipped(skip[1])
      BY <2>4, <1>5
    <3> QED
      BY <2>1, <2>2, <2>4, <3>1, <1>6
  <2>5. CASE skip \in Connection \X Number /\ skip[1] = connection
    BY <2>1, <2>2, <2>5, <1>4, <1>6
  <2> QED
    BY <2>3, <2>4, <2>5
<1>8. ASSUME NEW skip \in AllSkipped, skip \in Jumped(connection, sequence)
      PROVE  FALSE
  <2>1. skip[2] \in Number /\ skip[2] \in Skipped(connection)
    BY <1>6, <1>8 DEF AllSkipped
  <2>2. skip[2] < last /\ skip[2] > last
    BY <1>4, <1>6, <1>8, <2>1
  <2>3. skip[2] \in Nat
    BY <2>1, <1>n
  <2> HIDE DEF last
  <2> QED
    BY <2>2, <2>3, <1>t
<1> QED
  BY <1>7, <1>8

-----------------------------------------------------------------------------
(* No gap yet.                                                             *)
LEMMA GapsInit == Init => GapsCountTheSkipped
<1> SUFFICES ASSUME Init PROVE GapsCountTheSkipped
  OBVIOUS
<1>1. Tracked = {}
  BY DEF Init, Tracked
<1>2. AllSkipped = {}
  BY DEF Init, AllSkipped, Skipped
<1>3. Cardinality(AllSkipped) = 0
  BY <1>2, FS_EmptySet
<1>4. 0 % Width = 0
  BY ReaderAssumption
<1> QED
  BY <1>1, <1>3, <1>4 DEF Init, GapsCountTheSkipped

(* Numbers of a stream's first frame, of its next and of a late one.       *)
LEMMA GapsStep ==
  ASSUME Inv, GapsCountTheSkipped, [Next]_vars
  PROVE  GapsCountTheSkipped'
<1>1. CASE UNCHANGED << last_sequences, highs, sequence_gaps >>
  <2>1. Tracked' = Tracked /\ AllSkipped' = AllSkipped
    BY <1>1 DEF Tracked, AllSkipped, Skipped, Number
  <2> QED
    BY <1>1, <2>1 DEF GapsCountTheSkipped
<1>2. ASSUME NEW connection \in Connection, NEW sequence \in Number,
             NewHigh(connection, sequence),
             connection \in Tracked => sequence > last_sequences[connection]
      PROVE  /\ \A c \in Connection : highs'[c] # {} <=> c \in Tracked'
             /\ \A c \in Tracked' : /\ last_sequences'[c] \in highs'[c]
                                    /\ \A n \in highs'[c] :
                                         n <= last_sequences'[c]
  <2>1. /\ Tracked' = Tracked \cup {connection}
        /\ Tracked' \subseteq Connection
    BY <1>2, NewHighStep
  <2>2. /\ \A c \in Connection : c # connection => highs'[c] = highs[c]
        /\ highs'[connection] = highs[connection] \cup {sequence}
        /\ \A c \in Tracked : c # connection =>
             last_sequences'[c] = last_sequences[c]
        /\ last_sequences'[connection] = sequence
    BY <1>2 DEF NewHigh, Inv, TypeOK
  <2>3. \A n \in highs'[connection] : n <= last_sequences'[connection]
    <3>1. CASE connection \notin Tracked
      <4>1. highs'[connection] = {sequence}
        BY <2>2, <3>1 DEF GapsCountTheSkipped
      <4>2. sequence <= sequence
        BY ReaderAssumption DEF Number
      <4> QED
        BY <2>2, <4>1, <4>2
    <3>2. CASE connection \in Tracked
      <4> DEFINE last == last_sequences[connection]
      <4>1. /\ highs[connection] \subseteq Nat
            /\ last \in Nat /\ sequence \in Nat /\ last < sequence
            /\ \A n \in highs[connection] : n <= last
        BY <1>2, <3>2, ReaderAssumption
           DEF Inv, TypeOK, GapsCountTheSkipped, Number
      <4> HIDE DEF last
      <4>2. \A n \in highs[connection] \cup {sequence} : n <= sequence
        BY <4>1
      <4> QED
        BY <2>2, <4>2
    <3> QED
      BY <3>1, <3>2
  <2> QED
    BY <2>1, <2>2, <2>3 DEF GapsCountTheSkipped
<1>3. ASSUME NEW frame \in Frames, NEW connection \in Connection,
             NEW sequence \in Number,
             FirstOfStream(connection, sequence, frame)
      PROVE  GapsCountTheSkipped'
  <2>1. /\ NewHigh(connection, sequence) /\ connection \notin Tracked
        /\ sequence_gaps' = sequence_gaps
    BY <1>3 DEF FirstOfStream
  <2>2. highs'[connection] = {sequence} /\ highs[connection] = {}
    BY <2>1 DEF NewHigh, GapsCountTheSkipped, Inv, TypeOK
  <2>3. ASSUME NEW c \in Connection
        PROVE  Skipped(c)' = Skipped(c)
    <3>1. CASE c = connection
      <4>1. Skipped(c) = {}
        BY <2>2, <3>1 DEF Skipped
      <4>2. Skipped(c)' = {}
        <5>1. \A n \in Number : ~(sequence < n /\ n < sequence)
          BY ReaderAssumption DEF Number
        <5> QED
          BY <2>2, <3>1, <5>1 DEF Skipped, Number
      <4> QED
        BY <4>1, <4>2
    <3>2. CASE c # connection
      <4>1. highs'[c] = highs[c]
        BY <2>1, <3>2 DEF NewHigh, Inv, TypeOK
      <4> QED
        BY <4>1 DEF Skipped, Number
    <3> QED
      BY <3>1, <3>2
  <2>4. AllSkipped' = AllSkipped
    BY <2>3 DEF AllSkipped, Number
  <2> QED
    BY <2>1, <2>4, <1>2 DEF GapsCountTheSkipped
<1>4. ASSUME NEW frame \in Frames, NEW connection \in Connection,
             NEW sequence \in Number,
             NextOfStream(connection, sequence, frame)
      PROVE  GapsCountTheSkipped'
  <2> DEFINE last == last_sequences[connection]
             count == Cardinality(AllSkipped)
             more == sequence - last - 1
  <2>1. /\ NewHigh(connection, sequence) /\ connection \in Tracked
        /\ sequence > last
        /\ sequence_gaps' = (sequence_gaps + sequence - last - 1) % Width
    BY <1>4 DEF NextOfStream
  <2>2. last \in Nat /\ sequence \in Nat /\ more \in Nat
    <3>1. last \in Nat /\ sequence \in Nat
      BY <2>1, ReaderAssumption DEF Inv, TypeOK, Number
    <3> QED
      BY <2>1, <3>1
  <2>3. /\ AllSkipped' = AllSkipped \cup Jumped(connection, sequence)
        /\ AllSkipped \cap Jumped(connection, sequence) = {}
    BY <2>1, JumpAddsSkips
  <2>4. /\ IsFiniteSet(Jumped(connection, sequence))
        /\ Cardinality(Jumped(connection, sequence)) = more
    BY <2>1, JumpedCount
  <2>5. Cardinality(AllSkipped') = count + more
    <3>1. Cardinality(AllSkipped \cap Jumped(connection, sequence)) = 0
      BY <2>3, FS_EmptySet
    <3>2. Cardinality(AllSkipped \cup Jumped(connection, sequence))
            = count + more - 0
      BY <2>4, <3>1, SkippedFinite, FS_Union
    <3>3. count \in Nat
      BY SkippedFinite
    <3> HIDE DEF count, more
    <3> QED
      BY <2>2, <2>3, <3>2, <3>3
  <2>6. sequence_gaps' = ((count % Width) + more) % Width
    <3>1. sequence_gaps = count % Width /\ sequence_gaps \in Nat
      BY ReaderAssumption DEF GapsCountTheSkipped, Inv, TypeOK, Number
    <3>2. sequence_gaps + sequence - last - 1 = sequence_gaps + more
      <4> HIDE DEF last
      <4> QED
        BY <2>2, <3>1
    <3> HIDE DEF count, more
    <3> QED
      BY <2>1, <3>1, <3>2
  <2>7. sequence_gaps' = Cardinality(AllSkipped') % Width
    <3>1. count \in Nat
      BY SkippedFinite
    <3> HIDE DEF count, more
    <3> QED
      BY <2>2, <2>5, <2>6, <3>1, CountingOn
  <2> QED
    BY <2>1, <2>7, <1>2 DEF GapsCountTheSkipped
<1> QED
  BY <1>1, <1>3, <1>4
     DEF Next, ReadFrame, Ended, vars, counters, history, EmptyLine,
         Metadata, RejectedLine, FrameBeforeMetadata, MalformedFrame,
         FrameWithoutSequence, FrameOverStreamLimit, LateInStream,
         EndOfFile, OversizedLine

(* sequence_gaps is the number of all numbers skipped by all streams,      *)
(* modulo 2^64, whatever mix of first, next, late, repeated and rejected   *)
(* frames a recording has, and last_sequences holds the highest numbers.   *)
THEOREM GapsCorrect == Spec => []GapsCountTheSkipped
<1>1. Init => Inv /\ GapsCountTheSkipped
  BY InvInit, GapsInit
<1>2. Inv /\ GapsCountTheSkipped /\ [Next]_vars
        => (Inv /\ GapsCountTheSkipped)'
  BY InvStep, GapsStep
<1> QED
  BY <1>1, <1>2, PTL DEF Spec

-----------------------------------------------------------------------------
(* The reader on a generated fixture.                                      *)

(* Events of the fixture that have been read: the first line is metadata,  *)
(* a cut one is not an event.                                              *)
EventsRead ==
  IF lines = 0 \/ kept = 0 THEN 0
  ELSE IF lines <= kept THEN lines - 1 ELSE kept - 1

(* Reader and file in step: what is tracked and counted follows from the   *)
(* number of lines read.                                                   *)
InStep ==
  /\ kept \in 0 .. MaxEvents + 1 /\ cut \in BOOLEAN
  /\ lines \in 0 .. kept + 1
  /\ lines = kept + 1 => cut
  /\ metadata_seen <=> lines > 0 /\ kept > 0
  /\ frames = EventsRead /\ submitted = EventsRead
  /\ parse_errors = (IF lines > kept THEN 1 ELSE 0)
  /\ sequence_gaps = 0 /\ out_of_order = 0
  /\ Tracked = (IF EventsRead = 0 THEN {} ELSE {One})
  /\ EventsRead > 0 => last_sequences[One] = EventsRead
  /\ state = "thrown" => kept = 0
  /\ state = "returned" => lines >= kept /\ kept > 0

FixtureInv == generated => InStep

(* A fixture that is not read yet.                                         *)
LEMMA FixtureInvInit == FixtureInit => FixtureInv
<1> SUFFICES ASSUME FixtureInit, generated PROVE InStep
  BY DEF FixtureInv
<1>1. /\ lines = 0 /\ ~metadata_seen /\ state = "reading" /\ frames = 0
      /\ submitted = 0 /\ parse_errors = 0 /\ sequence_gaps = 0
      /\ out_of_order = 0 /\ Tracked = {} /\ EventsRead = 0
  BY DEF FixtureInit, Init, Tracked, EventsRead
<1>2. kept \in 0 .. MaxEvents + 1 /\ cut \in BOOLEAN
  BY FixtureAssumption, ReaderAssumption DEF FixtureInit, generate_fixture
<1> QED
  BY <1>1, <1>2 DEF InStep

(* The event behind the k-th line has number k, and is the first of its    *)
(* stream or the successor of the last.                                    *)
LEMMA EventInStep ==
  ASSUME InStep, UNCHANGED fixtureVars, lines < kept, lines # 0, ReadEvent
  PROVE  InStep'
<1>1. /\ lines \in Nat /\ kept \in Nat /\ lines > 0
      /\ EventsRead = lines - 1 /\ metadata_seen
      /\ kept' = kept /\ cut' = cut
  BY FixtureAssumption, ReaderAssumption DEF InStep, EventsRead, fixtureVars
<1>2. ~FrameOverStreamLimit(One, EventFrame)
  <2> SUFFICES ASSUME FrameOverStreamLimit(One, EventFrame) PROVE FALSE
    OBVIOUS
  <2>1. Tracked = {}
    BY DEF FrameOverStreamLimit, InStep
  <2>2. Cardinality(Tracked) = 0
    BY <2>1, FS_EmptySet
  <2> QED
    BY <2>2, FixtureAssumption, ReaderAssumption DEF FrameOverStreamLimit
<1>3. sequence_num(lines - 1) = lines
  BY <1>1 DEF sequence_num
<1>4. ~LateInStream(One, lines, EventFrame)
  BY <1>1 DEF LateInStream, InStep
<1>5. FirstOfStream(One, lines, EventFrame) \/
      NextOfStream(One, lines, EventFrame)
  BY <1>2, <1>3, <1>4 DEF ReadEvent
<1>6. /\ FrameLine /\ HandOver(EventFrame) /\ NewHigh(One, lines)
      /\ out_of_order' = out_of_order
  BY <1>5 DEF FirstOfStream, NextOfStream
<1>7. /\ lines' = lines + 1 /\ frames' = frames + 1
      /\ metadata_seen' = metadata_seen /\ state' = state
      /\ submitted' = submitted + 1 /\ parse_errors' = parse_errors
  BY <1>6 DEF FrameLine, NextLine, HandOver, EventFrame
<1>8. EventsRead' = lines /\ lines' <= kept'
  BY <1>1, <1>7 DEF EventsRead
<1>9. Tracked' = {One} /\ last_sequences'[One] = lines
  BY <1>6 DEF NewHigh, InStep, Tracked
<1>10. sequence_gaps' = 0
  <2>1. CASE FirstOfStream(One, lines, EventFrame)
    BY <2>1 DEF FirstOfStream, InStep
  <2>2. CASE NextOfStream(One, lines, EventFrame)
    <3>1. One \in Tracked
      BY <2>2 DEF NextOfStream
    <3>2. EventsRead > 0
      BY <3>1, <1>1 DEF InStep
    <3>3. last_sequences[One] = lines - 1 /\ sequence_gaps = 0
      BY <1>1, <3>2 DEF InStep
    <3>4. sequence_gaps + lines - last_sequences[One] - 1 = 0
      BY <1>1, <3>3
    <3>5. 0 % Width = 0
      BY ReaderAssumption
    <3> QED
      BY <2>2, <3>4, <3>5 DEF NextOfStream
  <2> QED
    BY <1>5, <2>1, <2>2
<1>11. state = "reading" /\ parse_errors = 0 /\ out_of_order = 0
       /\ frames = lines - 1 /\ submitted = lines - 1
  BY <1>1, <1>6 DEF FrameLine, NextLine, InStep
<1>12. /\ kept' \in 0 .. MaxEvents + 1 /\ cut' \in BOOLEAN
       /\ lines' \in 0 .. kept' + 1
       /\ (lines' = kept' + 1 => cut')
       /\ (metadata_seen' <=> lines' > 0 /\ kept' > 0)
  BY <1>1, <1>7 DEF InStep
<1>13. frames' = lines /\ submitted' = lines /\ out_of_order' = 0
  BY <1>1, <1>6, <1>7, <1>11
<1>14. parse_errors' = (IF lines' > kept' THEN 1 ELSE 0)
  BY <1>1, <1>7, <1>8, <1>11
<1> QED
  BY <1>1, <1>7, <1>8, <1>9, <1>10, <1>11, <1>12, <1>13, <1>14 DEF InStep

(* Every record of a fixture keeps the invariant.                          *)
LEMMA FixtureInvStep == FixtureInv /\ [FixtureNext]_allVars => FixtureInv'
<1> SUFFICES ASSUME FixtureInv, [FixtureNext]_allVars, generated' PROVE InStep'
  BY DEF FixtureInv
<1>u. UNCHANGED fixtureVars
  BY DEF FixtureNext, allVars
<1>g. InStep /\ generated
  BY <1>u DEF FixtureInv, fixtureVars
<1>f. kept' = kept /\ cut' = cut
  BY <1>u DEF fixtureVars
<1>1. CASE UNCHANGED vars
  <2>1. EventsRead' = EventsRead /\ Tracked' = Tracked
    BY <1>1, <1>f DEF vars, EventsRead, Tracked
  <2> QED
    BY <1>1, <2>1, <1>f, <1>g DEF vars, counters, history, InStep
<1>2. CASE lines < kept /\ lines = 0 /\ Metadata
  <2>1. /\ lines' = 1 /\ metadata_seen' /\ state' = "reading"
        /\ UNCHANGED << counters, last_sequences, submitted >>
    BY <1>2 DEF Metadata, NextLine, history
  <2>2. EventsRead = 0 /\ EventsRead' = 0 /\ Tracked' = Tracked /\ kept > 0
        /\ kept \in Nat
    BY <1>2, <1>f, <2>1, <1>g DEF EventsRead, Tracked, InStep
  <2> QED
    BY <1>2, <1>f, <1>g, <2>1, <2>2 DEF InStep, counters
<1>3. CASE lines < kept /\ lines # 0 /\ ReadEvent
  BY <1>3, <1>u, <1>g, EventInStep
<1>4. CASE lines = kept /\ cut /\ RejectedLine
  <2>1. /\ lines' = kept + 1 /\ metadata_seen' = metadata_seen
        /\ state' = "reading" /\ parse_errors' = 1
        /\ UNCHANGED << frames, sequence_gaps, out_of_order,
                        last_sequences, submitted >>
        /\ kept \in Nat
    BY <1>4, <1>g DEF RejectedLine, NextLine, history, InStep
  <2>2. EventsRead' = EventsRead /\ Tracked' = Tracked
    BY <1>4, <1>f, <2>1 DEF EventsRead, Tracked
  <2> QED
    BY <1>4, <1>f, <1>g, <2>1, <2>2 DEF InStep
<1>5. CASE lines = kept + (IF cut THEN 1 ELSE 0) /\ EndOfFile
  <2>1. /\ state' = IF metadata_seen THEN "returned" ELSE "thrown"
        /\ UNCHANGED << lines, metadata_seen, counters, last_sequences,
                        submitted >>
    BY <1>5 DEF EndOfFile, history
  <2>2. EventsRead' = EventsRead /\ Tracked' = Tracked
    BY <1>f, <2>1 DEF EventsRead, Tracked
  <2>3. /\ state' = "thrown" => kept = 0
        /\ state' = "returned" => lines >= kept /\ kept > 0
    BY <1>5, <1>g, <2>1 DEF InStep
  <2> QED
    BY <1>f, <1>g, <2>1, <2>2, <2>3 DEF InStep, counters
<1> QED
  BY <1>1, <1>2, <1>3, <1>4, <1>5, <1>g
     DEF FixtureNext, ReadFixture, ReadFixtureLine, Ended, allVars

(* read_capture on a file that generate_fixture has left, whole or cut     *)
(* short: every event in the file is handed over, without gap, late number *)
(* or, but for a line cut in two, parse error.                             *)
THEOREM FixtureCorrect == FixtureSpec => []FixtureIsRead
<1>1. FixtureInv => FixtureIsRead
  <2> SUFFICES ASSUME FixtureInv, generated PROVE FixtureIsRead
    BY DEF FixtureIsRead
  <2>1. InStep
    BY DEF FixtureInv
  <2>2. state = "returned" => EventsRead = kept - 1
    BY <2>1 DEF InStep, EventsRead
  <2> QED
    BY <2>1, <2>2 DEF FixtureIsRead, InStep
<1> QED
  BY <1>1, FixtureInvInit, FixtureInvStep, PTL DEF FixtureSpec

(* Reading a fixture is reading: what is proved of every recording holds   *)
(* of fixtures too.                                                        *)
THEOREM FixtureReads == FixtureSpec => Spec
<1>1. FixtureInit => Init
  BY DEF FixtureInit
<1>2. FixtureInv /\ [FixtureNext]_allVars => [Next]_vars
  <2> SUFFICES ASSUME FixtureInv, [FixtureNext]_allVars PROVE [Next]_vars
    OBVIOUS
  <2>1. CASE generated /\ lines < kept /\ lines # 0 /\ ReadEvent
    <3>1. lines \in Number
      BY <2>1, FixtureAssumption, ReaderAssumption
         DEF FixtureInv, InStep, Number
    <3>2. sequence_num(lines - 1) = lines
      BY <3>1, ReaderAssumption DEF sequence_num, Number
    <3>3. EventFrame \in Frames
      BY DEF EventFrame, Frames, MarketTrades
    <3>4. ReadFrame(EventFrame)
      BY <2>1, <3>1, <3>2, FixtureAssumption DEF ReadEvent, ReadFrame
    <3> QED
      BY <3>3, <3>4 DEF Next
  <2>2. CASE ~(generated /\ lines < kept /\ lines # 0 /\ ReadEvent)
    BY <2>2 DEF FixtureNext, ReadFixture, ReadFixtureLine, allVars, Next
  <2> QED
    BY <2>1, <2>2
<1> QED
  BY <1>1, <1>2, FixtureInvInit, FixtureInvStep, PTL DEF FixtureSpec, Spec
=============================================================================
