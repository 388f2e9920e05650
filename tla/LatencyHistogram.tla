-------------------------- MODULE LatencyHistogram --------------------------
(***************************************************************************)
(* latency_histogram of the pipeline, and the nearest-rank percentile the  *)
(* benchmark takes over whole runs.  The histogram keeps a count for each  *)
(* power of two; a quantile is read from the counts alone.                 *)
(***************************************************************************)
EXTENDS Integers, Sequences, FiniteSets

CONSTANTS
  Bits,         \* 64: values have so many bits
  MaxSamples    \* bound: values observed

ASSUME HistogramAssumption == Bits \in Nat \ {0} /\ MaxSamples \in Nat

(* What the proofs need to know of ^.                                      *)
ASSUME HistogramPowers == \A n \in 0 .. Bits - 1 : 2 ^ (n + 1) = 2 * 2 ^ n

VARIABLES
  buckets_, samples_, minimum_, maximum_,
  sorted        \* history: the values observed, in ascending order

histogramVars == << buckets_, samples_, minimum_, maximum_, sorted >>

Value == 0 .. 2 ^ Bits - 1

Smaller(a, b) == IF a < b THEN a ELSE b
Larger(a, b) == IF a < b THEN b ELSE a

(* std::bit_width.                                                         *)
bit_width(value) == CHOOSE bits \in 0 .. Bits :
                      /\ value < 2 ^ bits
                      /\ bits > 0 => value >= 2 ^ (bits - 1)

(* Mutant of Bucket: powers of two fall into the bucket above.             *)
BucketAbove(value) == IF value = 0 THEN 0
                      ELSE Smaller(bit_width(value) + 1, Bits)

Bucket(value) == IF value = 0 THEN 0
                 ELSE Smaller(bit_width(value - 1) + 1, Bits)

InitHistogram ==
  /\ buckets_ = [index \in 0 .. Bits |-> 0]
  /\ samples_ = 0
  /\ minimum_ = 2 ^ Bits - 1 /\ maximum_ = 0
  /\ sorted = << >>

Insert(value) ==
  LET below == Cardinality({i \in 1 .. Len(sorted) : sorted[i] < value})
  IN SubSeq(sorted, 1, below) \o << value >>
       \o SubSeq(sorted, below + 1, Len(sorted))

observe(value) ==
  /\ samples_ < MaxSamples
  /\ buckets_' = [buckets_ EXCEPT ![Bucket(value)] = @ + 1]
  /\ samples_' = samples_ + 1
  /\ minimum_' = Smaller(minimum_, value)
  /\ maximum_' = Larger(maximum_, value)
  /\ sorted' = Insert(value)

Full == samples_ = MaxSamples /\ UNCHANGED histogramVars

NextHistogram == (\E sample \in Value : observe(sample)) \/ Full

-----------------------------------------------------------------------------
cumulative[index \in 0 .. Bits] ==
  buckets_[index] + IF index = 0 THEN 0 ELSE cumulative[index - 1]

(* Mutant of Rank: the division rounds down.                               *)
RankDown(samples, percentile) == (samples * percentile) \div 100

Rank(samples, percentile) == (samples * percentile + 99) \div 100

quantile(percentile) ==
  LET target == Rank(samples_, percentile)
      index  == CHOOSE i \in 0 .. Bits :
                  /\ cumulative[i] >= target
                  /\ i > 0 => cumulative[i - 1] < target
  IN IF index = 0 THEN 0 ELSE 2 ^ (index - 1)

nearest_rank(values, percentile) ==
  IF values = << >> THEN 0
  ELSE values[Larger(1, Rank(Len(values), percentile))]

-----------------------------------------------------------------------------
Percentiles == {25, 50, 75, 95, 99}

(* A reported quantile is the least power of two not below the exact one,  *)
(* so it is off by less than a factor of two; only values over the highest *)
(* power of two, which have no bucket of their own, are reported as it.    *)
QuantileIsPowerAbove ==
  samples_ > 0 => \A percentile \in Percentiles :
    LET exact    == nearest_rank(sorted, percentile)
        reported == quantile(percentile)
    IN IF exact > 2 ^ (Bits - 1)
       THEN reported = 2 ^ (Bits - 1)
       ELSE exact <= reported /\ (exact > 0 => reported < 2 * exact)
                              /\ (exact = 0 => reported = 0)

(* The nearest rank is the least value such that no fewer than so many     *)
(* percent of the samples are at most as large.                            *)
NearestRankCovers ==
  samples_ > 0 => \A percentile \in Percentiles :
    LET covers(value) ==
          Cardinality({i \in 1 .. samples_ : sorted[i] <= value}) * 100
            >= samples_ * percentile
        exact == nearest_rank(sorted, percentile)
    IN covers(exact) /\ \A i \in 1 .. samples_ :
                          sorted[i] < exact => ~covers(sorted[i])
=============================================================================
