---------------------------- MODULE CommandLine -----------------------------
(***************************************************************************)
(* main up to the point where a command starts: parse_arguments, the       *)
(* options a command accepts, and the values it takes from them.  A token  *)
(* is an option or a value: the empty text, a number that fits 64 bits, or *)
(* any other text.  Each behaviour appends one token after the other, as   *)
(* long as what precedes it parses.                                        *)
(***************************************************************************)
EXTENDS Integers, Sequences

CONSTANTS
  Command,     \* commands tried
  Option,      \* options tried
  Argument,       \* values tried
  MaxTokens    \* bound: tokens behind the command

VARIABLES command, argv

commandLineVars == << command, argv >>

accepted ==
  [generate  |-> {"output", "events", "product"},
   replay    |-> {"input", "engine"},
   compare   |-> {"input"},
   benchmark |-> {"input", "output", "runs", "warmup"},
   capture   |-> {"output", "product", "duration", "endpoint"}]

NumberOption == {"events", "runs", "warmup", "duration"}
RequiredOption == {"input", "output"}

default ==
  [events |-> "10000", runs |-> "10", warmup |-> "1", duration |-> "30",
   product |-> "BTC-USD", engine |-> "bengal",
   endpoint |-> "wss://advanced-trade-ws.coinbase.com"]

Numeric == {"0", "7", "10000", "10", "1", "30"}

-----------------------------------------------------------------------------
Pairs(tokens) == 1 .. Len(tokens) \div 2
NameAt(tokens, p) == tokens[2 * p - 1]
ValueAt(tokens, p) == tokens[2 * p]

(* Mutant of Unambiguous: the result of emplace is ignored.                *)
UnambiguousAnyway(tokens) == TRUE

(* emplace refuses the second value of an option.                          *)
Unambiguous(tokens) ==
  \A p, q \in Pairs(tokens) :
    NameAt(tokens, p) = NameAt(tokens, q) => p = q

(* Options and values take turns; an option starts with two dashes, and    *)
(* what stands in the place of a value is one, dashes or not.              *)
WellFormed(tokens) ==
  /\ Len(tokens) % 2 = 0
  /\ \A p \in Pairs(tokens) : NameAt(tokens, p) \in Option
  /\ Unambiguous(tokens)

Given(tokens) == {NameAt(tokens, p) : p \in Pairs(tokens)}

parse_arguments(tokens) ==
  [name \in Given(tokens) |->
     ValueAt(tokens, CHOOSE p \in Pairs(tokens) : NameAt(tokens, p) = name)]

value_or(options, name) ==
  IF name \in DOMAIN options THEN options[name] ELSE default[name]

reject_unknown(c, options) == DOMAIN options \subseteq accepted[c]

(* The command gets its values, unless one of these makes main throw.      *)
Starts(c, tokens) ==
  LET options == parse_arguments(tokens)
  IN /\ WellFormed(tokens)
     /\ reject_unknown(c, options)
     /\ \A name \in RequiredOption \cap accepted[c] :
          name \in DOMAIN options /\ options[name] # ""
     /\ \A name \in NumberOption \cap accepted[c] :
          value_or(options, name) \in Numeric
     /\ "engine" \in accepted[c] =>
          value_or(options, "engine") \in {"bengal", "standard"}

(* What a command that starts works with.                                  *)
Values(c, tokens) ==
  [name \in accepted[c] |-> value_or(parse_arguments(tokens), name)]

-----------------------------------------------------------------------------
InitCommandLine == command \in Command /\ argv = << >>

AppendToken ==
  /\ Len(argv) < MaxTokens
  /\ WellFormed(SubSeq(argv, 1, 2 * (Len(argv) \div 2)))
  /\ \E token \in Option \cup Argument : argv' = Append(argv, token)
  /\ UNCHANGED command

AllTokens ==
  /\ \/ Len(argv) = MaxTokens
     \/ ~WellFormed(SubSeq(argv, 1, 2 * (Len(argv) \div 2)))
  /\ UNCHANGED commandLineVars

NextCommandLine == AppendToken \/ AllTokens

-----------------------------------------------------------------------------
(* A command means the same whatever order its options come in: with any   *)
(* two pairs exchanged it starts or fails alike, with the same values.     *)
OptionsInAnyOrder ==
  \A p, q \in Pairs(argv) :
    LET place(k) == IF (k + 1) \div 2 = p THEN k + 2 * (q - p)
                    ELSE IF (k + 1) \div 2 = q THEN k + 2 * (p - q) ELSE k
        other == [k \in 1 .. Len(argv) |-> argv[place(k)]]
    IN /\ Starts(command, argv) <=> Starts(command, other)
       /\ Starts(command, argv) =>
            Values(command, argv) = Values(command, other)
=============================================================================
