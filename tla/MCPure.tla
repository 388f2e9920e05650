------------------------------- MODULE MCPure -------------------------------
(***************************************************************************)
(* The four modules without concurrency, one at a time: a behaviour fills  *)
(* a histogram, walks the calendar, converts a decimal or writes a command *)
(* line, and leaves the other three as they start.                         *)
(***************************************************************************)
EXTENDS LatencyHistogram, Calendar, Decimal, CommandLine

VARIABLE subject   \* the module the behaviour is about

Init ==
  /\ InitHistogram /\ InitCalendar /\ InitDecimal /\ InitCommandLine
  /\ subject \in {"histogram", "calendar", "decimal", "command line"}
  /\ subject # "decimal" => given = [value |-> 0]
  /\ subject # "command line" => command = "replay"

Next ==
  /\ UNCHANGED subject
  /\ \/ /\ subject = "histogram" /\ NextHistogram
        /\ UNCHANGED << calendarVars, decimalVars, commandLineVars >>
     \/ /\ subject = "calendar" /\ NextCalendar
        /\ UNCHANGED << histogramVars, decimalVars, commandLineVars >>
     \/ /\ subject = "decimal" /\ NextDecimal
        /\ UNCHANGED << histogramVars, calendarVars, commandLineVars >>
     \/ /\ subject = "command line" /\ NextCommandLine
        /\ UNCHANGED << histogramVars, calendarVars, decimalVars >>

pureVars ==
  << subject, histogramVars, calendarVars, decimalVars, commandLineVars >>

Spec == Init /\ [][Next]_pureVars
=============================================================================
