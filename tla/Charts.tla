-------------------------------- MODULE Charts --------------------------------
(***************************************************************************)
(* The charts whose data goes through a CSV file in D:\temp\junk: one      *)
(* definition per generator of DataDao.  A generator is reduced to the     *)
(* text its file name begins with, the request parameters that follow in   *)
(* the name, the parameters its rows depend on, and whether the name needs *)
(* the date to be parsed first.                                            *)
(*                                                                         *)
(* The parameter forDate is two: the day, and the time that may follow it, *)
(* from which only some generators show a quarter or half of an hour.      *)
(***************************************************************************)

Params == {"index", "instrument", "scrip", "option", "options", "algos",
           "day", "time", "top", "worth", "method", "delta", "expiry", "greek"}

\* What a chart is about, as opposed to when and how it is computed. The lists
\* of options and of algorithms are not among them: PremiumDecay, GreeksPerMinute
\* and PandLOfOrder leave them out of the name.
Subjects == {"index", "instrument", "scrip", "option"}

Chart(report, stem, named, unnamed, dated) ==
    [report |-> report, stem |-> stem, named |-> named,
     read |-> named \cup unnamed, dated |-> dated]

OISpike == Chart("OISpike", "OISpike", {"index"}, {"day", "top", "worth"}, FALSE)

PremiumDecay ==
    Chart("PremiumDecay", "Option1MPremiumDecay", {"day"}, {"options"}, TRUE)

\* Mutant: the scrip is left out of the name.
DOMSummaryOfDay ==
    Chart("DOMSummary", "DomSummary", {"day"}, {"scrip", "time"}, TRUE)

\* The date in the name has no time, so a quarter of an hour and the whole day
\* share a file.
DOMSummary ==
    Chart("DOMSummary", "DomSummary", {"scrip", "day"}, {"time"}, TRUE)

CePeIVRatio ==
    Chart("CePeIVRatio", "OptionCePeIvRatio", {"index", "delta"},
          {"day", "time", "expiry"}, FALSE)

TimeValue ==
    Chart("TimeValue", "OptionTimeValue", {"index"}, {"day", "time"}, FALSE)

VegaValue ==
    Chart("VegaValue", "OptionVegaValue", {"index"}, {"day", "time", "top"}, FALSE)

ATMMovement ==
    Chart("ATMMovement", "OptionATMMovementAnalysis", {"index"},
          {"day", "time"}, FALSE)

\* forDate goes into the name as it is.
ATMMovementRawData ==
    Chart("ATMMovementRawData", "OptionATMMovementRawDataAnalysis",
          {"instrument", "day", "time", "delta"}, {}, FALSE)

GreeksMovement ==
    Chart("GreeksMovement", "OptionGreeksMovementsAnalysis", {"index"},
          {"day", "time"}, FALSE)

GreeksPerMinute ==
    Chart("GreeksPerMinute", "Option1MGreeksMovement", {"day"}, {"options"}, TRUE)

PandLOfOrder ==
    Chart("PandLOfOrder", "getPandLOfOrder", {"day"}, {"algos"}, TRUE)

Greeks == Chart("Greeks", "OptionGreeks", {"option"}, {"day", "time"}, FALSE)

Spike == Chart("Spike", "OptionSpike", {"index"}, {"day", "time"}, FALSE)

\* Another chart, in files of the same names.
PriceDisparity ==
    Chart("PriceDisparity", "OptionSpike", {"index"}, {"day", "time"}, FALSE)

MaxOIWorth ==
    Chart("MaxOIWorth", "OptionMaxOIWorthReversionData", {"index"},
          {"day", "time"}, FALSE)

OptimalStrike ==
    Chart("OptimalStrike", "OptionOptimalStrikeData", {"index"},
          {"day", "time", "top"}, FALSE)

GreeksRateOfChange ==
    Chart("GreeksRateOfChange", "OptionGreeksRateOfChange",
          {"index", "top", "method", "worth"}, {"day", "time"}, FALSE)

OIDiscrepancy ==
    Chart("OIDiscrepancy", "OptionOIDescrepancy", {"index", "top", "worth"},
          {"day", "time"}, FALSE)

PriceRateOfChange ==
    Chart("PriceRateOfChange", "OptionPriceRateOfChange", {"index", "delta"},
          {"day", "time"}, FALSE)

OIRateOfChange ==
    Chart("OIRateOfChange", "OptionATMOTMOIRateOfChange", {"index"},
          {"day", "time"}, FALSE)

TrendDeciding ==
    Chart("TrendDeciding", "TrendDecidingOptionGreeksROC", {"index"},
          {"day", "time", "top", "method"}, FALSE)

\* Mutant: one file for all the greeks of an index and day.
OptionOIOfDay ==
    Chart("OptionOI", "OI", {"index", "day", "time"}, {"greek"}, FALSE)

\* forDate goes into the name as it is, but the rows are of the whole day.
OptionOI ==
    [report |-> "OptionOI", stem |-> "OI",
     named |-> {"index", "day", "time", "greek"},
     read |-> {"index", "day", "greek"}, dated |-> FALSE]

AllCharts ==
    {OISpike, PremiumDecay, DOMSummary, CePeIVRatio, TimeValue, VegaValue,
     ATMMovement, ATMMovementRawData, GreeksMovement, GreeksPerMinute,
     PandLOfOrder, Greeks, Spike, PriceDisparity, MaxOIWorth, OptimalStrike,
     GreeksRateOfChange, OIDiscrepancy, PriceRateOfChange, OIRateOfChange,
     TrendDeciding, OptionOI}

=============================================================================
