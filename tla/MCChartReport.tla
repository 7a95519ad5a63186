---------------------------- MODULE MCChartReport ----------------------------
(* Small instances of ChartReport for TLC. *)
EXTENDS ChartReport

\* A request for a chart, with the value 2 for one parameter and 1 for all
\* others.
Asking(chart, odd) ==
    [chart |-> chart, args |-> [p \in Params |-> IF p = odd THEN 2 ELSE 1]]

\* Reports of one name and of several, of one generator and of two, one with a
\* date to be parsed.
Mixed == {Asking(OptionOI, "greek"), Asking(OptionOI, "top"),
          Asking(Spike, "day"), Asking(PriceDisparity, "top"),
          Asking(DOMSummary, "time")}

\* One chart of every way to name a file, each for two subjects; the others are
\* named like Spike, by an index alone or with more parameters.
NamedDifferently ==
    {OISpike, PremiumDecay, DOMSummary, CePeIVRatio, Greeks, Spike,
     ATMMovementRawData, OptionOI}

TwoSubjects ==
    UNION {{Asking(chart, p) : p \in (Subjects \cap chart.read) \cup {"expiry"}} :
              chart \in NamedDifferently}

MCRequests == TwoSubjects \cup Mixed
=============================================================================
