------------------------------ MODULE MCDeploy ------------------------------
(***************************************************************************)
(* Command lines for TLC.                                                  *)
(***************************************************************************)
EXTENDS Deploy

CONSTANTS a, b, t, u   \* two DNS prefixes and two time stamps

ApiModel(prefix, key, sp) == [prefix |-> prefix, key |-> key, sp |-> sp, valid |-> TRUE]

CommandLine(kind, source, force) ==
  [kind |-> kind, source |-> source, saved |-> Source, dnsPrefix |-> <<>>,
   autoSuffix |-> FALSE, outputDirectory |-> NoFlag, forceOverwrite |-> force,
   client |-> FALSE]

\* An apimodel in which everything is left to deploy, one that is complete,
\* one without a service principal, and one that is invalid.
Blank    == ApiModel(<<a>>, Nobody, Nobody)
Complete == ApiModel(<<a>>, Operator, Operator)
Bare     == ApiModel(<<b>>, Nobody, Missing)
Invalid  == [ApiModel(<<a>>, Nobody, Operator) EXCEPT !.valid = FALSE]
Unnamed  == ApiModel(<<>>, Nobody, Nobody)

First     == CommandLine("deploy", Blank, FALSE)
Again     == CommandLine("deploy", Blank, TRUE)
Resume    == [Again EXCEPT !.saved = <<a>>]
Whole     == CommandLine("deploy", Complete, TRUE)
Other     == [CommandLine("deploy", Bare, FALSE) EXCEPT !.client = TRUE]
Bad       == CommandLine("deploy", Invalid, FALSE)
Named(p)  == [CommandLine("deploy", Unnamed, FALSE) EXCEPT !.dnsPrefix = p]
Suffixed  == [First EXCEPT !.autoSuffix = TRUE]
Elsewhere == [First EXCEPT !.outputDirectory = <<b>>]
Generate  == CommandLine("generate", Complete, FALSE)
ParametersOnly == [CommandLine("parameters", Complete, FALSE) EXCEPT !.saved = <<a>>]

\* Runs one after the other.
Sequential ==
  {First, Again, Resume, Whole, Other, Bad, Named(<<b>>), Suffixed, Elsewhere,
   Generate, ParametersOnly}

\* Runs at the same time.
Concurrent == {First, Again, Resume, Other, Suffixed, Generate}

\* Two clusters named on the command line.
NamedByFlag == {Named(<<a>>), [Named(<<b>>) EXCEPT !.forceOverwrite = TRUE]}

MCLabels == {a, b, t, u}
MCSuffixes == {t, u}
=============================================================================
