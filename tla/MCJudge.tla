---------------------------------- MODULE MCJudge ----------------------------------
(* Values of the constants of JudgeRun for TLC: each test expects no       *)
(* output, and TLE stands for the reports that say the program ended       *)
(* badly.  The texts are as short as tells right from wrong: MCClassify    *)
(* has the longer ones, and the other reports.                             *)
EXTENDS JudgeRun

ExpectNothing == [t \in Tests |-> <<>>]

Report(v, text, cut, rt) == [verdict |-> v, stdout |-> text, truncated |-> cut, runtime |-> rt]

Reports ==
  { Report("OK", <<>>, FALSE, 1), Report("OK", <<"SP">>, FALSE, 2),
    Report("OK", <<"x">>, FALSE, 1), Report("OK", <<>>, TRUE, 1),
    Report("TLE", <<>>, FALSE, 3) }

EveryFaultOnce == [k \in FaultKinds |-> 1]
=============================================================================
