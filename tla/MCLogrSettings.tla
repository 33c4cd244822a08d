---------------------------- MODULE MCLogrSettings ----------------------------
(***************************************************************************)
(* Instances of LogrSettings for TLC: three loggers, "Aux", "Main" and     *)
(* "Net", with room for two, and three configuration files.                *)
(***************************************************************************)
EXTENDS LogrSettings

CONSTANTS noFile, t1

ThreeKeys == <<"Aux", "Main", "Net">>
SomePaths == {"", "./logr/", "./a/", "./b/"}

\* Everything on and loud; the main logger quiet and another one new; a
\* limit and a path that say nothing.
ThreeFiles == {"loud", "quiet", "bare"}
Loud == [enable |-> TRUE, path |-> "./a/", level |-> 0, outfile |-> TRUE, limitsize |-> 12]
Quieter == [enable |-> FALSE, path |-> "./b/", level |-> 2, outfile |-> FALSE, limitsize |-> 21]
Bare == [enable |-> TRUE, path |-> "", level |-> 1, outfile |-> TRUE, limitsize |-> 0]
ThreeSays ==
  [loud |-> [k \in {"Main", "Net"} |-> Loud],
   quiet |-> [k \in {"Aux", "Main"} |-> Quieter],
   bare |-> [k \in {"Main"} |-> Bare]]

OwnSums == [loud |-> 1, quiet |-> 2, bare |-> 3]

SomeCalls ==
  {[key |-> "Main", name |-> "outfile", value |-> TRUE], [key |-> "Main", name |-> "outfile", value |-> FALSE],
   [key |-> "Main", name |-> "enable", value |-> FALSE], [key |-> "Net", name |-> "limitsize", value |-> 0]}

=============================================================================
