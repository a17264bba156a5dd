--------------------------- MODULE MCReporterPublish ---------------------------
(***************************************************************************)
(* An instance of ReporterPublish for TLC.  Four invocations allow one     *)
(* that publishes, one that dies between the two renamings, one that       *)
(* finds the place empty and one that finds both publications.             *)
(***************************************************************************)
EXTENDS ReporterPublish

CONSTANTS r1, r2

TwoRuns == {r1, r2}

===============================================================================
