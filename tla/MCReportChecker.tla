-------------------------- MODULE MCReportChecker --------------------------
(***************************************************************************)
(* A checker that meets jobs of which the first cannot be described.       *)
(***************************************************************************)
EXTENDS ReportChecker

FirstJob == {1}
=============================================================================
