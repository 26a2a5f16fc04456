------------------------ MODULE MCDiagnosticReports ------------------------
(* A small instance of DiagnosticReports for TLC. *)
EXTENDS DiagnosticReports

OneReport == <<1>>
\* Two windows or notes.
TwoEntries == <<2>>
=============================================================================
