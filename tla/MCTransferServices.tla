------------------------ MODULE MCTransferServices ------------------------
(* Small instances of DuplicatePreflight, DiagnosticReports,                *)
(* ProblemPreviews, ReceiverHistory and AppPreferences for TLC.  They share *)
(* no state, so a behaviour of all is a behaviour of each; one run explores *)
(* each of them with the others at rest.                                    *)
EXTENDS DuplicatePreflight, DiagnosticReports, ProblemPreviews, ReceiverHistory,
        AppPreferences

CONSTANTS c1, c2

\* Two files in the first window, one in the second.
TwoAndOne == <<1, 1, 2>>
\* Different bytes of the same size: candidates that need not match.
OneSize == [c \in {c1, c2} |-> 1]
\* The reports of two transfers.
TwoReports == <<1, 2>>
\* The first adds two windows or notes to its report, the second none.
SomeEntries == <<2, 0>>

\* Two transfers to different receivers, with one problem file each.
TwoScopes == <<"a", "b">>
OneAsset == <<1>>

PreflightAtRest ==
    /\ native /\ skipping
    /\ stored = {}
    /\ content = [f \in Files |-> c1]
    /\ window = 1 /\ stage = "metadata"

ReportsAtRest == session = 0 /\ lists = 0 /\ mishaps = 0

OthersAtRest == PreviewInit /\ HistoryInit /\ PreferenceInit

ServicesInit == Init /\ ReportInit /\ OthersAtRest

ServicesNext ==
    \/ /\ ReportsAtRest /\ OthersAtRest
       /\ Next
       /\ UNCHANGED <<reportVars, previewVars, historyVars, preferenceVars>>
    \/ /\ PreflightAtRest /\ OthersAtRest
       /\ ReportNext
       /\ UNCHANGED <<vars, previewVars, historyVars, preferenceVars>>
    \/ /\ PreflightAtRest /\ ReportsAtRest /\ HistoryInit /\ PreferenceInit
       /\ PreviewNext
       /\ UNCHANGED <<vars, reportVars, historyVars, preferenceVars>>
    \/ /\ PreflightAtRest /\ ReportsAtRest /\ PreviewInit /\ PreferenceInit
       /\ HistoryNext
       /\ UNCHANGED <<vars, reportVars, previewVars, preferenceVars>>
    \/ /\ PreflightAtRest /\ ReportsAtRest /\ PreviewInit /\ HistoryInit
       /\ PreferenceNext
       /\ UNCHANGED <<vars, reportVars, previewVars, historyVars>>

ServicesSpec ==
    ServicesInit /\ [][ServicesNext]_<<vars, reportVars, previewVars, historyVars, preferenceVars>>
=============================================================================
