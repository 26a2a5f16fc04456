-------------------------- MODULE PickAndTransfer ---------------------------
(***************************************************************************)
(* The way of the user from the media picker to the transfer screen: the    *)
(* picker hands its selection over and is unmounted with all it held, and   *)
(* the screen starts the transfer of exactly these assets.                  *)
(***************************************************************************)
EXTENDS MediaSelection, TransferScreen

CONSTANT MaxItems   \* bound: the transfer entries of a selection that is followed

ASSUME FlowAssumption ==
    /\ \A a \in DOMAIN Library : ToSet(Library[a]) \subseteq DOMAIN Parts
    /\ MaxItems \in Nat

flowVars == <<pickVars, screenVars>>

FlowInit == PickInit /\ ScreenInit

\* handleTransfer: the transfer screen takes the place of the picker.
HandleTransfer ==
    /\ StartTransfer
    /\ IF Cardinality(ItemsOf(handed')) <= MaxItems THEN Mount(handed') ELSE UNCHANGED screenVars

FlowNext == (Pick /\ UNCHANGED screenVars) \/ HandleTransfer \/ (ScreenNext /\ UNCHANGED pickVars)

FlowSpec == FlowInit /\ [][FlowNext]_flowVars
=============================================================================
