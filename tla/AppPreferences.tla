---------------------------- MODULE AppPreferences ----------------------------
(***************************************************************************)
(* The choices of the Settings screen that the iPhone remembers: those for *)
(* a transfer (useTransferPreferences), and nearby discovery               *)
(* (useConnectionPreferences), with the discoveries it allows              *)
(* (useDiscoveryController).  At launch the stored values are loaded, and  *)
(* the user may choose before they arrive.  Choices of a transfer          *)
(* preference are written one after the other; those of nearby discovery   *)
(* each on its own.  The storage may reject a request, and the app may be  *)
(* killed and launched again.                                              *)
(*                                                                         *)
(* The three transfer preferences are handled alike, each with a revision  *)
(* and a chain of its own, so TransferPreferences is any set.  HTTP        *)
(* without encryption is stored like nearby discovery; what it allows is   *)
(* in Connection.  What a discovery finds is left out.                     *)
(*                                                                         *)
(* A definition marked "Wrong:" belongs to no specification.               *)
(***************************************************************************)
EXTENDS Integers, Sequences

CONSTANTS
    TransferPreferences,
    MaxChoices,     \* bound: choices the user makes
    MaxDiscoveries, \* bound: discoveries in flight
    MaxFaults       \* bound: rejected requests, and restarts

Nearby == "nearbyDiscovery"
OnOff == {"on", "off"}

ASSUME PreferenceAssumption ==
    Nearby \notin TransferPreferences /\ MaxDiscoveries \in Nat

VARIABLES
    shown,          \* the values in use
    disk,           \* the values in AsyncStorage
    hydration,      \* where the load of each preference is, and what it read
    touched,        \* preferences chosen since the launch (revision > 0)
    writeChain,     \* the writes of each preference that are not done, in order
    onConnect,      \* the Connect tab is open
    asking,         \* "Enable nearby discovery?" is open
    discoveries,    \* discoveries in flight
    chosen,         \* history: the last choices, as far as they were stored
    lost,           \* history: preferences whose last write was rejected
    raced,          \* history: a choice of Nearby met a load, a write or a failure
    choices, faults

values == <<shown, touched>>
storage == <<disk, hydration, writeChain>>
ghosts == <<chosen, lost, raced>>
preferenceVars == <<values, storage, onConnect, asking, discoveries, ghosts, choices, faults>>

Preferences == TransferPreferences \cup {Nearby}
\* "off" stands for the value a preference has until it is chosen otherwise.
Default == [p \in Preferences |-> "off"]
Unread == [at |-> "sent", value |-> "absent"]
Stored(p) == IF disk[p] = "absent" THEN Default[p] ELSE disk[p]

PreferenceInit ==
    /\ shown = Default /\ touched = {}
    /\ disk = [p \in Preferences |-> "absent"]
    /\ hydration = [p \in Preferences |-> Unread]
    /\ writeChain = [p \in Preferences |-> <<>>]
    /\ onConnect = FALSE /\ asking = FALSE /\ discoveries = 0
    /\ chosen = Default /\ lost = {} /\ raced = FALSE
    /\ choices = 0 /\ faults = 0

Fault == faults < MaxFaults /\ faults' = faults + 1

-----------------------------------------------------------------------------
(* Discovery.                                                              *)

\* performDiscovery; the bound drops the ones beyond it.
PerformDiscovery ==
    discoveries' = IF discoveries < MaxDiscoveries THEN discoveries + 1 ELSE discoveries

\* AppShell's effect: the Connect tab opens with discovery on, or discovery is
\* turned on while it is open.
DiscoveryEffect ==
    IF /\ onConnect' /\ shown'[Nearby] = "on"
       /\ ~(onConnect /\ shown[Nearby] = "on")
    THEN PerformDiscovery ELSE UNCHANGED discoveries

Navigate ==
    /\ onConnect' = ~onConnect
    /\ UNCHANGED <<values, storage, asking, ghosts, choices, faults>>
    /\ DiscoveryEffect

\* discoverServers, from the Refresh button of the Connect tab.
DiscoverServers ==
    /\ onConnect /\ shown[Nearby] = "on"
    /\ PerformDiscovery
    /\ UNCHANGED <<values, storage, onConnect, asking, ghosts, choices, faults>>

DiscoveryEnds ==
    /\ discoveries > 0
    /\ discoveries' = discoveries - 1
    /\ UNCHANGED <<values, storage, onConnect, asking, ghosts, choices, faults>>

-----------------------------------------------------------------------------
(* The load at launch.                                                     *)

ReadPreference(p) ==
    /\ hydration[p].at = "sent"
    /\ hydration' = [hydration EXCEPT ![p] = [at |-> "read", value |-> disk[p]]]
    /\ UNCHANGED <<values, disk, writeChain, onConnect, asking, discoveries, ghosts,
                   choices, faults>>

\* Wrong: a choice that was made meanwhile is not respected.
LoadedAnyway(p) ==
    IF p = Nearby THEN IF hydration[p].value = "on" THEN "on" ELSE "off"
    ELSE IF hydration[p].value # "absent" THEN hydration[p].value ELSE shown[p]

\* The value in use once the stored one has arrived.  A transfer preference
\* that was chosen meanwhile keeps its value; nearby discovery does not.
Loaded(p) ==
    IF p = Nearby THEN IF hydration[p].value = "on" THEN "on" ELSE "off"
    ELSE IF p \notin touched /\ hydration[p].value # "absent"
         THEN hydration[p].value ELSE shown[p]

PreferenceLoaded(p) ==
    /\ hydration[p].at = "read"
    /\ hydration' = [hydration EXCEPT ![p].at = "done"]
    /\ shown' = [shown EXCEPT ![p] = Loaded(p)]
    /\ UNCHANGED <<touched, disk, writeChain, onConnect, asking, ghosts, choices, faults>>
    /\ DiscoveryEffect

\* The load is rejected: nearby discovery is off.
LoadRejected(p) ==
    /\ hydration[p].at = "sent"
    /\ Fault
    /\ hydration' = [hydration EXCEPT ![p].at = "failed"]
    /\ shown' = IF p = Nearby THEN [shown EXCEPT ![p] = "off"] ELSE shown
    /\ UNCHANGED <<touched, disk, writeChain, onConnect, asking, ghosts, choices>>
    /\ DiscoveryEffect

-----------------------------------------------------------------------------
(* Choices.                                                                *)

Choose(p, v) ==
    /\ choices < MaxChoices /\ choices' = choices + 1
    /\ shown' = [shown EXCEPT ![p] = v]
    /\ touched' = touched \cup {p}
    /\ chosen' = [chosen EXCEPT ![p] = v]
    /\ UNCHANGED <<disk, hydration, onConnect, lost, faults>>

Written(p, v) == writeChain' = [writeChain EXCEPT ![p] = Append(@, v)]

\* persistPreparationMode and its like.
PersistPreference(p, v) ==
    /\ Choose(p, v) /\ Written(p, v)
    /\ UNCHANGED <<asking, discoveries, raced>>

PersistNearbyDiscovery(v) ==
    /\ Choose(Nearby, v) /\ Written(Nearby, v)
    /\ raced' = (raced \/ hydration[Nearby].at \in {"sent", "read"}
                       \/ writeChain[Nearby] # <<>>)
    /\ DiscoveryEffect

\* Wrong: the choice is not stored.
TurnOffForNow ==
    /\ shown[Nearby] = "on"
    /\ Choose(Nearby, "off")
    /\ UNCHANGED <<writeChain, asking, raced, discoveries>>

\* updateNearbyDiscovery: off at once, on after a question.
TurnOffNearby ==
    /\ shown[Nearby] = "on"
    /\ PersistNearbyDiscovery("off")
    /\ UNCHANGED asking

AskForNearby ==
    /\ shown[Nearby] = "off" /\ ~asking
    /\ asking' = TRUE
    /\ UNCHANGED <<values, storage, onConnect, discoveries, ghosts, choices, faults>>

AnswerNearby ==
    /\ asking /\ asking' = FALSE
    /\ \/ PersistNearbyDiscovery("on")
       \/ UNCHANGED <<values, storage, onConnect, discoveries, ghosts, choices, faults>>

-----------------------------------------------------------------------------
(* The writes.                                                             *)

\* A chain of writes without its i-th.
WithoutWrite(s, i) == SubSeq(s, 1, i - 1) \o SubSeq(s, i + 1, Len(s))

\* The writes that may be the next to be done.
NextWrite(p) == IF p = Nearby THEN DOMAIN writeChain[p] ELSE DOMAIN writeChain[p] \cap {1}

WriteDone(p, i) ==
    /\ disk' = [disk EXCEPT ![p] = writeChain[p][i]]
    /\ writeChain' = [writeChain EXCEPT ![p] = WithoutWrite(@, i)]
    /\ lost' = lost \ {p}
    /\ UNCHANGED <<values, hydration, onConnect, asking, discoveries, chosen, raced,
                   choices, faults>>

\* A rejected write is reported, and the next one goes ahead.
WriteRejected(p, i) ==
    /\ Fault
    /\ writeChain' = [writeChain EXCEPT ![p] = WithoutWrite(@, i)]
    /\ lost' = lost \cup {p}
    /\ raced' = (raced \/ p = Nearby)
    /\ UNCHANGED <<values, disk, hydration, onConnect, asking, discoveries, chosen, choices>>

\* The app is killed and launched again.
RelaunchApp ==
    /\ Fault
    /\ shown' = Default /\ touched' = {}
    /\ hydration' = [p \in Preferences |-> Unread]
    /\ writeChain' = [p \in Preferences |-> <<>>]
    /\ onConnect' = FALSE /\ asking' = FALSE /\ discoveries' = 0
    /\ chosen' = [p \in Preferences |->
                    IF p \in lost \/ writeChain[p] # <<>> THEN Stored(p) ELSE chosen[p]]
    /\ lost' = {}
    /\ raced' = (raced \/ writeChain[Nearby] # <<>>)
    /\ UNCHANGED <<disk, choices>>

-----------------------------------------------------------------------------
PreferenceNext ==
    \/ Navigate \/ DiscoverServers \/ DiscoveryEnds
    \/ \E p \in Preferences : ReadPreference(p) \/ PreferenceLoaded(p) \/ LoadRejected(p)
    \/ \E p \in TransferPreferences, v \in OnOff : PersistPreference(p, v)
    \/ TurnOffNearby \/ AskForNearby \/ AnswerNearby
    \/ \E p \in Preferences : \E i \in NextWrite(p) : WriteDone(p, i) \/ WriteRejected(p, i)
    \/ RelaunchApp

PreferenceSpec == PreferenceInit /\ [][PreferenceNext]_preferenceVars

-----------------------------------------------------------------------------
\* Every variable keeps the type it has in the code.
PreferenceTypeOK ==
    /\ {shown, chosen} \subseteq [Preferences -> OnOff]
    /\ disk \in [Preferences -> OnOff \cup {"absent"}]
    /\ hydration \in [Preferences -> [at : {"sent", "read", "done", "failed"},
                                      value : OnOff \cup {"absent"}]]
    /\ writeChain \in [Preferences -> Seq(OnOff)]
    /\ touched \subseteq Preferences /\ lost \subseteq Preferences
    /\ discoveries \in 0..MaxDiscoveries

\* The choice of the user stands: a load that answers late does not undo it,
\* and when the writes of a transfer preference are done and the last was not
\* rejected, the storage has the last choice, however fast the user changed it
\* and whatever became of the writes before.
ChoiceStands ==
    /\ PreferenceTypeOK
    /\ \A p \in TransferPreferences :
       /\ (p \in touched \/ hydration[p].at = "done") => shown[p] = chosen[p]
       /\ (writeChain[p] = <<>> /\ p \notin lost) => Stored(p) = chosen[p]

\* A discovery begins only if the last choice of the user was to allow it,
\* over restarts too, unless that choice met the load, another write or a
\* failure of the storage.
DiscoveryIsConsented ==
    [][discoveries' > discoveries => raced' \/ chosen'[Nearby] = "on"]_preferenceVars
=============================================================================
