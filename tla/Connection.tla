----------------------------- MODULE Connection -----------------------------
(***************************************************************************)
(* How the iPhone application finds itself connected to a receiver: the    *)
(* three ways of connecting (QR or manual pairing, a nearby receiver, the  *)
(* saved receiver), the health monitor of the dashboard, the receiver's    *)
(* history, the alert gate and the navigation that can run at the same     *)
(* time.                                                                   *)
(*                                                                         *)
(* Every attempt is an asynchronous function: between two awaits it runs   *)
(* alone, and at each await the user, the monitor, the receiver and the    *)
(* other attempts may run.  An attempt of the model is a slot whose field  *)
(* "at" names the await it is suspended at.  React effects run with the    *)
(* update that triggers them.                                              *)
(*                                                                         *)
(* The model is the installed application (the native module is present).  *)
(*                                                                         *)
(* A definition marked "Wrong:" belongs to no specification: it is an      *)
(* operation with a mistake that one of the properties excludes.           *)
(***************************************************************************)
EXTENDS Naturals, FiniteSets

CONSTANTS
    Attempts,          \* slots for attempts in progress
    MaxPolls,          \* approval polls of one pairing (24 in the code)
    MaxActivations,    \* credential pings of one pairing (3 in the code)
    MaxFailures,       \* consecutive failures the monitor tolerates (3)
    MaxTaps            \* bound: what the user begins in one behaviour

ASSUME ConnectionAssumption ==
    /\ IsFiniteSet(Attempts)
    /\ MaxPolls \in Nat \ {0}
    /\ MaxActivations \in Nat \ {0}
    /\ MaxFailures \in Nat \ {0}
    /\ MaxTaps \in Nat

VARIABLES
    appState,              \* the screen; "transfers" stands for the settings, too
    scanner,               \* the QR camera of the connect screen
    alert,                 \* the alert on screen
    connectionAttemptRef,  \* the claim of the running attempt
    isServerConnected, isConnecting, pairingDesktopName, mode,
    api,                   \* ApiClient's address and token
    native,                \* pinned transport: "clear", "configured", "verified"
    saved,                 \* a receiver is stored that parses and fits
    savedReceiver,         \* the copy of it that the shell has loaded
    credential,            \* a device credential is in the secure store
    device,                \* the receiver's opinion of that credential
    allowInsecureHttp, httpConfirmed,
    closing,               \* HTTP was turned off, its connection is to close
    attempt,
    health,                \* the monitor of the screen on display
    requests,              \* a request of the connection is in flight
    approvedOnce,          \* (observer) the receiver has approved the credential
    taps                   \* (bound) what the user began so far

connectionVars == <<isServerConnected, isConnecting, pairingDesktopName, mode>>
transport == <<api, native>>
store == <<saved, credential, device, approvedOnce>>
consent == <<allowInsecureHttp, httpConfirmed, closing>>
effects == <<savedReceiver, health, requests>>
vars == <<appState, scanner, alert, connectionAttemptRef, connectionVars,
          transport, store, consent, attempt, effects, taps>>

-----------------------------------------------------------------------------
(* The history tab does nothing that the home tab does not.                *)
Tabs == {"connect", "home", "transfers"}
Monitored == {"home", "transfers"}
Unset == [url |-> "", token |-> ""]
NoMonitor == [failures |-> 0, ping |-> "no", timer |-> FALSE]
Idle == [kind |-> "none", at |-> "idle", tries |-> 0, confirmed |-> FALSE]

(* The camera is open; the timer that asks for a scan runs; qrScanRequestId*)
(* is set.                                                                 *)
Scanners == [open : BOOLEAN, due : BOOLEAN, asked : BOOLEAN]

Init ==
    /\ appState = "connect" /\ alert = "none"
    /\ scanner = [open |-> FALSE, due |-> FALSE, asked |-> FALSE]
    /\ connectionAttemptRef = FALSE
    /\ isServerConnected = FALSE /\ isConnecting = FALSE
    /\ pairingDesktopName = FALSE /\ mode = "disconnected"
    /\ api = Unset /\ native = "clear"
    /\ saved \in BOOLEAN
    /\ savedReceiver = saved
    /\ credential \in BOOLEAN
    /\ device \in {"refused", "approved"}
    /\ device = "approved" => credential
    /\ approvedOnce = (saved \/ device = "approved")
    /\ allowInsecureHttp \in BOOLEAN /\ httpConfirmed = FALSE
    /\ closing = FALSE
    /\ attempt = [a \in Attempts |-> Idle]
    /\ health = NoMonitor /\ requests = FALSE
    /\ taps = 0

-----------------------------------------------------------------------------
(* What every update ends with.                                            *)

(* Wrong: nothing is scheduled when there is no address to ping.           *)
ValidateAddressed(h) ==
    IF h.ping # "no" \/ api'.url = "" THEN h
    ELSE [h EXCEPT !.ping = "sent", !.timer = FALSE]

(* validateConnection up to its await: a ping without an address answers   *)
(* at once.                                                                *)
Validate(h) ==
    IF h.ping # "no" THEN h
    ELSE [h EXCEPT !.ping = IF api'.url = "" THEN "unsent" ELSE "sent",
                   !.timer = FALSE]

FreshMonitor == Validate(NoMonitor)

(* A change of screen stops the monitor and starts a new one on a tab of   *)
(* the dashboard.  (The ping in flight of the old one is ignored when it   *)
(* answers.)                                                               *)
MonitorEffect ==
    health' = IF appState' = appState THEN health
              ELSE IF appState' \in Monitored THEN FreshMonitor ELSE NoMonitor

(* Connecting, and showing the home tab while connected, request the       *)
(* history of the receiver.                                                *)
RequestEffect ==
    requests' = \/ requests
                \/ /\ isServerConnected' /\ appState' = "home"
                   /\ ~isServerConnected \/ appState' # appState

SavedEffect ==
    savedReceiver' = IF appState' # appState /\ appState' \in {"home", "connect"}
                     THEN saved' ELSE savedReceiver

QrDisabled == isConnecting \/ isServerConnected

(* A request to scan, once made, opens the camera whenever the connect      *)
(* screen is shown or its QR button is enabled again; s is the scanner the  *)
(* handler leaves.                                                         *)
ScanEffect(s) ==
    LET enabled == ~QrDisabled' /\ (appState # "connect" \/ QrDisabled)
    IN  scanner' = [s EXCEPT !.open = appState' = "connect" /\ (s.open \/ (s.asked /\ enabled))]

ShellEffects == MonitorEffect /\ RequestEffect /\ SavedEffect

Effects == ScanEffect(scanner) /\ ShellEffects

MarkDisconnected ==
    /\ isServerConnected' = FALSE /\ isConnecting' = FALSE
    /\ pairingDesktopName' = FALSE /\ mode' = "disconnected"

MarkConnected(m) ==
    /\ isServerConnected' = TRUE /\ isConnecting' = FALSE
    /\ pairingDesktopName' = FALSE /\ mode' = m

Forget ==
    /\ api' = Unset
    /\ native' = "clear"

(* showAlertOnce: an alert is dropped while another is on screen.          *)
ShowAlertOnce(x) == alert' = IF alert = "none" THEN x ELSE alert

-----------------------------------------------------------------------------
(* Attempts.                                                               *)

Move(a, stage) == attempt' = [attempt EXCEPT ![a].at = stage, ![a].tries = 0]

(* Wrong: the claim is not given up.                                       *)
LeaveClaimed(a) ==
    /\ attempt' = [attempt EXCEPT ![a] = Idle]
    /\ connectionAttemptRef' = connectionAttemptRef
    /\ isConnecting' = FALSE

(* The finally block of the three handlers.                                *)
Leave(a) ==
    /\ attempt' = [attempt EXCEPT ![a] = Idle]
    /\ connectionAttemptRef' = FALSE
    /\ isConnecting' = FALSE

(* A new attempt takes any one free slot.                                  *)
Free(a) == attempt[a] = Idle /\ a = CHOOSE b \in Attempts : attempt[b] = Idle

Offered == appState = "connect" /\ alert = "none" /\ ~isConnecting /\ ~isServerConnected

(* The camera opens from the connect screen and may stay open until a code *)
(* is read, whatever is on screen; read while an attempt runs, it only     *)
(* closes the camera.                                                      *)
StartScanning ==
    /\ Offered /\ ~scanner.open
    /\ scanner' = [scanner EXCEPT !.open = TRUE]
    /\ UNCHANGED <<appState, alert, connectionAttemptRef, connectionVars,
                   transport, store, consent, attempt, effects>>

StopScanning ==
    /\ scanner.open /\ (alert = "none" \/ connectionAttemptRef)
    /\ scanner' = [scanner EXCEPT !.open = FALSE]
    /\ UNCHANGED <<appState, alert, connectionAttemptRef, connectionVars,
                   transport, store, consent, attempt, effects>>

MayConnect(a) ==
    /\ Free(a) /\ appState = "connect"
    /\ scanner.open \/ Offered
    /\ ~connectionAttemptRef

(* handleConnect with an HTTPS address and a fingerprint, up to the await  *)
(* of the pinned transport.                                                *)
PairSecurely(a) ==
    /\ MayConnect(a)
    /\ scanner' = [scanner EXCEPT !.open = FALSE]
    /\ connectionAttemptRef' = TRUE /\ isConnecting' = TRUE
    /\ attempt' = [attempt EXCEPT ![a] = [kind |-> "pair", at |-> "configure",
                                          tries |-> 0, confirmed |-> httpConfirmed]]
    /\ UNCHANGED <<appState, alert, isServerConnected, pairingDesktopName, mode,
                   transport, store, consent, effects>>

(* handleConnect with an HTTP address: consent is asked for once a session.*)
(* (confirmOnce answers no while an alert is on screen.)                   *)
ConnectOverHttp(a) ==
    /\ MayConnect(a) /\ allowInsecureHttp
    /\ httpConfirmed \/ alert = "none"
    /\ scanner' = [scanner EXCEPT !.open = FALSE]
    /\ connectionAttemptRef' = TRUE /\ isConnecting' = TRUE
    /\ attempt' = [attempt EXCEPT ![a] =
                     [Idle EXCEPT !.kind = "http",
                                  !.at = IF httpConfirmed THEN "ping" ELSE "confirm"]]
    /\ IF httpConfirmed
       THEN api' = [url |-> "http", token |-> "session"] /\ UNCHANGED alert
       ELSE alert' = "confirm" /\ UNCHANGED api
    /\ UNCHANGED <<appState, isServerConnected, pairingDesktopName, mode,
                   native, store, consent, effects>>

(* The transport is refused before the first await: another environment,   *)
(* no fingerprint or token, HTTP turned off or not consented to.  React    *)
(* may see the QR button disabled in between.                              *)
RefuseTransport ==
    /\ \E a \in Attempts : MayConnect(a)
    /\ \E open \in {FALSE, scanner.asked /\ ~isServerConnected} :
          scanner' = [scanner EXCEPT !.open = open]
    /\ isConnecting' = FALSE /\ pairingDesktopName' = FALSE
    /\ ShowAlertOnce("info")
    /\ UNCHANGED <<appState, connectionAttemptRef, isServerConnected, mode,
                   transport, store, consent, attempt, effects>>

(* The failure paths of handleConnect and of connectTrusted, with the      *)
(* finally block of the caller.                                            *)
Fail(a, message) ==
    /\ Forget /\ MarkDisconnected /\ Leave(a) /\ ShowAlertOnce(message)
    /\ UNCHANGED <<appState, consent>>
    /\ Effects

FailConnect(a) == Fail(a, "info")
FailTrusted(a) == Fail(a, "reconnect")

AnswerConfirmation(a) ==
    /\ attempt[a].at = "confirm" /\ alert = "confirm"
    /\ alert' = "none"
    /\ \/ /\ httpConfirmed' = TRUE
          /\ api' = [url |-> "http", token |-> "session"]
          /\ Move(a, "ping")
          /\ UNCHANGED <<connectionAttemptRef, isConnecting, pairingDesktopName>>
       \/ /\ Leave(a) /\ pairingDesktopName' = FALSE
          /\ UNCHANGED <<httpConfirmed, api>>
    /\ UNCHANGED <<appState, isServerConnected, mode, native, store,
                   allowInsecureHttp, closing, effects>>
    /\ ScanEffect(scanner)

(* configureSecureConnection and the setConfig that follows it.  A pairing *)
(* writes back the consent it read when it began.                          *)
Configured(a) ==
    /\ attempt[a].at = "configure"
    /\ native' = "configured"
    /\ api' = [url |-> "https",
               token |-> IF attempt[a].kind = "pair" THEN "session" ELSE "device"]
    /\ httpConfirmed' = IF attempt[a].kind = "pair" THEN attempt[a].confirmed
                        ELSE httpConfirmed
    /\ attempt' = [attempt EXCEPT ![a].at = "ping", ![a].confirmed = FALSE]
    /\ UNCHANGED <<appState, scanner, alert, connectionAttemptRef, connectionVars,
                   store, allowInsecureHttp, closing, effects>>

PinningUnavailable(a) ==
    /\ attempt[a].at = "configure"
    /\ \/ /\ attempt[a].kind = "pair"
          /\ Leave(a) /\ pairingDesktopName' = FALSE /\ ShowAlertOnce("info")
          /\ UNCHANGED <<appState, isServerConnected, mode, transport,
                         store, consent, effects>>
          /\ ScanEffect(scanner)
       \/ /\ attempt[a].kind # "pair"
          /\ FailTrusted(a) /\ UNCHANGED store

(* A ping succeeds only with a token the receiver accepts; the token is    *)
(* read again after the first of its two requests.                         *)
Accepted == api.token = "device" => device = "approved"

Verified == native' = IF api.url = "https" /\ native = "configured"
                      THEN "verified" ELSE native

ConnectHttp(a) ==
    /\ MarkConnected("http") /\ appState' = "home"
    /\ attempt' = [attempt EXCEPT ![a] = Idle]
    /\ connectionAttemptRef' = FALSE
    /\ UNCHANGED <<alert, store, consent>>
    /\ Effects

(* The answer to the first ping.  Over HTTP only a pairing token goes on   *)
(* to ask for approval.                                                    *)
PingAnswered(a) ==
    /\ attempt[a].at = "ping" /\ Accepted /\ Verified
    /\ UNCHANGED api
    /\ \/ /\ attempt[a].kind \in {"pair", "http"} /\ Move(a, "identity")
          /\ UNCHANGED <<appState, scanner, alert, connectionAttemptRef,
                         connectionVars, store, consent, effects>>
       \/ /\ attempt[a].kind \in {"discovered", "trusted"} /\ Move(a, "state")
          /\ UNCHANGED <<appState, scanner, alert, connectionAttemptRef,
                         connectionVars, store, consent, effects>>
       \/ attempt[a].kind = "http" /\ ConnectHttp(a)

PingFails(a) ==
    /\ attempt[a].at = "ping" /\ UNCHANGED store
    /\ \/ attempt[a].kind \in {"pair", "http"} /\ FailConnect(a)
       \/ attempt[a].kind \in {"discovered", "trusted"} /\ FailTrusted(a)

(* Wrong: the receiver is stored before it has approved.                   *)
GetIdentityAndSave(a) ==
    /\ attempt[a].at = "identity"
    /\ credential' = TRUE /\ saved' = TRUE
    /\ device' = IF credential THEN device ELSE "refused"
    /\ approvedOnce' = (approvedOnce /\ credential)
    /\ Move(a, "request")
    /\ UNCHANGED <<appState, scanner, alert, connectionAttemptRef, connectionVars,
                   transport, consent, effects>>

GetDeviceIdentity(a) ==
    /\ attempt[a].at = "identity"
    /\ credential' = TRUE
    /\ device' = IF credential THEN device ELSE "refused"
    /\ approvedOnce' = (approvedOnce /\ credential)
    /\ Move(a, "request")
    /\ UNCHANGED <<appState, scanner, alert, connectionAttemptRef, connectionVars,
                   transport, saved, consent, effects>>

(* activatePairingCredential up to its first ping.                         *)
Activate(a) ==
    /\ api' = [url |-> IF attempt[a].kind = "pair" THEN "https" ELSE "http",
               token |-> "device"]
    /\ Move(a, "activate")
    /\ UNCHANGED <<appState, scanner, alert, connectionAttemptRef, connectionVars,
                   native, consent, effects>>

(* The receiver registers the request; it may already know the device.     *)
RequestPairing(a) ==
    /\ attempt[a].at = "request"
    /\ device' \in {"pending", "refused", device}
    /\ UNCHANGED <<saved, credential, approvedOnce>>
    /\ \/ device' = "approved" /\ Activate(a)
       \/ device' = "refused" /\ FailConnect(a)
       \/ /\ device' = "pending" /\ Move(a, "poll")
          /\ pairingDesktopName' = TRUE
          /\ UNCHANGED <<appState, scanner, alert, connectionAttemptRef,
                         isServerConnected, isConnecting, mode, transport,
                         consent, effects>>

(* Wrong: the polls are counted from zero again.                           *)
PollForEver(a) ==
    /\ attempt[a].at = "poll" /\ UNCHANGED store
    /\ \/ device = "approved" /\ Activate(a)
       \/ device = "refused" /\ FailConnect(a)
       \/ /\ device = "pending"
          /\ attempt' = [attempt EXCEPT ![a].tries = (@ + 1) % MaxPolls]
          /\ UNCHANGED <<appState, scanner, alert, connectionAttemptRef,
                         connectionVars, transport, consent, effects>>

Poll(a) ==
    /\ attempt[a].at = "poll" /\ UNCHANGED store
    /\ \/ device = "approved" /\ Activate(a)
       \/ device = "refused" /\ FailConnect(a)
       \/ device = "pending" /\ attempt[a].tries + 1 = MaxPolls /\ FailConnect(a)
       \/ /\ device = "pending" /\ attempt[a].tries + 1 < MaxPolls
          /\ attempt' = [attempt EXCEPT ![a].tries = @ + 1]
          /\ UNCHANGED <<appState, scanner, alert, connectionAttemptRef,
                         connectionVars, transport, consent, effects>>

CredentialAccepted(a) ==
    /\ attempt[a].at = "activate" /\ Accepted /\ Verified
    /\ UNCHANGED api
    /\ \/ /\ attempt[a].kind = "pair" /\ Move(a, "save")
          /\ UNCHANGED <<appState, scanner, alert, connectionAttemptRef,
                         connectionVars, store, consent, effects>>
       \/ attempt[a].kind = "http" /\ ConnectHttp(a)

CredentialRejected(a) ==
    /\ attempt[a].at = "activate" /\ UNCHANGED store
    /\ IF attempt[a].tries + 1 = MaxActivations THEN FailConnect(a)
       ELSE /\ attempt' = [attempt EXCEPT ![a].at = "pause", ![a].tries = @ + 1]
            /\ UNCHANGED <<appState, scanner, alert, connectionAttemptRef,
                           connectionVars, transport, consent, effects>>

(* After the pause the ping uses the address in force; without one it      *)
(* fails at once.                                                          *)
PauseOver(a) ==
    /\ attempt[a].at = "pause" /\ UNCHANGED store
    /\ \/ /\ api.url # ""
          /\ attempt' = [attempt EXCEPT ![a].at = "activate"]
          /\ UNCHANGED <<appState, scanner, alert, connectionAttemptRef,
                         connectionVars, transport, consent, effects>>
       \/ api.url = "" /\ FailConnect(a)

(* The trust is stored.  A receiver entered by hand has no identity: the   *)
(* record that replaces the stored one does not parse.                     *)
SaveTrust(a) ==
    /\ attempt[a].at = "save"
    /\ saved' \in BOOLEAN
    /\ Move(a, "state")
    /\ UNCHANGED <<appState, scanner, alert, connectionAttemptRef, connectionVars,
                   transport, credential, device, approvedOnce, consent, effects>>

(* securityState answers: a pairing takes it as it is, a reconnection      *)
(* insists on a verified certificate.                                      *)
Secured(a) ==
    /\ attempt[a].at = "state"
    /\ \/ /\ attempt[a].kind = "pair"
          /\ MarkConnected("https") /\ appState' = "home"
          /\ attempt' = [attempt EXCEPT ![a] = Idle]
          /\ connectionAttemptRef' = FALSE
          /\ UNCHANGED <<alert, transport, store, consent>>
          /\ Effects
       \/ /\ attempt[a].kind # "pair" /\ native = "verified"
          /\ isServerConnected' = TRUE /\ mode' = "https" /\ appState' = "home"
          /\ IF attempt[a].kind = "trusted" THEN Leave(a)
             ELSE Move(a, "store") /\ UNCHANGED <<connectionAttemptRef, isConnecting>>
          /\ UNCHANGED <<alert, pairingDesktopName, transport, store, consent>>
          /\ Effects
       \/ /\ attempt[a].kind # "pair" /\ native # "verified"
          /\ FailTrusted(a) /\ UNCHANGED store

(* Any other await of handleConnect may throw into its catch block.        *)
ConnectThrows(a) ==
    /\ attempt[a].kind \in {"pair", "http"}
    /\ attempt[a].at \in {"identity", "request", "poll", "save", "state"}
    /\ FailConnect(a) /\ UNCHANGED store

-----------------------------------------------------------------------------
(* Nearby and saved receivers.                                             *)

HandleDiscoveredServer(a) ==
    /\ Free(a) /\ Offered /\ ~scanner.open /\ ~connectionAttemptRef
    /\ connectionAttemptRef' = TRUE /\ isConnecting' = TRUE
    /\ attempt' = [attempt EXCEPT ![a] = [Idle EXCEPT !.kind = "discovered", !.at = "read"]]
    /\ UNCHANGED <<appState, scanner, alert, isServerConnected, pairingDesktopName,
                   mode, transport, store, consent, effects>>

(* The stored receiver is missing, unreadable or another one, or the       *)
(* credential is gone: only the QR code can connect.                       *)
ScanFirst(a) ==
    /\ attempt[a].at \in {"read", "credential"}
    /\ \/ attempt[a].at = "read" /\ UNCHANGED saved
       \/ attempt[a].at = "credential" /\ ~credential /\ saved' = FALSE
       \/ attempt[a].at = "credential" /\ UNCHANGED saved
    /\ Leave(a) /\ ShowAlertOnce("scan")
    /\ UNCHANGED <<appState, isServerConnected, pairingDesktopName, mode,
                   transport, credential, device, approvedOnce, consent, effects>>
    /\ ScanEffect(scanner)

ReadSaved(a) ==
    /\ \/ attempt[a].at = "read" /\ saved /\ Move(a, "credential")
       \/ attempt[a].at = "credential" /\ credential /\ Move(a, "configure")
    /\ UNCHANGED <<appState, scanner, alert, connectionAttemptRef, connectionVars,
                   transport, store, consent, effects>>

(* The refreshed address of the receiver is stored after the connection.   *)
StoreRefreshed(a) ==
    /\ attempt[a].at = "store"
    /\ \/ saved' = TRUE /\ UNCHANGED alert
       \/ ShowAlertOnce("scan") /\ UNCHANGED saved
    /\ Leave(a)
    /\ UNCHANGED <<appState, isServerConnected, pairingDesktopName, mode,
                   transport, credential, device, approvedOnce, consent, effects>>
    /\ ScanEffect(scanner)

(* handleTrustedReconnect reads the claim before its first await and takes *)
(* it after.                                                               *)
HandleTrustedReconnect(a) ==
    /\ Free(a) /\ Offered /\ ~scanner.open
    /\ savedReceiver /\ ~connectionAttemptRef
    /\ attempt' = [attempt EXCEPT ![a] = [Idle EXCEPT !.kind = "trusted", !.at = "lookup"]]
    /\ UNCHANGED <<appState, scanner, alert, connectionAttemptRef, connectionVars,
                   transport, store, consent, effects>>

LookupCredential(a) ==
    /\ attempt[a].at = "lookup"
    /\ \/ /\ credential
          /\ connectionAttemptRef' = TRUE /\ isConnecting' = TRUE
          /\ Move(a, "configure") /\ UNCHANGED alert
       \/ /\ attempt' = [attempt EXCEPT ![a] = Idle]
          /\ ShowAlertOnce("info")
          /\ UNCHANGED <<connectionAttemptRef, isConnecting>>
    /\ UNCHANGED <<appState, scanner, isServerConnected, pairingDesktopName, mode,
                   transport, store, consent, effects>>

-----------------------------------------------------------------------------
(* The person at the receiver answers.  A credential revoked there later   *)
(* is one whose pings fail.                                                *)

ReceiverDecides ==
    /\ device = "pending" /\ device' \in {"approved", "refused"}
    /\ approvedOnce' = (approvedOnce \/ device' = "approved")
    /\ UNCHANGED <<appState, scanner, alert, connectionAttemptRef, connectionVars,
                   transport, saved, credential, consent, attempt, effects>>

-----------------------------------------------------------------------------
(* The health monitor.                                                     *)

(* The ping of the current monitor answers.                                *)
HealthAnswered ==
    /\ health.ping # "no"
    /\ isServerConnected' \in BOOLEAN
    /\ isServerConnected' => health.ping = "sent" /\ Accepted
    /\ LET failures == IF isServerConnected' THEN 0 ELSE health.failures + 1
       IN  health' = [failures |-> failures, ping |-> "no",
                      timer |-> failures < MaxFailures]
    /\ IF isServerConnected' THEN Verified ELSE UNCHANGED native
    /\ UNCHANGED <<appState, scanner, alert, connectionAttemptRef, isConnecting,
                   pairingDesktopName, mode, api, store, consent, attempt,
                   savedReceiver>>
    /\ RequestEffect

HealthTimer ==
    /\ health.timer
    /\ UNCHANGED <<appState, scanner, alert, connectionAttemptRef, connectionVars,
                   transport, store, consent, attempt, savedReceiver, requests>>
    /\ health' = Validate([health EXCEPT !.timer = FALSE])

(* The application returns to the foreground.                              *)
Foreground ==
    /\ appState \in Monitored
    /\ UNCHANGED <<appState, scanner, alert, connectionAttemptRef, connectionVars,
                   transport, store, consent, attempt, savedReceiver, requests>>
    /\ health' = Validate([health EXCEPT !.failures = 0, !.timer = FALSE])

(* The monitor has reported the connection lost and stopped pinging.       *)
Lost == health.failures = MaxFailures

(* retryConnection starts the monitor anew.                                *)
RetryConnection ==
    /\ appState = "home" /\ alert = "none" /\ Lost
    /\ UNCHANGED <<appState, scanner, alert, connectionAttemptRef, connectionVars,
                   transport, store, consent, attempt, savedReceiver, requests>>
    /\ health' = FreshMonitor

-----------------------------------------------------------------------------
(* Requests of the connection and the handler of authentication failures.  *)

RequestAnswered ==
    /\ requests
    /\ requests' = FALSE
    /\ Verified \/ UNCHANGED native
    /\ UNCHANGED <<appState, scanner, alert, connectionAttemptRef, connectionVars,
                   api, store, consent, attempt, savedReceiver, health>>

(* A history request or an upload is answered 401: whichever connection it *)
(* was sent on, the current one and the stored trust are given up. (Other  *)
(* requests may be in flight still.)                                       *)
AuthenticationFailure ==
    /\ requests \/ appState = "transfer"
    /\ Forget /\ MarkDisconnected
    /\ saved' = FALSE /\ appState' = "connect"
    /\ UNCHANGED <<alert, connectionAttemptRef, credential, device, approvedOnce,
                   consent, attempt>>
    /\ ScanEffect([scanner EXCEPT !.asked = FALSE])
    /\ MonitorEffect /\ SavedEffect
    /\ requests' \in {FALSE, requests}

-----------------------------------------------------------------------------
(* The user.  An alert is modal.                                           *)

Goto(screen) ==
    /\ appState' = screen
    /\ UNCHANGED <<alert, connectionAttemptRef, connectionVars, transport, store,
                   consent, attempt>>
    /\ Effects

SelectTab ==
    /\ appState \in Tabs /\ alert = "none" /\ ~scanner.open
    /\ \E tab \in Tabs \ {appState} : Goto(tab)

OpenPicker == appState \in Monitored /\ alert = "none" /\ isServerConnected /\ Goto("picker")
CancelPicker == appState = "picker" /\ alert = "none" /\ Goto("home")
HandleTransfer == appState = "picker" /\ alert = "none" /\ Goto("transfer")
LeaveTransfer == appState = "transfer" /\ alert = "none" /\ Goto("home")

HandleDisconnect ==
    /\ appState = "connect" /\ alert = "none" /\ ~scanner.open
    /\ isServerConnected /\ ~isConnecting
    /\ Forget /\ MarkDisconnected /\ httpConfirmed' = FALSE
    /\ appState' = "connect"
    /\ UNCHANGED <<alert, connectionAttemptRef, store, allowInsecureHttp, closing,
                   attempt>>
    /\ ScanEffect([scanner EXCEPT !.asked = FALSE]) /\ ShellEffects

DismissAlert ==
    /\ alert \in {"info", "scan", "allow"}
    /\ alert' = "none"
    /\ UNCHANGED <<appState, scanner, connectionAttemptRef, connectionVars,
                   transport, store, consent, attempt, effects>>

(* openQrScanner, and both buttons of the alert of a failed reconnection,  *)
(* give up the claim and show the connect screen; all but its Cancel start *)
(* the timer of the scan.                                                  *)
OpenQrScanner ==
    /\ alert \in {"scan", "reconnect"}
    /\ alert' = "none" /\ appState' = "connect"
    /\ connectionAttemptRef' = FALSE
    /\ isConnecting' = FALSE /\ pairingDesktopName' = FALSE
    /\ UNCHANGED <<isServerConnected, mode, transport, store, consent, attempt>>
    /\ \E due \in {TRUE, scanner.due} :
          /\ alert = "scan" => due
          /\ ScanEffect([scanner EXCEPT !.due = due])
    /\ ShellEffects

(* requestQrScan, half a second later: wherever the user is by then. The   *)
(* request follows as soon as the connect screen is shown.                 *)
RequestQrScan ==
    /\ scanner.due
    /\ appState' = "connect"
    /\ scanner' = [open |-> scanner.open \/ ~QrDisabled, due |-> FALSE, asked |-> TRUE]
    /\ UNCHANGED <<alert, connectionAttemptRef, connectionVars, transport, store,
                   consent, attempt>>
    /\ ShellEffects

AskAllowHttp ==
    /\ appState \in Tabs /\ alert = "none" /\ ~scanner.open /\ ~allowInsecureHttp
    /\ alert' = "allow"
    /\ UNCHANGED <<appState, scanner, connectionAttemptRef, connectionVars,
                   transport, store, consent, attempt, effects>>

AllowHttp ==
    /\ alert = "allow"
    /\ alert' = "none" /\ allowInsecureHttp' = TRUE
    /\ UNCHANGED <<appState, scanner, connectionAttemptRef, connectionVars,
                   transport, store, httpConfirmed, closing, attempt, effects>>

(* updateAllowInsecureHttp(false) up to the await of the preference; the   *)
(* mode it will look at is the one on screen now.                          *)
DisallowHttp ==
    /\ appState \in Tabs /\ alert = "none" /\ ~scanner.open /\ allowInsecureHttp
    /\ httpConfirmed' = FALSE /\ allowInsecureHttp' = FALSE
    /\ closing' = (closing \/ mode = "http")
    /\ UNCHANGED <<appState, scanner, alert, connectionAttemptRef, connectionVars,
                   transport, store, attempt, effects>>

CloseHttp ==
    /\ closing
    /\ closing' = FALSE
    /\ Forget /\ MarkDisconnected /\ appState' = "connect"
    /\ ShowAlertOnce("info")
    /\ UNCHANGED <<connectionAttemptRef, store, allowInsecureHttp, httpConfirmed,
                   attempt>>
    /\ Effects

-----------------------------------------------------------------------------
(* The awaits of an attempt settle; the answer to a question is the user's.*)
AttemptStep(a) ==
  /\ UNCHANGED taps
  /\ \/ Configured(a) \/ PinningUnavailable(a) \/ PingAnswered(a) \/ PingFails(a)
     \/ GetDeviceIdentity(a) \/ RequestPairing(a) \/ Poll(a)
     \/ CredentialAccepted(a) \/ CredentialRejected(a) \/ PauseOver(a)
     \/ SaveTrust(a) \/ Secured(a) \/ ConnectThrows(a)
     \/ ScanFirst(a) \/ ReadSaved(a) \/ StoreRefreshed(a) \/ LookupCredential(a)

(* What the user begins is bounded; what answers an alert or leaves a      *)
(* screen is not.                                                          *)
UserBegins ==
  /\ taps < MaxTaps /\ taps' = taps + 1
  /\ \/ StartScanning \/ RefuseTransport
     \/ \E a \in Attempts : \/ PairSecurely(a) \/ ConnectOverHttp(a)
                            \/ HandleDiscoveredServer(a) \/ HandleTrustedReconnect(a)
     \/ SelectTab \/ OpenPicker \/ HandleTransfer \/ HandleDisconnect
     \/ AskAllowHttp \/ DisallowHttp \/ RetryConnection \/ Foreground

UserAnswers ==
  /\ UNCHANGED taps
  /\ \/ StopScanning \/ CancelPicker \/ LeaveTransfer
     \/ \E a \in Attempts : AnswerConfirmation(a)
     \/ DismissAlert \/ OpenQrScanner \/ AllowHttp

MonitorStep == UNCHANGED taps /\ (HealthAnswered \/ HealthTimer)

OtherStep ==
  /\ UNCHANGED taps
  /\ \/ ReceiverDecides \/ CloseHttp
     \/ RequestAnswered \/ AuthenticationFailure \/ RequestQrScan

Next ==
    \/ \E a \in Attempts : AttemptStep(a)
    \/ MonitorStep
    \/ OtherStep
    \/ UserBegins
    \/ UserAnswers

Spec == Init /\ [][Next]_vars

FairSpec ==
    /\ Spec
    /\ \A a \in Attempts : WF_vars(AttemptStep(a))
    /\ WF_vars(MonitorStep)

-----------------------------------------------------------------------------
Kinds == {"none", "pair", "http", "discovered", "trusted"}
Stages == {"idle", "lookup", "read", "credential", "confirm", "configure", "ping",
           "identity", "request", "poll", "activate", "pause", "save", "state", "store"}

(* The variables keep their types; an alert that asks for consent has the  *)
(* attempt that waits for the answer, so no promise is left pending.       *)
TypeOK ==
    /\ appState \in Tabs \cup {"picker", "transfer"}
    /\ alert \in {"none", "info", "scan", "reconnect", "confirm", "allow"}
    /\ scanner \in Scanners
    /\ \A flag \in {connectionAttemptRef, isServerConnected, isConnecting,
                    pairingDesktopName, savedReceiver, credential, allowInsecureHttp,
                    httpConfirmed, closing, saved, requests,
                    approvedOnce} : flag \in BOOLEAN
    /\ mode \in {"disconnected", "https", "http"}
    /\ api \in [url : {"", "https", "http"}, token : {"", "session", "device"}]
    /\ native \in {"clear", "configured", "verified"}
    /\ device \in {"refused", "pending", "approved"}
    /\ attempt \in [Attempts -> [kind : Kinds, at : Stages, confirmed : BOOLEAN,
                                 tries : 0..(MaxPolls + MaxActivations)]]
    /\ health \in [failures : 0..MaxFailures, ping : {"no", "sent", "unsent"},
                   timer : BOOLEAN]
    /\ alert = "confirm" <=> \E a \in Attempts : attempt[a].at = "confirm"

Claimed == {a \in Attempts : attempt[a].at \notin {"idle", "lookup"}}

(* The busy indicators are never left behind: while isConnecting disables  *)
(* every way of connecting, or the approval banner is shown, an attempt    *)
(* that will clear them is running, whichever way the others ended.  Nor   *)
(* does the monitor fall silent on a tab of the dashboard unless it has    *)
(* reported the connection lost: a ping is in flight or one is scheduled.  *)
BusyIsReal ==
    /\ TypeOK
    /\ isConnecting => Claimed # {}
    /\ connectionAttemptRef => Claimed # {}
    /\ pairingDesktopName =>
         \E a \in Claimed : attempt[a].at \in {"poll", "activate", "pause", "save", "state"}
    /\ appState \in Monitored => Lost \/ health.ping # "no" \/ health.timer

(* The record of a receiver appears only for a credential the receiver has *)
(* approved, even if attempts overlap or the receiver revokes it in        *)
(* between; or a nearby reconnection, which had read it, stores it again   *)
(* after an authentication failure removed it.                             *)
TrustIsEarned ==
    [][~saved /\ saved' =>
         \/ approvedOnce
         \/ \E a \in Attempts : attempt[a].kind = "discovered" /\ attempt[a].at = "store"]_vars

(* An attempt does not leave the application busy for ever: it ends, or it *)
(* waits for the user to answer the HTTP question.                         *)
AttemptEnds == isConnecting ~> (~isConnecting \/ alert = "confirm")

(* When attempts, authentication failures and pings cross, the dashboard   *)
(* can show a connection although the client has no address any more; the  *)
(* monitor notices while it runs.  (After MaxFailures failures it has      *)
(* stopped, and an attempt that then completes does not restart it.)       *)
FalseConnectionIsCorrected ==
    (isServerConnected /\ api.url = "" /\ appState \in Monitored /\ ~Lost)
      ~> (~isServerConnected \/ api.url # "" \/ appState \notin Monitored)

(* docs/ux/IOS_TRANSFER_UX.md: "During preparation and upload the          *)
(* Transfers tab remains selected [...] Cancellation or terminal           *)
(* completion unlocks navigation."  The user's own acts (leaving, the answer *)
(* to an alert, turning HTTP off) and the handler of an authentication     *)
(* failure end the transfer; nothing else may.                             *)
TransferStaysOnScreen ==
    [][appState = "transfer" /\ appState' # "transfer"
         => LeaveTransfer \/ OpenQrScanner \/ CloseHttp \/ AuthenticationFailure]_vars

=============================================================================
