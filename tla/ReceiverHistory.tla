--------------------------- MODULE ReceiverHistory ---------------------------
(***************************************************************************)
(* The transfer history that a receiver keeps and the iPhone shows         *)
(* (useReceiverHistory, HistoryScreen).  Requests answer late; the user    *)
(* disconnects, reconnects, refreshes and deletes meanwhile.  An           *)
(* acknowledged deletion also clears the previews of ProblemPreviews,      *)
(* which change nothing here.                                              *)
(*                                                                         *)
(* The connection is abstract: Connection has the attempts that establish  *)
(* it.  Here an attempt points the application at a receiver (SetConfig)   *)
(* at any time, also while it is connected to another one: the address     *)
(* then changes under the connection, which is not an event for the        *)
(* history.  A definition marked "Wrong:" belongs to no specification.     *)
(***************************************************************************)
EXTENDS Integers, FiniteSets

CONSTANTS
    Receivers,      \* addresses of receivers
    MaxReported,    \* bound: transfers whose history is reported
    MaxRefreshes,   \* bound: requests for the history, and connections
    MaxDeletes      \* bound: times the history is deleted

VARIABLES
    url,            \* ApiClient's address, or none
    isConnected,
    transfers,      \* transfers so far
    posts,          \* reports of transfers in flight
    remote,         \* the sessions in the receivers' histories: <<receiver, transfer>>
    items,          \* the sessions on screen
    loading,
    requestId,
    refreshes,      \* requests for the history in flight
    confirming,     \* the receiver in the open question, or none
    deletions,      \* deletions in flight
    deletes,
    gone,           \* history: sessions whose deletion was acknowledged
    astray          \* history: 0, or the first request to come since the address
                    \* changed under the connection, until such a one has answered

connection == <<url, isConnected>>
screen == <<items, loading, requestId, refreshes>>
deletion == <<confirming, deletions, deletes, gone>>
historyVars == <<connection, transfers, posts, remote, screen, deletion, astray>>

NoScope == "none"

HistoryInit ==
    /\ url = NoScope /\ isConnected = FALSE
    /\ transfers = 0 /\ posts = {} /\ remote = {}
    /\ items = {} /\ loading = FALSE /\ requestId = 0 /\ refreshes = {}
    /\ confirming = NoScope /\ deletions = {} /\ deletes = 0 /\ gone = {}
    /\ astray = 0

-----------------------------------------------------------------------------
(* The connection.                                                         *)

\* refresh while connected: the answer to come is the one that counts.
Refresh(scope) ==
    /\ requestId < MaxRefreshes
    /\ requestId' = requestId + 1
    /\ refreshes' = refreshes \cup {[id |-> requestId + 1, scope |-> scope,
                                     at |-> "sent", answer |-> {}]}
    /\ loading' = TRUE
    /\ UNCHANGED items

\* An attempt points ApiClient at a receiver, whatever the app is connected to.
SetConfig(scope) ==
    /\ url' = scope
    /\ astray' = IF isConnected /\ url \notin {scope, NoScope} THEN requestId + 1
                 ELSE astray
    /\ UNCHANGED <<isConnected, transfers, posts, remote, screen, deletion>>

\* The attempt succeeds, or the monitor's ping was answered, which it may have
\* been by a receiver that is no longer the one in use.  The home and history
\* screens then ask for the history.
Connected ==
    /\ ~isConnected /\ requestId < MaxRefreshes
    /\ isConnected' = TRUE
    /\ Refresh(url) \/ UNCHANGED screen
    /\ UNCHANGED <<url, transfers, posts, remote, deletion, astray>>

\* Wrong: the request in flight still counts.
ForgetItems ==
    /\ items' = {} /\ loading' = FALSE /\ astray' = 0
    /\ UNCHANGED <<requestId, refreshes>>

\* Disconnecting invalidates what the receiver has sent or will send.
InvalidateItems ==
    /\ items' = {} /\ loading' = FALSE /\ astray' = 0
    /\ requestId' = requestId + 1
    /\ UNCHANGED refreshes

\* The user disconnects, an attempt fails, the receiver refuses the credential,
\* or the monitor reports the receiver lost.
Disconnect ==
    /\ isConnected
    /\ isConnected' = FALSE
    /\ url' \in {url, NoScope}
    /\ InvalidateItems
    /\ UNCHANGED <<transfers, posts, remote, deletion>>

\* The same while the app is not connected.
ForgetReceiver ==
    /\ ~isConnected /\ url # NoScope
    /\ url' = NoScope
    /\ UNCHANGED <<isConnected, transfers, posts, remote, screen, deletion, astray>>

-----------------------------------------------------------------------------
(* Transfers.                                                              *)

\* A report is sent to the receiver in use, whichever the transfer used.
Post(n, attempt) ==
    IF url = NoScope THEN {}
    ELSE {[scope |-> url, transfer |-> n, attempt |-> attempt]}

\* A transfer ends, on screen or after its cancellation, and is reported.
RecordTransferHistory ==
    /\ url # NoScope /\ transfers < MaxReported
    /\ transfers' = transfers + 1
    /\ posts' = posts \cup Post(transfers + 1, 1)
    /\ UNCHANGED <<connection, remote, screen, deletion, astray>>

PostAnswered(p) ==
    /\ posts' = posts \ {p}
    /\ remote' = remote \cup {<<p.scope, p.transfer>>}
    /\ UNCHANGED <<connection, transfers, screen, deletion, astray>>

\* The report or its answer is lost, and it is sent again, once and without
\* the files.
PostFails(p) ==
    /\ posts' = (posts \ {p}) \cup (IF p.attempt = 1 THEN Post(p.transfer, 2) ELSE {})
    /\ remote' \in {remote, remote \cup {<<p.scope, p.transfer>>}}
    /\ UNCHANGED <<connection, transfers, screen, deletion, astray>>

-----------------------------------------------------------------------------
(* The screen.                                                             *)

\* refresh, as the user pulls the list down or leaves a transfer.
RefreshHistory ==
    /\ \/ isConnected /\ Refresh(url) /\ UNCHANGED astray
       \/ ~isConnected /\ requestId < MaxRefreshes /\ InvalidateItems
    /\ UNCHANGED <<connection, transfers, posts, remote, deletion>>

ServerAnswers(r) ==
    /\ r.at = "sent" /\ r.scope # NoScope
    /\ refreshes' = (refreshes \ {r}) \cup
         {[r EXCEPT !.at = "answered", !.answer = {s \in remote : s[1] = r.scope}]}
    /\ UNCHANGED <<connection, transfers, posts, remote, items, loading,
                   requestId, deletion, astray>>

\* The answer, or the failure, of a request counts if it is the newest.
RefreshAnswered(r) ==
    /\ refreshes' = refreshes \ {r}
    /\ IF r.id = requestId
       THEN /\ loading' = FALSE
            /\ \/ UNCHANGED <<items, astray>>
               \/ /\ r.at = "answered"
                  /\ items' = r.answer
                  /\ astray' = IF r.id >= astray THEN 0 ELSE astray
       ELSE UNCHANGED <<loading, items, astray>>
    /\ UNCHANGED <<connection, transfers, posts, remote, requestId, deletion>>

-----------------------------------------------------------------------------
(* Deletion.                                                               *)

ConfirmClear ==
    /\ isConnected /\ items # {}
    /\ confirming = NoScope /\ deletes < MaxDeletes
    /\ confirming' = url /\ deletes' = deletes + 1
    /\ UNCHANGED <<connection, transfers, posts, remote, screen, deletions, gone, astray>>

\* The question is answered.  It is about the receiver it was asked for.
AnswerConfirm ==
    /\ confirming # NoScope
    /\ confirming' = NoScope
    /\ \/ UNCHANGED deletions
       \/ /\ url = confirming
          /\ deletions' = deletions \cup
               {[n |-> deletes, scope |-> url, at |-> "sent", sessions |-> {}]}
    /\ UNCHANGED <<connection, transfers, posts, remote, screen, deletes, gone, astray>>

\* A report that is still on its way may bring its session back, so the
\* deletion is final for the others only.
Reporting(n) == \E p \in posts : p.transfer = n

ServerDeletes(d) ==
    /\ d.at = "sent"
    /\ LET removed == {s \in remote : s[1] = d.scope}
           final   == {s \in removed : ~Reporting(s[2])}
       IN  /\ remote' = remote \ removed
           /\ deletions' = (deletions \ {d}) \cup
                {[d EXCEPT !.at = "done", !.sessions = final]}
    /\ UNCHANGED <<connection, transfers, posts, screen, confirming, deletes, gone,
                   astray>>

EmptyAndInvalidate == InvalidateItems

\* Acknowledged: the history is taken off the screen if its receiver is still
\* the one in use.
DeleteAnswered(d) ==
    /\ d.at = "done"
    /\ deletions' = deletions \ {d}
    /\ gone' = gone \cup d.sessions
    /\ IF url = d.scope THEN EmptyAndInvalidate ELSE UNCHANGED <<screen, astray>>
    /\ UNCHANGED <<connection, transfers, posts, remote, confirming, deletes>>

\* The request or its answer is lost: nothing changes here.
DeleteFails(d) ==
    /\ deletions' = deletions \ {d}
    /\ UNCHANGED <<connection, transfers, posts, remote, screen, confirming,
                   deletes, gone, astray>>

-----------------------------------------------------------------------------
HistoryNext ==
    \/ \E s \in Receivers : SetConfig(s)
    \/ Connected \/ Disconnect \/ ForgetReceiver
    \/ RecordTransferHistory \/ RefreshHistory
    \/ \E p \in posts : PostAnswered(p) \/ PostFails(p)
    \/ \E r \in refreshes : ServerAnswers(r) \/ RefreshAnswered(r)
    \/ ConfirmClear \/ AnswerConfirm
    \/ \E d \in deletions : ServerDeletes(d) \/ DeleteAnswered(d) \/ DeleteFails(d)

HistorySpec == HistoryInit /\ [][HistoryNext]_historyVars

-----------------------------------------------------------------------------
\* The history on screen is that of the receiver in use: an answer that
\* arrives after a disconnection, or after another receiver took its place, is
\* not shown.  The one exception is an address that changes while the app is
\* connected: the old receiver's history stays until a request made since then
\* has answered, or the app has disconnected (useReceiverHistory clears what it
\* shows on a disconnection only).
HistoryIsOfReceiver ==
    /\ ~isConnected => items = {}
    /\ astray = 0 => \A s \in items : s[1] = url

\* A session whose deletion was acknowledged is not on screen, even if a
\* refresh that was answered before the deletion ends after it.  (A session
\* that was still being reported when it was deleted may come back, and the
\* exception for an address that changes under the connection holds here too.)
DeletedStaysGone == astray = 0 => items \cap gone = {}

\* The indicator is on only while the request that turns it off is in flight.
LoadingIsReal == loading => \E r \in refreshes : r.id = requestId
=============================================================================
