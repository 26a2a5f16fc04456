----------------------------- MODULE AppProofs -----------------------------
(***************************************************************************)
(* The proofs about three parts of the iPhone application: the history of  *)
(* the receiver, the preferences with nearby discovery, and connecting.    *)
(* Each has its inductive invariant, the steps that keep it and the        *)
(* theorems that follow.                                                   *)
(***************************************************************************)
EXTENDS ReceiverHistory, AppPreferences, Connection, TLAPS

\* A leaf is for Zenon, with a minute of time, unless it names SMT.
USE ZenonT(60)

-----------------------------------------------------------------------------
(* The history of the receiver: the invariant *)

Addresses == Receivers \cup {NoScope}
HistorySessions == Addresses \X Nat
Deletions == [n : Nat, scope : Addresses, at : {"sent", "done"},
              sessions : SUBSET HistorySessions]

HistoryTypes ==
    /\ url \in Addresses /\ isConnected \in BOOLEAN /\ loading \in BOOLEAN
    /\ transfers \in Nat /\ requestId \in Nat /\ astray \in Nat /\ deletes \in Nat
    /\ posts \subseteq [scope : Addresses, transfer : Nat, attempt : {1, 2}]
    /\ remote \subseteq HistorySessions
    /\ items \subseteq HistorySessions /\ gone \subseteq HistorySessions
    /\ refreshes \subseteq [id : Nat, scope : Addresses, at : {"sent", "answered"},
                            answer : SUBSET HistorySessions]
    /\ deletions \subseteq Deletions

\* The request whose answer is shown, and is not from before the address
\* changed under the connection.
Counts(r) == r.id = requestId /\ r.id >= astray

\* A request that counts is one to the receiver in use, or fails for want of
\* an address; an answer holds sessions of the receiver that was asked.
RequestsAreSound ==
    /\ astray <= requestId + 1
    /\ ~isConnected => astray = 0
    /\ \A r \in refreshes : r.id <= requestId
    /\ \A r \in refreshes : r.id = requestId => isConnected
    /\ \A r \in refreshes : Counts(r) => r.scope \in {url, NoScope}
    /\ \A r \in refreshes : \A s \in r.answer : s[1] = r.scope /\ r.scope # NoScope
    /\ \A s \in items : s[1] # NoScope

\* The sessions whose deletion is final, acknowledged or not.
Final == gone \cup UNION {d.sessions : d \in deletions}

\* A transfer is numbered once, and once its deletion is final it is neither
\* being reported nor on the receiver, nor in an answer that counts.
DeletionIsSound ==
    /\ \A s \in remote \cup Final : s[2] <= transfers
    /\ \A p \in posts : p.transfer <= transfers
    /\ Final \cap remote = {}
    /\ \A s \in Final : ~Reporting(s[2])
    /\ \A d \in deletions : \A s \in d.sessions : s[1] = d.scope
    /\ \A r \in refreshes : Counts(r) => r.answer \cap gone = {}

HistoryInv ==
    /\ HistoryTypes
    /\ RequestsAreSound
    /\ DeletionIsSound
    /\ HistoryIsOfReceiver
    /\ DeletedStaysGone
    /\ LoadingIsReal

-----------------------------------------------------------------------------
\* A disconnected app that shows nothing satisfies the invariant.
LEMMA HistoryInitInv == HistoryInit => HistoryInv
<1> SUFFICES ASSUME HistoryInit PROVE HistoryInv
  OBVIOUS
<1>1. HistoryTypes
  <2>1. 0 \in Nat
    BY ONLY SMTT(60)
  <2> QED BY <2>1 DEF HistoryInit, HistoryTypes, Addresses
<1>2. RequestsAreSound
  BY SMTT(60) DEF HistoryInit, RequestsAreSound
<1>3. DeletionIsSound
  BY DEF HistoryInit, DeletionIsSound, Final
<1>4. HistoryIsOfReceiver /\ DeletedStaysGone /\ LoadingIsReal
  BY DEF HistoryInit, HistoryIsOfReceiver, DeletedStaysGone, LoadingIsReal
<1> QED BY <1>1, <1>2, <1>3, <1>4 DEF HistoryInv

\* A new request is the only one that counts.
LEMMA RefreshKeeps ==
    ASSUME HistoryInv, Refresh(url), isConnected', UNCHANGED url,
           UNCHANGED <<transfers, posts, remote, deletion, astray>>
    PROVE  HistoryInv'
<1> USE DEF HistoryInv, Refresh, deletion
<1> DEFINE r0 == [id |-> requestId + 1, scope |-> url, at |-> "sent", answer |-> {}]
<1>1. /\ refreshes' = refreshes \cup {r0} /\ requestId' = requestId + 1
      /\ r0.id = requestId' /\ r0.scope = url /\ r0.answer = {}
  OBVIOUS
<1>2. requestId \in Nat /\ astray \in Nat /\ astray <= requestId + 1
  BY DEF HistoryTypes, RequestsAreSound
<1>3. requestId' \in Nat /\ astray <= requestId' + 1
  BY ONLY SMTT(60), <1>1, <1>2
<1>4. \A r \in refreshes : r.id # requestId' /\ r.id <= requestId'
  <2> SUFFICES ASSUME NEW r \in refreshes PROVE r.id # requestId' /\ r.id <= requestId'
    OBVIOUS
  <2>1. r.id \in Nat /\ r.id <= requestId
    BY DEF HistoryTypes, RequestsAreSound
  <2> QED BY ONLY SMTT(60), <1>1, <1>2, <2>1
<1>5. r0 \in [id : Nat, scope : Addresses, at : {"sent", "answered"},
              answer : SUBSET HistorySessions]
  BY <1>1, <1>3 DEF HistoryTypes
<1>6. r0.id <= requestId'
  BY ONLY SMTT(60), <1>1, <1>3
<1> HIDE DEF r0
<1>7. HistoryTypes'
  BY <1>1, <1>3, <1>5 DEF HistoryTypes
<1>8. RequestsAreSound'
  BY <1>1, <1>3, <1>4, <1>6 DEF RequestsAreSound, Counts
<1>9. DeletionIsSound'
  BY <1>1, <1>4 DEF DeletionIsSound, Final, Reporting, Counts
<1>10. HistoryIsOfReceiver' /\ DeletedStaysGone'
  BY DEF HistoryIsOfReceiver, DeletedStaysGone
<1>11. LoadingIsReal'
  BY <1>1 DEF LoadingIsReal
<1> QED BY <1>7, <1>8, <1>9, <1>10, <1>11

\* Once what was shown is invalidated, no request counts.
LEMMA InvalidateKeeps ==
    ASSUME HistoryInv, InvalidateItems, url' \in Addresses, isConnected' \in BOOLEAN,
           UNCHANGED <<transfers, posts, remote, deletes>>,
           deletions' \subseteq deletions,
           gone' \subseteq Final, gone \subseteq gone'
    PROVE  HistoryInv'
<1> USE DEF HistoryInv, InvalidateItems
<1>1. /\ transfers' = transfers /\ posts' = posts /\ remote' = remote /\ astray' = 0
      /\ items' = {} /\ loading' = FALSE /\ refreshes' = refreshes /\ deletes' = deletes
      /\ requestId' = requestId + 1
  OBVIOUS
<1>2. requestId \in Nat
  BY DEF HistoryTypes
<1>3. requestId' \in Nat /\ astray' <= requestId' + 1 /\ astray' \in Nat
  BY ONLY SMTT(60), <1>1, <1>2
<1>4. \A r \in refreshes' : r.id # requestId' /\ r.id <= requestId'
  <2> SUFFICES ASSUME NEW r \in refreshes PROVE r.id # requestId' /\ r.id <= requestId'
    BY <1>1
  <2>1. r.id \in Nat /\ r.id <= requestId
    BY DEF HistoryTypes, RequestsAreSound
  <2> QED BY ONLY SMTT(60), <1>1, <1>2, <2>1
<1>5. Final \subseteq HistorySessions
  BY DEF HistoryTypes, Final, Deletions
<1>6. HistoryTypes'
  BY <1>1, <1>3, <1>5 DEF HistoryTypes
<1>7. RequestsAreSound' /\ LoadingIsReal'
  BY <1>1, <1>3, <1>4 DEF RequestsAreSound, LoadingIsReal, Counts
<1>8. Final' \subseteq Final
  BY DEF Final
<1>9. DeletionIsSound'
  BY <1>1, <1>4, <1>8 DEF DeletionIsSound, Reporting, Counts
<1>10. HistoryIsOfReceiver' /\ DeletedStaysGone'
  BY <1>1 DEF HistoryIsOfReceiver, DeletedStaysGone
<1> QED BY <1>6, <1>7, <1>9, <1>10

-----------------------------------------------------------------------------
\* Steps that leave alone what the app has asked, shows and deletes.
LEMMA QuietSteps ==
    ASSUME HistoryInv, url' \in Addresses, isConnected' \in BOOLEAN,
           UNCHANGED <<transfers, posts, remote, screen, deletion, astray>>,
           isConnected => url' = url /\ isConnected'
    PROVE  HistoryInv'
<1> USE DEF HistoryInv, screen, deletion
<1>1. HistoryTypes'
  BY DEF HistoryTypes
<1>2. RequestsAreSound' /\ LoadingIsReal'
  BY DEF RequestsAreSound, LoadingIsReal, Counts, HistoryTypes
<1>3. DeletionIsSound'
  BY DEF DeletionIsSound, Final, Reporting, Counts
<1>4. HistoryIsOfReceiver' /\ DeletedStaysGone'
  BY DEF HistoryIsOfReceiver, DeletedStaysGone, HistoryTypes
<1> QED BY <1>1, <1>2, <1>3, <1>4

\* An address that changes under a connection: no request made so far counts.
LEMMA SetConfigKeeps ==
    ASSUME HistoryInv, NEW scope \in Receivers, SetConfig(scope)
    PROVE  HistoryInv'
<1> USE DEF HistoryInv, screen, deletion
<1>1. /\ url' = scope /\ url' \in Addresses /\ isConnected \in BOOLEAN
      /\ UNCHANGED <<isConnected, transfers, posts, remote, screen, deletion>>
  BY DEF SetConfig, Addresses, HistoryTypes
<1>2. CASE ~isConnected
  BY <1>1, <1>2, QuietSteps DEF SetConfig
<1>3. CASE isConnected /\ url = scope
  BY <1>1, <1>3, QuietSteps DEF SetConfig
<1>4. CASE isConnected /\ url = NoScope /\ url # scope
  <2>1. astray' = astray
    BY <1>4 DEF SetConfig
  <2>2. HistoryTypes'
    BY <1>1, <2>1 DEF HistoryTypes
  <2>3. RequestsAreSound'
    BY <1>1, <1>4, <2>1 DEF RequestsAreSound, Counts
  <2>4. DeletionIsSound' /\ LoadingIsReal' /\ DeletedStaysGone'
    BY <1>1, <2>1 DEF DeletionIsSound, Final, Reporting, Counts, LoadingIsReal, DeletedStaysGone
  <2>5. HistoryIsOfReceiver'
    BY <1>1, <1>4, <2>1 DEF HistoryIsOfReceiver, RequestsAreSound
  <2> QED BY <2>2, <2>3, <2>4, <2>5
<1>5. CASE isConnected /\ url \notin {scope, NoScope}
  <2>1. astray' = requestId + 1 /\ requestId' = requestId /\ requestId \in Nat
    BY <1>1, <1>5 DEF SetConfig, HistoryTypes
  <2>2. astray' \in Nat /\ astray' <= requestId' + 1 /\ astray' # 0
    BY ONLY SMTT(60), <2>1
  <2>3. \A r \in refreshes' : ~Counts(r)'
    <3> SUFFICES ASSUME NEW r \in refreshes PROVE ~Counts(r)'
      BY <1>1
    <3>1. r.id \in Nat
      BY DEF HistoryTypes
    <3>2. ~(r.id = requestId' /\ r.id >= astray')
      BY ONLY SMTT(60), <2>1, <3>1
    <3> QED BY <3>2 DEF Counts
  <2>4. HistoryTypes'
    BY <1>1, <2>2 DEF HistoryTypes
  <2>5. RequestsAreSound' /\ LoadingIsReal'
    BY <1>1, <1>5, <2>2, <2>3 DEF RequestsAreSound, LoadingIsReal
  <2>6. DeletionIsSound'
    BY <1>1, <2>3 DEF DeletionIsSound, Final, Reporting
  <2>7. HistoryIsOfReceiver' /\ DeletedStaysGone'
    BY <1>1, <1>5, <2>2 DEF HistoryIsOfReceiver, DeletedStaysGone
  <2> QED BY <2>4, <2>5, <2>6, <2>7
<1> QED BY <1>1, <1>2, <1>3, <1>4, <1>5

\* Connecting, disconnecting and refreshing.
LEMMA ConnectionSteps ==
    ASSUME HistoryInv,
           (\E s \in Receivers : SetConfig(s)) \/ Connected \/ Disconnect \/ ForgetReceiver
               \/ RefreshHistory
    PROVE  HistoryInv'
<1> USE DEF HistoryInv
<1>1. CASE \E s \in Receivers : SetConfig(s)
  BY <1>1, SetConfigKeeps
<1>2. CASE Connected
  <2>1. CASE Refresh(url)
    BY <1>2, <2>1, RefreshKeeps DEF Connected
  <2>2. CASE UNCHANGED screen
    BY <1>2, <2>2, QuietSteps DEF Connected, HistoryTypes
  <2> QED BY <1>2, <2>1, <2>2 DEF Connected
<1>3. CASE Disconnect
  <2>1. /\ url' \in Addresses /\ isConnected' \in BOOLEAN /\ InvalidateItems
        /\ UNCHANGED <<transfers, posts, remote, deletion>>
    BY <1>3 DEF Disconnect, HistoryTypes, Addresses
  <2> QED BY <2>1, InvalidateKeeps DEF deletion, Final
<1>4. CASE ForgetReceiver
  BY <1>4, QuietSteps DEF ForgetReceiver, HistoryTypes, Addresses
<1>5. CASE RefreshHistory
  <2>1. CASE isConnected /\ Refresh(url) /\ UNCHANGED astray
    BY <1>5, <2>1, RefreshKeeps DEF RefreshHistory, connection
  <2>2. CASE InvalidateItems
    <3>1. /\ url' \in Addresses /\ isConnected' \in BOOLEAN
          /\ UNCHANGED <<transfers, posts, remote, deletion>>
      BY <1>5 DEF RefreshHistory, connection, HistoryTypes
    <3> QED BY <2>2, <3>1, InvalidateKeeps DEF deletion, Final
  <2> QED BY <1>5, <2>1, <2>2 DEF RefreshHistory
<1> QED BY <1>1, <1>2, <1>3, <1>4, <1>5

\* Reports of transfers: only one that is being reported reaches a receiver,
\* and a new one has a new number.
LEMMA ReportSteps ==
    ASSUME HistoryInv,
           RecordTransferHistory \/ \E p \in posts : PostAnswered(p) \/ PostFails(p)
    PROVE  HistoryInv'
<1> USE DEF HistoryInv, connection, screen, deletion
<1>1. CASE RecordTransferHistory
  <2> DEFINE new == [scope |-> url, transfer |-> transfers + 1, attempt |-> 1]
  <2>1. /\ posts' = posts \cup {new} /\ transfers' = transfers + 1
        /\ UNCHANGED <<connection, remote, screen, deletion, astray>>
    BY <1>1 DEF RecordTransferHistory, Post
  <2>2. new.transfer = transfers + 1
        /\ new \in [scope : Addresses, transfer : Nat, attempt : {1, 2}]
    BY SMTT(60) DEF HistoryTypes
  <2> HIDE DEF new
  <2>3. HistoryTypes'
    BY <2>1, <2>2 DEF HistoryTypes
  <2>4. DeletionIsSound'
    <3>0. Final' = Final
      BY <2>1 DEF Final
    <3>1. \A s \in remote \cup Final :
             s[2] \in Nat /\ s[2] <= transfers /\ s[2] # new.transfer
      BY SMTT(60), <2>2 DEF DeletionIsSound, Reporting, HistoryTypes, HistorySessions, Final, Deletions
    <3>2. \A s \in Final' : ~Reporting(s[2])'
      BY <2>1, <3>0, <3>1 DEF DeletionIsSound, Reporting
    <3>3. /\ \A s \in remote' \cup Final' : s[2] <= transfers'
          /\ \A p \in posts' : p.transfer <= transfers'
      <4>1. transfers \in Nat
        BY DEF HistoryTypes
      <4>2. transfers' = transfers + 1 /\ new.transfer <= transfers'
        BY SMTT(60), <2>1, <2>2, <4>1
      <4>3. \A n \in Nat : n <= transfers => n <= transfers'
        BY SMTT(60), <4>1, <4>2
      <4>4. \A s \in remote' \cup Final' : s[2] <= transfers'
        BY <2>1, <3>0, <3>1, <4>3
      <4>5. \A p \in posts : p.transfer \in Nat /\ p.transfer <= transfers
        BY DEF HistoryTypes, DeletionIsSound
      <4> QED BY <2>1, <4>2, <4>3, <4>4, <4>5
    <3> QED BY <2>1, <3>0, <3>2, <3>3 DEF DeletionIsSound, Counts
  <2> QED
    BY <2>1, <2>3, <2>4 DEF RequestsAreSound, HistoryIsOfReceiver, DeletedStaysGone,
                            LoadingIsReal, Counts
<1>2. ASSUME NEW p \in posts, PostAnswered(p) \/ PostFails(p) PROVE HistoryInv'
  <2> DEFINE again == [scope |-> url, transfer |-> p.transfer, attempt |-> 2]
             s0 == <<p.scope, p.transfer>>
  <2>1. /\ posts' \subseteq posts \cup {again}
        /\ remote' \subseteq remote \cup {s0}
        /\ UNCHANGED <<connection, transfers, screen, deletion, astray>>
    BY <1>2 DEF PostAnswered, PostFails, Post
  <2>2. /\ again.transfer = p.transfer
        /\ again \in [scope : Addresses, transfer : Nat, attempt : {1, 2}]
        /\ s0 \in HistorySessions /\ s0[2] = p.transfer
    BY DEF HistoryTypes, HistorySessions
  <2> HIDE DEF again, s0
  <2>3. HistoryTypes'
    BY <2>1, <2>2 DEF HistoryTypes
  <2>4. DeletionIsSound'
    <3>0. Final' = Final
      BY <2>1 DEF Final
    <3>1. \A s \in Final : s[2] # p.transfer
      BY DEF DeletionIsSound, Reporting
    <3>2. \A s \in Final' : ~Reporting(s[2])'
      BY <2>1, <2>2, <3>0, <3>1 DEF DeletionIsSound, Reporting
    <3>3. /\ \A s \in remote' \cup Final' : s[2] <= transfers'
          /\ \A q \in posts' : q.transfer <= transfers'
      BY <2>1, <2>2, <3>0 DEF DeletionIsSound
    <3>4. Final' \cap remote' = {}
      BY <2>1, <2>2, <3>0, <3>1 DEF DeletionIsSound
    <3> QED BY <2>1, <3>0, <3>2, <3>3, <3>4 DEF DeletionIsSound, Counts
  <2> QED
    BY <2>1, <2>3, <2>4 DEF RequestsAreSound, HistoryIsOfReceiver, DeletedStaysGone,
                            LoadingIsReal, Counts
<1> QED BY <1>1, <1>2

\* Answers to requests.
LEMMA AnswerSteps ==
    ASSUME HistoryInv, NEW r \in refreshes, ServerAnswers(r) \/ RefreshAnswered(r)
    PROVE  HistoryInv'
<1> USE DEF HistoryInv, connection, deletion
<1>1. CASE ServerAnswers(r)
  <2> DEFINE a == [r EXCEPT !.at = "answered", !.answer = {s \in remote : s[1] = r.scope}]
  <2>1. /\ refreshes' = (refreshes \ {r}) \cup {a} /\ r.scope # NoScope
        /\ UNCHANGED <<url, isConnected, transfers, posts, remote, items, loading, requestId,
                       confirming, deletions, deletes, gone, astray>>
    BY <1>1 DEF ServerAnswers
  <2>2. /\ a.id = r.id /\ a.scope = r.scope
        /\ a.answer = {s \in remote : s[1] = r.scope}
        /\ a \in [id : Nat, scope : Addresses, at : {"sent", "answered"},
                  answer : SUBSET HistorySessions]
    BY DEF HistoryTypes
  <2> HIDE DEF a
  <2>3. HistoryTypes'
    BY <2>1, <2>2 DEF HistoryTypes
  <2>4. RequestsAreSound'
    BY <2>1, <2>2 DEF RequestsAreSound, Counts
  <2>5. DeletionIsSound'
    BY <2>1, <2>2 DEF DeletionIsSound, Final, Reporting, Counts
  <2>6. LoadingIsReal'
    BY <2>1, <2>2 DEF LoadingIsReal
  <2> QED BY <2>1, <2>3, <2>4, <2>5, <2>6 DEF HistoryIsOfReceiver, DeletedStaysGone
<1>2. CASE RefreshAnswered(r)
  <2>1. /\ refreshes' = refreshes \ {r}
        /\ UNCHANGED <<url, isConnected, transfers, posts, remote, requestId, confirming,
                       deletions, deletes, gone>>
    BY <1>2 DEF RefreshAnswered
  <2>2. CASE /\ UNCHANGED <<items, astray>>
             /\ loading' = FALSE \/ (r.id # requestId /\ UNCHANGED loading)
    <3>1. HistoryTypes'
      BY <2>1, <2>2 DEF HistoryTypes
    <3>2. RequestsAreSound'
      BY <2>1, <2>2 DEF RequestsAreSound, Counts
    <3>3. DeletionIsSound'
      <4>1. Final' = Final /\ \A n : Reporting(n)' <=> Reporting(n)
        BY <2>1 DEF Final, Reporting
      <4> QED BY <2>1, <2>2, <4>1 DEF DeletionIsSound, Counts
    <3>4. HistoryIsOfReceiver' /\ DeletedStaysGone'
      BY <2>1, <2>2 DEF HistoryIsOfReceiver, DeletedStaysGone
    <3>5. LoadingIsReal'
      <4>1. CASE loading' = FALSE
        BY <4>1 DEF LoadingIsReal
      <4>2. CASE r.id # requestId /\ loading' = loading
        <5>1. ASSUME loading PROVE \E q \in refreshes' : q.id = requestId
          BY <2>1, <4>2, <5>1 DEF LoadingIsReal
        <5> QED BY <2>1, <4>2, <5>1 DEF LoadingIsReal
      <4> QED BY <2>2, <4>1, <4>2
    <3> QED BY <3>1, <3>2, <3>3, <3>4, <3>5
  <2>3. CASE /\ r.id = requestId /\ loading' = FALSE /\ items' = r.answer
             /\ astray' = IF r.id >= astray THEN 0 ELSE astray
    <3>1. requestId \in Nat /\ astray \in Nat /\ astray <= requestId + 1
      BY DEF HistoryTypes, RequestsAreSound
    <3>2. astray' \in Nat /\ astray' <= requestId' + 1
      BY SMTT(60), <2>1, <2>3, <3>1
    <3>3. astray' = 0 => Counts(r)
      <4>1. requestId >= 0
        BY ONLY SMTT(60), <3>1
      <4> QED BY <2>3, <4>1 DEF Counts
    <3>4. \A q \in refreshes' : q \in refreshes /\ (Counts(q)' => Counts(q))
      BY <2>1, <2>3 DEF Counts
    <3>5. HistoryTypes'
      BY <2>1, <2>3, <3>2 DEF HistoryTypes
    <3>6. RequestsAreSound' /\ LoadingIsReal'
      <4>1. ~isConnected => astray' = 0
        BY <2>3 DEF RequestsAreSound
      <4>2. \A s \in items' : s[1] # NoScope
        BY <2>3 DEF RequestsAreSound
      <4>3. \A q \in refreshes' : q.id <= requestId /\ (q.id = requestId => isConnected)
        BY <2>1 DEF RequestsAreSound
      <4>4. \A q \in refreshes' : Counts(q)' => q.scope \in {url, NoScope}
        BY <3>4 DEF RequestsAreSound
      <4>5. \A q \in refreshes' : \A s \in q.answer : s[1] = q.scope /\ q.scope # NoScope
        BY <2>1 DEF RequestsAreSound
      <4> QED BY <2>1, <2>3, <3>2, <4>1, <4>2, <4>3, <4>4, <4>5 DEF RequestsAreSound, LoadingIsReal
    <3>7. DeletionIsSound'
      <4>1. Final' = Final /\ \A n : Reporting(n)' <=> Reporting(n)
        BY <2>1 DEF Final, Reporting
      <4> QED BY <2>1, <3>4, <4>1 DEF DeletionIsSound
    <3>8. HistoryIsOfReceiver' /\ DeletedStaysGone'
      BY <2>1, <2>3, <3>3 DEF HistoryIsOfReceiver, DeletedStaysGone, RequestsAreSound,
                              DeletionIsSound
    <3> QED BY <3>5, <3>6, <3>7, <3>8
  <2> QED BY <1>2, <2>2, <2>3 DEF RefreshAnswered
<1> QED BY <1>1, <1>2

\* The deletion, from the question to its acknowledgement.
LEMMA DeletionSteps ==
    ASSUME HistoryInv,
           ConfirmClear \/ AnswerConfirm
               \/ \E d \in deletions : ServerDeletes(d) \/ DeleteAnswered(d) \/ DeleteFails(d)
    PROVE  HistoryInv'
<1> USE DEF HistoryInv
<1>1. ASSUME UNCHANGED <<connection, transfers, posts, screen, gone, astray>>,
             remote' \subseteq remote, deletes' \in Nat,
             deletions' \subseteq Deletions,
             \A d \in deletions' : \A s \in d.sessions :
                /\ s[1] = d.scope
                /\ s \in Final \/ (s \in remote /\ s \notin remote' /\ ~Reporting(s[2]))
      PROVE  HistoryInv'
  <2> USE <1>1 DEF connection, screen
  <2>1. \A s \in Final' : s \in Final \/ (s \in remote /\ s \notin remote' /\ ~Reporting(s[2]))
    BY DEF Final
  <2>2. DeletionIsSound'
    BY <2>1 DEF DeletionIsSound, Reporting, Counts
  <2>3. HistoryTypes' /\ RequestsAreSound'
    BY DEF HistoryTypes, RequestsAreSound, Counts
  <2> QED BY <2>2, <2>3 DEF HistoryIsOfReceiver, DeletedStaysGone, LoadingIsReal
<1>2. \A d \in deletions : \A s \in d.sessions : s[1] = d.scope /\ s \in Final
  BY DEF DeletionIsSound, Final
<1>3. deletions \subseteq Deletions /\ deletes \in Nat /\ url \in Addresses
  BY DEF HistoryTypes
<1>4. CASE ConfirmClear
  <2>1. deletes' \in Nat
    BY SMTT(60), <1>3, <1>4 DEF ConfirmClear
  <2> QED BY <1>1, <1>2, <1>3, <1>4, <2>1 DEF ConfirmClear
<1>5. CASE AnswerConfirm
  <2> DEFINE d0 == [n |-> deletes, scope |-> url, at |-> "sent", sessions |-> {}]
  <2>1. /\ deletions' \subseteq deletions \cup {d0} /\ deletes' = deletes /\ remote' = remote
        /\ UNCHANGED <<connection, transfers, posts, screen, gone, astray>>
    BY <1>5 DEF AnswerConfirm
  <2>2. d0 \in Deletions /\ d0.sessions = {}
    BY <1>3 DEF Deletions
  <2> HIDE DEF d0
  <2> QED BY <1>1, <1>2, <1>3, <2>1, <2>2
<1>6. ASSUME NEW d \in deletions, ServerDeletes(d) PROVE HistoryInv'
  <2> DEFINE removed == {s \in remote : s[1] = d.scope}
             final == {s \in removed : ~Reporting(s[2])}
             e == [d EXCEPT !.at = "done", !.sessions = final]
  <2>1. /\ remote' = remote \ removed /\ deletes' = deletes
        /\ deletions' = (deletions \ {d}) \cup {e}
        /\ UNCHANGED <<connection, transfers, posts, screen, gone, astray>>
    BY <1>6 DEF ServerDeletes
  <2>2. e.scope = d.scope /\ e.sessions = final /\ e \in Deletions
    BY <1>3 DEF HistoryTypes, Deletions
  <2> HIDE DEF e
  <2> QED BY <1>1, <1>2, <1>3, <2>1, <2>2
<1>7. ASSUME NEW d \in deletions, DeleteAnswered(d) PROVE HistoryInv'
  <2>1. /\ deletions' = deletions \ {d} /\ gone' = gone \cup d.sessions
        /\ UNCHANGED <<url, isConnected, transfers, posts, remote, deletes>>
        /\ isConnected \in BOOLEAN
    BY <1>7 DEF DeleteAnswered, connection, HistoryTypes
  <2>2. gone' \subseteq Final /\ Final' \subseteq Final
    BY <2>1 DEF Final
  <2>3. CASE url = d.scope
    <3>1. InvalidateItems
      BY <1>7, <2>3 DEF DeleteAnswered, EmptyAndInvalidate
    <3> QED BY <1>3, <2>1, <2>2, <3>1, InvalidateKeeps
  <2>4. CASE url # d.scope
    <3>1. UNCHANGED <<items, loading, requestId, refreshes, astray>>
      BY <1>7, <2>4 DEF DeleteAnswered, screen
    <3>2. HistoryTypes'
      BY <1>3, <2>1, <2>2, <3>1 DEF HistoryTypes, Deletions
    <3>3. RequestsAreSound' /\ LoadingIsReal' /\ HistoryIsOfReceiver'
      BY <2>1, <3>1 DEF RequestsAreSound, LoadingIsReal, HistoryIsOfReceiver, Counts
    <3>4. \A r \in refreshes' : Counts(r)' => r.answer \cap gone' = {}
      <4> SUFFICES ASSUME NEW r \in refreshes, Counts(r), NEW s \in r.answer, s \in gone'
                   PROVE  FALSE
        BY <3>1 DEF Counts
      <4>1. s[1] = url
        BY DEF RequestsAreSound
      <4>2. s \in d.sessions
        BY <2>1 DEF DeletionIsSound
      <4> QED BY <1>2, <2>4, <4>1, <4>2
    <3>5. DeletionIsSound'
      BY <2>1, <2>2, <3>1, <3>4 DEF DeletionIsSound, Reporting
    <3>6. DeletedStaysGone'
      BY <1>2, <2>1, <2>4, <3>1 DEF DeletedStaysGone, HistoryIsOfReceiver
    <3> QED BY <3>2, <3>3, <3>5, <3>6
  <2> QED BY <2>3, <2>4
<1>8. ASSUME NEW d \in deletions, DeleteFails(d) PROVE HistoryInv'
  <2>1. /\ deletions' \subseteq deletions /\ deletes' = deletes /\ remote' = remote
        /\ UNCHANGED <<connection, transfers, posts, screen, gone, astray>>
    BY <1>8 DEF DeleteFails
  <2> QED BY <1>1, <1>2, <1>3, <2>1
<1> QED BY <1>4, <1>5, <1>6, <1>7, <1>8

-----------------------------------------------------------------------------
(* The theorems *)

\* HistoryInv is an invariant of the history screen.
THEOREM HistoryInvariant == HistorySpec => []HistoryInv
<1>1. HistoryInv /\ [HistoryNext]_historyVars => HistoryInv'
  <2> SUFFICES ASSUME HistoryInv, [HistoryNext]_historyVars PROVE HistoryInv'
    OBVIOUS
  <2>1. CASE UNCHANGED historyVars
    <3>1. /\ UNCHANGED <<url, isConnected, transfers, posts, remote, items, loading, requestId>>
          /\ UNCHANGED <<refreshes, deletions, deletes, gone, astray>>
      BY <2>1 DEF historyVars, connection, screen, deletion
    <3>2. HistoryTypes' /\ RequestsAreSound'
      BY <3>1 DEF HistoryInv, HistoryTypes, RequestsAreSound, Counts
    <3>3. DeletionIsSound'
      BY <3>1 DEF HistoryInv, DeletionIsSound, Final, Reporting, Counts
    <3>4. HistoryIsOfReceiver' /\ DeletedStaysGone' /\ LoadingIsReal'
      BY <3>1 DEF HistoryInv, HistoryIsOfReceiver, DeletedStaysGone, LoadingIsReal
    <3> QED BY <3>2, <3>3, <3>4 DEF HistoryInv
  <2> QED
    BY <2>1, ConnectionSteps, ReportSteps, AnswerSteps, DeletionSteps DEF HistoryNext
<1> QED BY <1>1, HistoryInitInv, PTL DEF HistorySpec

\* The history on screen is that of the receiver in use, or, after the address
\* changed under the connection, that of an earlier one until a request made
\* since has answered (refresh, and the effect of useReceiverHistory).
THEOREM ShownHistoryIsOfReceiver == HistorySpec => []HistoryIsOfReceiver
<1>1. HistoryInv => HistoryIsOfReceiver
  BY DEF HistoryInv
<1> QED BY <1>1, HistoryInvariant, PTL

\* A session whose deletion was acknowledged is never shown again, with the same
\* exception for an address that changed under the connection (confirmClear).
THEOREM DeletedSessionsStayGone == HistorySpec => []DeletedStaysGone
<1>1. HistoryInv => DeletedStaysGone
  BY DEF HistoryInv
<1> QED BY <1>1, HistoryInvariant, PTL

\* The indicator is never left on (refresh, confirmClear).
THEOREM IndicatorIsReal == HistorySpec => []LoadingIsReal
<1>1. HistoryInv => LoadingIsReal
  BY DEF HistoryInv
<1> QED BY <1>1, HistoryInvariant, PTL

-----------------------------------------------------------------------------
(* AppPreferences: the invariant *)

LastWrite(p) == writeChain[p][Len(writeChain[p])]

\* A transfer preference: the newest write not yet done is of the last choice,
\* and until a preference is chosen the storage and the value in use are as the
\* launch found them.
TransferPreferenceGood(p) ==
    /\ (p \in touched \/ hydration[p].at = "done") => shown[p] = chosen[p]
    /\ writeChain[p] = <<>> /\ p \notin lost => Stored(p) = chosen[p]
    /\ writeChain[p] # <<>> => LastWrite(p) = chosen[p]
    /\ p \notin touched =>
         /\ writeChain[p] = <<>> /\ p \notin lost
         /\ hydration[p].at = "read" => hydration[p].value = disk[p]
         /\ hydration[p].at # "done" => shown[p] = "off"

\* Nearby discovery, as long as no choice of it has met the load, another write
\* or a failure: one write at most is not done, and it is of the last choice.
NearbyGood ==
    /\ Nearby \notin lost
    /\ shown[Nearby] = "on" => chosen[Nearby] = "on"
    /\ writeChain[Nearby] = <<>> => Stored(Nearby) = chosen[Nearby]
    /\ writeChain[Nearby] # <<>> => writeChain[Nearby] = <<chosen[Nearby]>>
    /\ hydration[Nearby].at \in {"sent", "read"} => writeChain[Nearby] = <<>>
    /\ hydration[Nearby].at = "read" => hydration[Nearby].value = disk[Nearby]

PreferenceTypes ==
    /\ shown \in [Preferences -> OnOff] /\ chosen \in [Preferences -> OnOff]
    /\ disk \in [Preferences -> OnOff \cup {"absent"}]
    /\ hydration \in [Preferences -> [at : {"sent", "read", "done", "failed"},
                                      value : OnOff \cup {"absent"}]]
    /\ writeChain \in [Preferences -> Seq(OnOff)]
    /\ touched \subseteq Preferences /\ lost \subseteq Preferences
    /\ discoveries \in 0..MaxDiscoveries
    /\ raced \in BOOLEAN

PreferenceInv ==
    /\ PreferenceTypes
    /\ \A p \in TransferPreferences : TransferPreferenceGood(p)
    /\ ~raced => NearbyGood

-----------------------------------------------------------------------------
(* The chains *)

\* A choice joins the end of its chain of writes.
LEMMA ChainGrows ==
  ASSUME NEW S, NEW s \in Seq(S), NEW v \in S, NEW a, a = Append(s, v)
  PROVE  a \in Seq(S) /\ a # <<>> /\ a[Len(a)] = v /\ (s = <<>> => a = <<v>>)
<1>1. a \in Seq(S) /\ Len(a) = Len(s) + 1 /\ Len(s) \in Nat
  BY SMTT(60)
<1>2. a[Len(s) + 1] = v
  BY SMTT(60)
<1>3. a # <<>> /\ a[Len(a)] = v
  BY SMTT(60), <1>1, <1>2
<1>4. s = <<>> => a = <<v>>
  BY SMTT(60)
<1> QED BY <1>1, <1>3, <1>4

\* A write that ends leaves the chain; when the first does, the last choice stays
\* the last of the chain.
LEMMA ChainShrinks ==
  ASSUME NEW S, NEW s \in Seq(S), NEW i \in DOMAIN s, NEW r, r = WithoutWrite(s, i)
  PROVE  /\ r \in Seq(S)
         /\ Len(r) = Len(s) - 1
         /\ r = <<>> => i = Len(s)
         /\ i = 1 /\ r # <<>> => r[Len(r)] = s[Len(s)]
<1> DEFINE a == SubSeq(s, 1, i-1)
           b == SubSeq(s, i+1, Len(s))
<1>1. i \in 1 .. Len(s) /\ Len(s) \in Nat
  BY SMTT(60)
<1>2. a \in Seq(S) /\ Len(a) = i - 1
  BY SMTT(60), <1>1
<1>3. b \in Seq(S) /\ Len(b) = Len(s) - i /\ \A k \in 1 .. Len(b) : b[k] = s[i + k]
  <2>1. b \in Seq(S) /\ Len(b) = Len(s) - i
    BY ONLY SMTT(60), s \in Seq(S), <1>1
  <2>2. \A k \in 1 .. Len(s) - i : b[k] = s[i + k]
    BY ONLY SMTT(60), s \in Seq(S), <1>1
  <2> HIDE DEF b
  <2> QED BY <2>1, <2>2
<1>4. r = a \o b
  BY DEF WithoutWrite
<1> HIDE DEF a, b
<1>5. r \in Seq(S) /\ Len(r) = Len(s) - 1
  BY ONLY SMTT(60), <1>1, <1>2, <1>3, <1>4
<1>6. r = <<>> => i = Len(s)
  BY SMTT(60), <1>1, <1>5
<1>7. i = 1 /\ r # <<>> => r[Len(r)] = s[Len(s)]
  BY ONLY SMTT(60), <1>1, <1>2, <1>3, <1>4, <1>5
<1> QED BY <1>5, <1>6, <1>7

-----------------------------------------------------------------------------
(* The steps *)

\* What a step leaves of one preference.
Untouched(p) ==
    /\ shown'[p] = shown[p] /\ chosen'[p] = chosen[p]
    /\ disk'[p] = disk[p] /\ hydration'[p] = hydration[p]
    /\ writeChain'[p] = writeChain[p]
    /\ (p \in touched' <=> p \in touched) /\ (p \in lost' <=> p \in lost)

\* A step that leaves a transfer preference alone keeps what holds of it.
LEMMA PreferenceKept ==
  ASSUME NEW p, TransferPreferenceGood(p), Untouched(p)
  PROVE  TransferPreferenceGood(p)'
  BY DEF TransferPreferenceGood, Untouched, Stored, LastWrite

\* A step that leaves nearby discovery alone keeps what holds of it.
LEMMA NearbyKept ==
  ASSUME NearbyGood, Untouched(Nearby)
  PROVE  NearbyGood'
  BY DEF NearbyGood, Untouched, Stored

\* The searches started and not ended stay within the bound.
LEMMA DiscoveryBounded ==
  ASSUME PreferenceAssumption, discoveries \in 0..MaxDiscoveries,
         DiscoveryEffect \/ PerformDiscovery \/ UNCHANGED discoveries
  PROVE  discoveries' \in 0..MaxDiscoveries
  BY SMTT(60) DEF PreferenceAssumption, DiscoveryEffect, PerformDiscovery

\* Steps of the discovery and of the question change no preference.
LEMMA NoChoiceStep ==
  ASSUME PreferenceAssumption, PreferenceInv, UNCHANGED <<values, storage, ghosts>>,
         \/ Navigate \/ DiscoverServers \/ DiscoveryEnds \/ UNCHANGED discoveries
  PROVE  PreferenceInv'
<1>1. \A p : Untouched(p)
  BY DEF Untouched, values, storage, ghosts
<1>2. discoveries' \in 0..MaxDiscoveries
  <2>1. discoveries \in 0..MaxDiscoveries
    BY DEF PreferenceInv, PreferenceTypes
  <2>2. CASE DiscoveryEnds
    BY SMTT(60), <2>1, <2>2 DEF DiscoveryEnds, PreferenceAssumption
  <2> QED BY <2>1, <2>2, DiscoveryBounded DEF Navigate, DiscoverServers
<1>3. PreferenceTypes'
  BY <1>2 DEF PreferenceInv, PreferenceTypes, values, storage, ghosts
<1>4. \A p \in TransferPreferences : TransferPreferenceGood(p)'
  BY <1>1, PreferenceKept DEF PreferenceInv
<1>5. ~raced' => NearbyGood'
  BY <1>1, NearbyKept DEF PreferenceInv, ghosts
<1> QED BY <1>3, <1>4, <1>5 DEF PreferenceInv

\* A step about preference p leaves the others alone.
LEMMA OnePreference ==
  ASSUME PreferenceInv, PreferenceTypes', NEW p \in Preferences,
         \A q \in Preferences \ {p} : Untouched(q),
         p \in TransferPreferences => TransferPreferenceGood(p)' /\ raced' = raced,
         p = Nearby => (~raced' => NearbyGood'),
         PreferenceAssumption
  PROVE  PreferenceInv'
<1>1. \A q \in TransferPreferences : TransferPreferenceGood(q)'
  BY PreferenceKept DEF PreferenceInv, Preferences
<1>2. CASE p = Nearby
  BY <1>1, <1>2 DEF PreferenceInv
<1>3. CASE p \in TransferPreferences
  <2>1. Untouched(Nearby)
    BY <1>3 DEF PreferenceAssumption, Preferences
  <2>2. ~raced' => NearbyGood'
    BY <1>3, <2>1, NearbyKept DEF PreferenceInv
  <2> QED BY <1>1, <2>2 DEF PreferenceInv
<1> QED BY <1>2, <1>3 DEF Preferences

\* The load of a preference reads what is stored then.
LEMMA ReadStep ==
  ASSUME PreferenceAssumption, PreferenceInv, NEW p \in Preferences, ReadPreference(p)
  PROVE  PreferenceInv'
<1>1. /\ UNCHANGED <<shown, touched, disk, writeChain, chosen, lost, raced, discoveries>>
      /\ hydration[p].at = "sent"
      /\ hydration' = [hydration EXCEPT ![p] = [at |-> "read", value |-> disk[p]]]
  BY DEF ReadPreference, values, ghosts
<1>2. PreferenceTypes
  BY DEF PreferenceInv
<1>3. hydration'[p].at = "read" /\ hydration'[p].value = disk[p]
  BY <1>1, <1>2 DEF PreferenceTypes
<1>4. PreferenceTypes'
  BY ONLY SMTT(60), <1>1, <1>2, p \in Preferences DEF PreferenceTypes
<1>5. \A q \in Preferences \ {p} : Untouched(q)
  BY <1>1, <1>2 DEF Untouched, PreferenceTypes
<1>6. p \in TransferPreferences => TransferPreferenceGood(p)'
  BY <1>1, <1>3 DEF PreferenceInv, TransferPreferenceGood, Stored, LastWrite
<1>7. p = Nearby => (~raced' => NearbyGood')
  <2>1. ~raced => NearbyGood
    BY DEF PreferenceInv
  <2> QED BY <1>1, <1>3, <2>1 DEF NearbyGood, Stored
<1> QED BY <1>1, <1>4, <1>5, <1>6, <1>7, OnePreference

\* A load that answers late does not undo a choice.
LEMMA LoadedStep ==
  ASSUME PreferenceAssumption, PreferenceInv, NEW p \in Preferences, PreferenceLoaded(p)
  PROVE  PreferenceInv'
<1>1. /\ UNCHANGED <<touched, disk, writeChain, chosen, lost, raced>>
      /\ hydration[p].at = "read"
      /\ hydration' = [hydration EXCEPT ![p].at = "done"]
      /\ shown' = [shown EXCEPT ![p] = Loaded(p)]
  BY DEF PreferenceLoaded, ghosts
<1>2. PreferenceTypes /\ discoveries' \in 0..MaxDiscoveries
  <2>1. PreferenceTypes
    BY DEF PreferenceInv
  <2> QED BY <2>1, DiscoveryBounded DEF PreferenceLoaded, PreferenceTypes
<1>3. hydration'[p].at = "done" /\ shown'[p] = Loaded(p)
  BY <1>1, <1>2 DEF PreferenceTypes
<1>4. Loaded(p) \in OnOff
  BY <1>2 DEF PreferenceTypes, Loaded, OnOff
<1>5. PreferenceTypes'
  BY ONLY ZenonT(60), <1>1, <1>2, <1>4, p \in Preferences DEF PreferenceTypes
<1>6. \A q \in Preferences \ {p} : Untouched(q)
  BY <1>1, <1>2 DEF Untouched, PreferenceTypes
<1>7. ASSUME p \in TransferPreferences PROVE TransferPreferenceGood(p)'
  <2>1. TransferPreferenceGood(p) /\ p # Nearby
    BY <1>7 DEF PreferenceInv, PreferenceAssumption
  <2>2. Loaded(p) = chosen[p]
    BY <1>1, <2>1 DEF TransferPreferenceGood, Loaded, Stored, Default
  <2> QED BY <1>1, <1>3, <2>1, <2>2 DEF TransferPreferenceGood, Stored, LastWrite
<1>8. ASSUME p = Nearby, ~raced' PROVE NearbyGood'
  <2>1. NearbyGood
    BY <1>1, <1>8 DEF PreferenceInv
  <2>2. Loaded(p) = "on" => chosen[p] = "on"
    BY <1>1, <1>8, <2>1 DEF NearbyGood, Loaded, Stored
  <2> QED BY <1>1, <1>3, <1>8, <2>1, <2>2 DEF NearbyGood, Stored
<1> QED BY <1>1, <1>5, <1>6, <1>7, <1>8, OnePreference

\* A load that fails shows nearby discovery as off and changes nothing else of it.
LEMMA LoadRejectedStep ==
  ASSUME PreferenceAssumption, PreferenceInv, NEW p \in Preferences, LoadRejected(p)
  PROVE  PreferenceInv'
<1>1. /\ UNCHANGED <<touched, disk, writeChain, chosen, lost, raced>>
      /\ hydration[p].at = "sent"
      /\ hydration' = [hydration EXCEPT ![p].at = "failed"]
      /\ shown' = IF p = Nearby THEN [shown EXCEPT ![p] = "off"] ELSE shown
  BY DEF LoadRejected, ghosts
<1>2. PreferenceTypes /\ discoveries' \in 0..MaxDiscoveries
  <2>1. PreferenceTypes
    BY DEF PreferenceInv
  <2> QED BY <2>1, DiscoveryBounded DEF LoadRejected, PreferenceTypes
<1>3. hydration'[p].at = "failed" /\ shown'[p] = (IF p = Nearby THEN "off" ELSE shown[p])
  BY <1>1, <1>2 DEF PreferenceTypes
<1>4. PreferenceTypes'
  BY ONLY ZenonT(60), <1>1, <1>2, p \in Preferences DEF PreferenceTypes, OnOff
<1>5. \A q \in Preferences \ {p} : Untouched(q)
  BY <1>1, <1>2 DEF Untouched, PreferenceTypes
<1>6. ASSUME p \in TransferPreferences PROVE TransferPreferenceGood(p)'
  <2>1. TransferPreferenceGood(p) /\ p # Nearby
    BY <1>6 DEF PreferenceInv, PreferenceAssumption
  <2> QED BY <1>1, <1>3, <2>1 DEF TransferPreferenceGood, Stored, LastWrite
<1>7. ASSUME p = Nearby, ~raced' PROVE NearbyGood'
  <2>1. NearbyGood
    BY <1>1, <1>7 DEF PreferenceInv
  <2> QED BY SMTT(60), <1>1, <1>3, <1>7, <2>1 DEF NearbyGood, Stored
<1> QED BY <1>1, <1>4, <1>5, <1>6, <1>7, OnePreference

\* A choice is shown, and is the last write of its chain.
LEMMA ChoiceEffect ==
  ASSUME PreferenceInv, NEW p \in Preferences, NEW v \in OnOff,
         Choose(p, v), Written(p, v), discoveries' \in 0..MaxDiscoveries, raced' \in BOOLEAN
  PROVE  /\ PreferenceTypes'
         /\ \A q \in Preferences \ {p} : Untouched(q)
         /\ UNCHANGED <<disk, hydration, lost>>
         /\ shown'[p] = v /\ chosen'[p] = v /\ p \in touched'
         /\ writeChain'[p] = Append(writeChain[p], v)
<1>1. /\ UNCHANGED <<disk, hydration, lost>>
      /\ shown' = [shown EXCEPT ![p] = v] /\ chosen' = [chosen EXCEPT ![p] = v]
      /\ touched' = touched \cup {p}
      /\ writeChain' = [writeChain EXCEPT ![p] = Append(@, v)]
  BY DEF Choose, Written
<1>2. PreferenceTypes
  BY DEF PreferenceInv
<1>3. Append(writeChain[p], v) \in Seq(OnOff)
  <2>1. writeChain[p] \in Seq(OnOff)
    BY <1>2 DEF PreferenceTypes
  <2> QED BY <2>1, ChainGrows
<1>4. PreferenceTypes'
  BY ONLY SMTT(60), <1>1, <1>2, <1>3, p \in Preferences, v \in OnOff, discoveries' \in 0..MaxDiscoveries,
     raced' \in BOOLEAN DEF PreferenceTypes
<1>5. \A q \in Preferences \ {p} : Untouched(q)
  BY <1>1, <1>2 DEF Untouched, PreferenceTypes
<1>6. /\ shown'[p] = v /\ chosen'[p] = v /\ p \in touched'
      /\ writeChain'[p] = Append(writeChain[p], v)
  BY <1>1, <1>2 DEF PreferenceTypes
<1> QED BY <1>1, <1>4, <1>5, <1>6

\* A choice of a transfer preference is shown at once and its write is chained.
LEMMA PersistStep ==
  ASSUME PreferenceAssumption, PreferenceInv, NEW p \in TransferPreferences, NEW v \in OnOff,
         PersistPreference(p, v)
  PROVE  PreferenceInv'
<1>1. p \in Preferences /\ p # Nearby
  BY DEF Preferences, PreferenceAssumption
<1>2. PreferenceTypes /\ raced' = raced /\ Choose(p, v) /\ Written(p, v)
  BY DEF PreferenceInv, PersistPreference
<1>3. discoveries' \in 0..MaxDiscoveries /\ raced' \in BOOLEAN
  BY <1>2 DEF PersistPreference, PreferenceTypes
<1>4. /\ PreferenceTypes'
      /\ \A q \in Preferences \ {p} : Untouched(q)
      /\ shown'[p] = v /\ chosen'[p] = v /\ p \in touched'
      /\ writeChain'[p] = Append(writeChain[p], v)
  BY <1>1, <1>2, <1>3, ChoiceEffect
<1>5. writeChain'[p] # <<>> /\ writeChain'[p][Len(writeChain'[p])] = v
  <2>1. writeChain[p] \in Seq(OnOff)
    BY <1>1, <1>2 DEF PreferenceTypes
  <2> QED BY SMTT(60), <1>4, <2>1, ChainGrows
<1>6. TransferPreferenceGood(p)'
  BY <1>4, <1>5 DEF TransferPreferenceGood, LastWrite
<1> QED BY <1>1, <1>2, <1>4, <1>6, OnePreference

\* A choice of nearby discovery that meets nothing is the only write.
LEMMA PersistNearbyStep ==
  ASSUME PreferenceAssumption, PreferenceInv, NEW v \in OnOff, PersistNearbyDiscovery(v)
  PROVE  PreferenceInv'
<1>1. Nearby \in Preferences /\ Nearby \notin TransferPreferences
  BY DEF Preferences, PreferenceAssumption
<1>2. /\ PreferenceTypes /\ Choose(Nearby, v) /\ Written(Nearby, v)
      /\ raced' = (raced \/ hydration[Nearby].at \in {"sent", "read"}
                         \/ writeChain[Nearby] # <<>>)
  BY DEF PreferenceInv, PersistNearbyDiscovery
<1>3. discoveries' \in 0..MaxDiscoveries
  BY <1>2, DiscoveryBounded DEF PersistNearbyDiscovery, PreferenceTypes
<1>4. raced' \in BOOLEAN
  BY <1>2
<1>5. /\ PreferenceTypes'
      /\ \A q \in Preferences \ {Nearby} : Untouched(q)
      /\ UNCHANGED <<disk, hydration, lost>>
      /\ shown'[Nearby] = v /\ chosen'[Nearby] = v
      /\ writeChain'[Nearby] = Append(writeChain[Nearby], v)
  BY <1>1, <1>2, <1>3, <1>4, ChoiceEffect
<1>6. ASSUME ~raced' PROVE NearbyGood'
  <2>1. /\ NearbyGood /\ writeChain[Nearby] = <<>>
        /\ ~(hydration[Nearby].at \in {"sent", "read"})
    BY <1>2, <1>6 DEF PreferenceInv
  <2>2. writeChain'[Nearby] # <<>> /\ writeChain'[Nearby] = <<v>>
    <3>1. writeChain[Nearby] \in Seq(OnOff)
      BY <1>1, <1>2 DEF PreferenceTypes
    <3> QED BY SMTT(60), <1>5, <2>1, <3>1, ChainGrows
  <2>3. hydration'[Nearby].at # "read"
    BY <1>5, <2>1
  <2> QED BY <1>5, <2>1, <2>2, <2>3 DEF NearbyGood
<1> QED BY <1>1, <1>5, <1>6, OnePreference

\* What a write that ends leaves of its chain.
LEMMA WriteEnds ==
  ASSUME PreferenceTypes, NEW p \in Preferences, NEW i \in NextWrite(p),
         writeChain' = [writeChain EXCEPT ![p] = WithoutWrite(@, i)]
  PROVE  /\ writeChain' \in [Preferences -> Seq(OnOff)]
         /\ writeChain[p] # <<>> /\ writeChain[p][i] \in OnOff
         /\ Len(writeChain'[p]) = Len(writeChain[p]) - 1
         /\ writeChain'[p] = <<>> => i = Len(writeChain[p])
         /\ p # Nearby /\ writeChain'[p] # <<>> =>
              writeChain'[p][Len(writeChain'[p])] = writeChain[p][Len(writeChain[p])]
         /\ \A q \in Preferences \ {p} : writeChain'[q] = writeChain[q]
<1>1. PICK s, r : s = writeChain[p] /\ r = WithoutWrite(s, i)
  OBVIOUS
<1>2. s \in Seq(OnOff) /\ writeChain \in [Preferences -> Seq(OnOff)]
  BY <1>1 DEF PreferenceTypes
<1>3. i \in DOMAIN s /\ (p # Nearby => i = 1)
  BY <1>1 DEF NextWrite
<1>4. /\ r \in Seq(OnOff)
      /\ Len(r) = Len(s) - 1
      /\ r = <<>> => i = Len(s)
      /\ i = 1 /\ r # <<>> => r[Len(r)] = s[Len(s)]
  BY SMTT(60), <1>1, <1>2, <1>3, ChainShrinks
<1>5. s # <<>> /\ s[i] \in OnOff
  BY SMTT(60), <1>2, <1>3
<1>6. /\ writeChain' \in [Preferences -> Seq(OnOff)] /\ writeChain'[p] = r
      /\ \A q \in Preferences \ {p} : writeChain'[q] = writeChain[q]
  BY <1>1, <1>2, <1>4
<1> QED BY <1>1, <1>3, <1>4, <1>5, <1>6

\* A write that ends has stored its value, which is the last choice when no other
\* write follows.
LEMMA WriteDoneStep ==
  ASSUME PreferenceAssumption, PreferenceInv, NEW p \in Preferences, NEW i \in NextWrite(p),
         WriteDone(p, i)
  PROVE  PreferenceInv'
<1>1. /\ UNCHANGED <<shown, touched, hydration, chosen, raced, discoveries>>
      /\ disk' = [disk EXCEPT ![p] = writeChain[p][i]]
      /\ writeChain' = [writeChain EXCEPT ![p] = WithoutWrite(@, i)]
      /\ lost' = lost \ {p}
  BY DEF WriteDone, values
<1>2. PreferenceTypes
  BY DEF PreferenceInv
<1>3. /\ writeChain' \in [Preferences -> Seq(OnOff)]
      /\ writeChain[p] # <<>> /\ writeChain[p][i] \in OnOff
      /\ Len(writeChain'[p]) = Len(writeChain[p]) - 1
      /\ writeChain'[p] = <<>> => i = Len(writeChain[p])
      /\ p # Nearby /\ writeChain'[p] # <<>> =>
           writeChain'[p][Len(writeChain'[p])] = writeChain[p][Len(writeChain[p])]
      /\ \A q \in Preferences \ {p} : writeChain'[q] = writeChain[q]
  BY <1>1, <1>2, WriteEnds
<1>4. disk' \in [Preferences -> OnOff \cup {"absent"}] /\ disk'[p] = writeChain[p][i]
  BY <1>1, <1>2, <1>3 DEF PreferenceTypes
<1>5. PreferenceTypes'
  BY <1>1, <1>2, <1>3, <1>4 DEF PreferenceTypes
<1>6. \A q \in Preferences \ {p} : Untouched(q)
  BY <1>1, <1>2, <1>3 DEF Untouched, PreferenceTypes
<1>7. Stored(p)' = writeChain[p][i]
  <2>1. "absent" \notin OnOff
    BY DEF OnOff
  <2> QED BY <1>3, <1>4, <2>1 DEF Stored
<1>8. ASSUME p \in TransferPreferences PROVE TransferPreferenceGood(p)'
  <2>1. TransferPreferenceGood(p) /\ p # Nearby
    BY <1>8 DEF PreferenceInv, PreferenceAssumption
  <2>2. p \in touched /\ LastWrite(p) = chosen[p]
    BY <1>3, <2>1 DEF TransferPreferenceGood
  <2>3. writeChain'[p] = <<>> => Stored(p)' = chosen[p]
    BY <1>3, <1>7, <2>2 DEF LastWrite
  <2>4. writeChain'[p] # <<>> => LastWrite(p)' = chosen[p]
    BY <1>3, <2>1, <2>2 DEF LastWrite
  <2> QED BY <1>1, <2>1, <2>2, <2>3, <2>4 DEF TransferPreferenceGood
<1>9. ASSUME p = Nearby, ~raced' PROVE NearbyGood'
  <2>1. NearbyGood /\ writeChain[p] = <<chosen[p]>>
    BY <1>1, <1>3, <1>9 DEF PreferenceInv, NearbyGood
  <2>2. writeChain'[p] = <<>> /\ i = 1
    <3>1. Len(writeChain'[p]) = 0 /\ writeChain'[p] \in Seq(OnOff)
      BY SMTT(60), <1>3, <2>1
    <3>2. writeChain'[p] = <<>> /\ Len(writeChain[p]) = 1
      BY SMTT(60), <2>1, <3>1
    <3> QED BY <1>3, <3>2
  <2>3. Stored(p)' = chosen[p]
    BY SMTT(60), <1>7, <2>1, <2>2
  <2>4. hydration[Nearby].at \notin {"sent", "read"}
    BY <1>3, <1>9, <2>1 DEF NearbyGood
  <2> QED BY <1>1, <1>9, <2>1, <2>2, <2>3, <2>4 DEF NearbyGood
<1> QED BY <1>1, <1>5, <1>6, <1>8, <1>9, OnePreference

\* A write that fails leaves what is stored: its preference counts as lost until
\* another write of it is done.
LEMMA WriteRejectedStep ==
  ASSUME PreferenceAssumption, PreferenceInv, NEW p \in Preferences, NEW i \in NextWrite(p),
         WriteRejected(p, i)
  PROVE  PreferenceInv'
<1>1. /\ UNCHANGED <<shown, touched, disk, hydration, chosen, discoveries>>
      /\ writeChain' = [writeChain EXCEPT ![p] = WithoutWrite(@, i)]
      /\ lost' = lost \cup {p} /\ raced' = (raced \/ p = Nearby)
  BY DEF WriteRejected, values
<1>2. PreferenceTypes
  BY DEF PreferenceInv
<1>3. /\ writeChain' \in [Preferences -> Seq(OnOff)] /\ writeChain[p] # <<>>
      /\ p # Nearby /\ writeChain'[p] # <<>> =>
           writeChain'[p][Len(writeChain'[p])] = writeChain[p][Len(writeChain[p])]
      /\ \A q \in Preferences \ {p} : writeChain'[q] = writeChain[q]
  BY <1>1, <1>2, WriteEnds
<1>4. PreferenceTypes'
  BY <1>1, <1>2, <1>3 DEF PreferenceTypes
<1>5. \A q \in Preferences \ {p} : Untouched(q)
  BY <1>1, <1>2, <1>3 DEF Untouched, PreferenceTypes
<1>6. ASSUME p \in TransferPreferences PROVE TransferPreferenceGood(p)' /\ raced' = raced
  <2>1. TransferPreferenceGood(p) /\ p # Nearby
    BY <1>6 DEF PreferenceInv, PreferenceAssumption
  <2>2. p \in touched /\ LastWrite(p) = chosen[p]
    BY <1>3, <2>1 DEF TransferPreferenceGood
  <2>3. writeChain'[p] # <<>> => LastWrite(p)' = chosen[p]
    BY <1>3, <2>1, <2>2 DEF LastWrite
  <2>4. p \in lost' /\ raced' = raced
    BY <1>1, <1>2, <2>1 DEF PreferenceTypes
  <2> QED BY <1>1, <2>1, <2>2, <2>3, <2>4 DEF TransferPreferenceGood
<1>7. p = Nearby => raced'
  BY <1>1
<1> QED BY <1>4, <1>5, <1>6, <1>7, OnePreference

\* What was stored when the app was killed is what it starts with.
LEMMA RelaunchStep ==
  ASSUME PreferenceAssumption, PreferenceInv, RelaunchApp
  PROVE  PreferenceInv'
<1>1. /\ disk' = disk /\ shown' = Default /\ touched' = {} /\ lost' = {} /\ discoveries' = 0
      /\ hydration' = [p \in Preferences |-> Unread]
      /\ writeChain' = [p \in Preferences |-> <<>>]
      /\ chosen' = [p \in Preferences |->
                      IF p \in lost \/ writeChain[p] # <<>> THEN Stored(p) ELSE chosen[p]]
      /\ raced' = (raced \/ writeChain[Nearby] # <<>>)
  BY DEF RelaunchApp
<1>2. PreferenceTypes
  BY DEF PreferenceInv
<1>3. \A p \in Preferences :
        /\ Stored(p) \in OnOff /\ Stored(p)' = Stored(p)
        /\ shown'[p] = "off" /\ hydration'[p].at = "sent" /\ writeChain'[p] = <<>>
  BY <1>1, <1>2 DEF PreferenceTypes, Stored, Default, Unread, OnOff
<1>4. PreferenceTypes'
  <2>1. shown' \in [Preferences -> OnOff] /\ "absent" \in OnOff \cup {"absent"}
    BY <1>1 DEF Default, OnOff
  <2>2. chosen' \in [Preferences -> OnOff]
    BY <1>1, <1>2, <1>3 DEF PreferenceTypes
  <2>3. hydration' \in [Preferences -> [at : {"sent", "read", "done", "failed"},
                                        value : OnOff \cup {"absent"}]]
    BY <1>1 DEF Unread
  <2>4. writeChain' \in [Preferences -> Seq(OnOff)]
    BY SMTT(60), <1>1
  <2>5. discoveries' \in 0..MaxDiscoveries
    BY SMTT(60), <1>1 DEF PreferenceAssumption
  <2>6. raced' \in BOOLEAN /\ touched' \subseteq Preferences /\ lost' \subseteq Preferences
    BY <1>1
  <2> QED BY <1>1, <1>2, <2>1, <2>2, <2>3, <2>4, <2>5, <2>6 DEF PreferenceTypes
<1>5. ASSUME NEW p \in TransferPreferences PROVE TransferPreferenceGood(p)'
  <2>1. p \in Preferences /\ TransferPreferenceGood(p)
    BY DEF Preferences, PreferenceInv
  <2>2. chosen'[p] = Stored(p)
    BY <1>1, <2>1 DEF TransferPreferenceGood
  <2>3. p \notin touched' /\ p \notin lost'
    BY <1>1
  <2> QED BY <1>3, <2>1, <2>2, <2>3 DEF TransferPreferenceGood
<1>6. ASSUME ~raced' PROVE NearbyGood'
  <2>1. NearbyGood /\ writeChain[Nearby] = <<>>
    BY <1>1, <1>6 DEF PreferenceInv
  <2>2. Nearby \in Preferences /\ Nearby \notin lost'
    BY <1>1 DEF Preferences
  <2>3. chosen'[Nearby] = Stored(Nearby)
    BY <1>1, <2>1, <2>2 DEF NearbyGood
  <2> QED BY <1>3, <2>2, <2>3 DEF NearbyGood
<1> QED BY <1>4, <1>5, <1>6 DEF PreferenceInv

\* Every step keeps the invariant of the preferences.
LEMMA PreferenceStep ==
  ASSUME PreferenceAssumption, PreferenceInv, [PreferenceNext]_preferenceVars
  PROVE  PreferenceInv'
<1>1. CASE UNCHANGED preferenceVars
  BY <1>1, NoChoiceStep DEF preferenceVars, values, storage, ghosts
<1>2. CASE Navigate \/ DiscoverServers \/ DiscoveryEnds
  BY <1>2, NoChoiceStep DEF Navigate, DiscoverServers, DiscoveryEnds
<1>3. CASE AskForNearby
  BY <1>3, NoChoiceStep DEF AskForNearby
<1>4. CASE TurnOffNearby \/ AnswerNearby
  <2>1. "on" \in OnOff /\ "off" \in OnOff
    BY DEF OnOff
  <2>2. CASE UNCHANGED <<values, storage, ghosts, discoveries>>
    BY <2>2, NoChoiceStep
  <2> QED BY <1>4, <2>1, <2>2, PersistNearbyStep DEF TurnOffNearby, AnswerNearby
<1>5. ASSUME NEW p \in TransferPreferences, NEW v \in OnOff, PersistPreference(p, v)
      PROVE  PreferenceInv'
  BY <1>5, PersistStep
<1>6. ASSUME NEW p \in Preferences, ReadPreference(p) \/ PreferenceLoaded(p) \/ LoadRejected(p)
      PROVE  PreferenceInv'
  BY <1>6, ReadStep, LoadedStep, LoadRejectedStep
<1>7. ASSUME NEW p \in Preferences, NEW i \in NextWrite(p), WriteDone(p, i) \/ WriteRejected(p, i)
      PROVE  PreferenceInv'
  BY <1>7, WriteDoneStep, WriteRejectedStep
<1>8. CASE RelaunchApp
  BY <1>8, RelaunchStep
<1> QED BY <1>1, <1>2, <1>3, <1>4, <1>5, <1>6, <1>7, <1>8 DEF PreferenceNext

\* PreferenceInv holds in every state, for any number of transfer preferences,
\* choices, rejected requests and restarts.
THEOREM PreferenceInvariant == PreferenceSpec => []PreferenceInv
<1>1. PreferenceInit => PreferenceInv
  <2> SUFFICES ASSUME PreferenceInit PROVE PreferenceInv
    OBVIOUS
  <2>1. PreferenceTypes
    <3>1. shown \in [Preferences -> OnOff] /\ chosen \in [Preferences -> OnOff]
      BY DEF PreferenceInit, Default, OnOff
    <3>2. disk \in [Preferences -> OnOff \cup {"absent"}]
      BY DEF PreferenceInit
    <3>3. hydration \in [Preferences -> [at : {"sent", "read", "done", "failed"},
                                         value : OnOff \cup {"absent"}]]
      BY DEF PreferenceInit, Unread
    <3>4. writeChain \in [Preferences -> Seq(OnOff)]
      BY SMTT(60) DEF PreferenceInit
    <3>5. discoveries \in 0..MaxDiscoveries
      BY SMTT(60), PreferenceAssumption DEF PreferenceInit, PreferenceAssumption
    <3>6. touched \subseteq Preferences /\ lost \subseteq Preferences /\ raced \in BOOLEAN
      BY DEF PreferenceInit
    <3> QED BY <3>1, <3>2, <3>3, <3>4, <3>5, <3>6 DEF PreferenceTypes
  <2>2. \A p \in Preferences :
          /\ shown[p] = "off" /\ chosen[p] = "off" /\ Stored(p) = "off"
          /\ writeChain[p] = <<>> /\ hydration[p].at = "sent" /\ p \notin touched /\ p \notin lost
    BY DEF PreferenceInit, Stored, Default, Unread
  <2>3. \A p \in TransferPreferences : TransferPreferenceGood(p)
    BY <2>2 DEF Preferences, TransferPreferenceGood
  <2>4. NearbyGood
    BY <2>2 DEF Preferences, NearbyGood
  <2> QED BY <2>1, <2>3, <2>4 DEF PreferenceInv
<1>2. PreferenceInv /\ [PreferenceNext]_preferenceVars => PreferenceInv'
  BY PreferenceAssumption, PreferenceStep
<1> QED BY <1>1, <1>2, PTL DEF PreferenceSpec

\* However fast a transfer preference is changed, and although the load of
\* useTransferPreferences may answer after a choice, the choice is what is used
\* and, once its chain of writes is empty, what is stored.
THEOREM ChoicesStand == PreferenceSpec => []ChoiceStands
<1>1. PreferenceInv => ChoiceStands
  BY DEF PreferenceInv, PreferenceTypes, TransferPreferenceGood, ChoiceStands,
     PreferenceTypeOK
<1> QED BY <1>1, PreferenceInvariant, PTL

\* A discovery (performDiscovery, by AppShell's effect or by Refresh) begins
\* only if the last choice was to allow it, over restarts too, unless a choice
\* met the load, another write or a failure of the storage.
THEOREM DiscoveriesAreConsented == PreferenceSpec => DiscoveryIsConsented
<1>1. PreferenceInv /\ PreferenceInv' /\ [PreferenceNext]_preferenceVars
        => [discoveries' > discoveries => raced' \/ chosen'[Nearby] = "on"]_preferenceVars
  <2> SUFFICES ASSUME PreferenceInv, PreferenceInv', PreferenceNext, discoveries' > discoveries,
                      ~raced'
               PROVE  chosen'[Nearby] = "on"
    OBVIOUS
  <2>1. NearbyGood' /\ discoveries \in Int
    BY SMTT(60) DEF PreferenceInv, PreferenceTypes
  <2>2. discoveries' # discoveries
    BY SMTT(60), <2>1
  <2>3. shown'[Nearby] = "on"
    <3>1. CASE DiscoveryEffect
      BY <2>2, <3>1 DEF DiscoveryEffect
    <3>2. CASE DiscoverServers
      BY <3>2 DEF DiscoverServers, values
    <3>3. CASE DiscoveryEnds
      BY SMTT(60), <2>1, <3>3 DEF DiscoveryEnds
    <3>4. CASE RelaunchApp
      BY SMTT(60), <2>1, <3>4, PreferenceAssumption DEF RelaunchApp, PreferenceInv, PreferenceTypes
    <3> QED BY <2>2, <3>1, <3>2, <3>3, <3>4 DEF PreferenceNext, Navigate, ReadPreference,
            PreferenceLoaded, LoadRejected, PersistPreference, TurnOffNearby, AskForNearby,
            AnswerNearby, PersistNearbyDiscovery, WriteDone, WriteRejected
  <2> QED BY <2>1, <2>3 DEF NearbyGood
<1> QED BY <1>1, PreferenceInvariant, PTL DEF PreferenceSpec, DiscoveryIsConsented

-----------------------------------------------------------------------------
(* Connection: the invariant *)

Pairings == {"pair", "http"}

Alerts == {"none", "info", "scan", "reconnect", "confirm", "allow"}
AddressStates == [url : {"", "https", "http"}, token : {"", "session", "device"}]
Transports == {"clear", "configured", "verified"}

\* The stages at which a pairing may show the approval banner.
Approval == {"poll", "activate", "pause", "save", "state"}

Plain ==
    /\ appState \in Tabs \cup {"picker", "transfer"}
    /\ alert \in Alerts
    /\ scanner \in Scanners /\ savedReceiver \in BOOLEAN
    /\ allowInsecureHttp \in BOOLEAN /\ httpConfirmed \in BOOLEAN /\ closing \in BOOLEAN
    /\ requests \in BOOLEAN /\ isServerConnected \in BOOLEAN
    /\ mode \in {"disconnected", "https", "http"}
    /\ api \in AddressStates
    /\ native \in Transports

\* What the receiver thinks of the credential.
TrustGood ==
    /\ saved \in BOOLEAN /\ credential \in BOOLEAN /\ approvedOnce \in BOOLEAN
    /\ device \in {"refused", "pending", "approved"}
    /\ device # "refused" => credential
    /\ device = "approved" => approvedOnce

AttemptRecords == [kind : Kinds, at : Stages, confirmed : BOOLEAN,
                   tries : 0..(MaxPolls + MaxActivations)]
AttemptTypes == attempt \in [Attempts -> AttemptRecords]

\* Which kinds of attempt reach a stage, and what has happened before it.
AttemptGood(a) ==
    /\ attempt[a].at \in {"identity", "request", "poll", "activate", "pause"}
         => attempt[a].kind \in Pairings
    /\ attempt[a].at = "save" => attempt[a].kind = "pair"
    /\ attempt[a].at = "state" => attempt[a].kind \in {"pair", "discovered", "trusted"}
    /\ attempt[a].at = "store" => attempt[a].kind = "discovered"
    /\ attempt[a].at = "poll" => attempt[a].tries < MaxPolls
    /\ attempt[a].at \in {"activate", "pause"} => attempt[a].tries < MaxActivations
    /\ attempt[a].at \in {"request", "poll", "activate", "pause", "save"} => credential
    /\ attempt[a].at \in {"activate", "pause", "save"} => approvedOnce

AwaitsApproval(a) == attempt[a].kind \in Pairings /\ attempt[a].at \in Approval
AwaitsConsent(a) == attempt[a].at = "confirm"
IsClaimed(a) == attempt[a].at \notin {"idle", "lookup"}

\* The indicators have an attempt that will clear them, the question about
\* HTTP has the one attempt that waits for its answer.
IndicatorsGood ==
    /\ isConnecting \in BOOLEAN /\ connectionAttemptRef \in BOOLEAN
    /\ pairingDesktopName \in BOOLEAN
    /\ isConnecting \/ connectionAttemptRef => \E a \in Attempts : IsClaimed(a)
    /\ pairingDesktopName => \E a \in Attempts : AwaitsApproval(a)
    /\ alert = "confirm" <=> \E a \in Attempts : AwaitsConsent(a)
    /\ \A a, b \in Attempts : AwaitsConsent(a) /\ AwaitsConsent(b) => a = b

\* A monitor that has not given up pings or has scheduled a ping.
MonitorGood ==
    /\ health \in [failures : 0..MaxFailures, ping : {"no", "sent", "unsent"}, timer : BOOLEAN]
    /\ health.ping # "no" \/ health.timer => health.failures < MaxFailures
    /\ appState \in Monitored => Lost \/ health.ping # "no" \/ health.timer

ConnectionInv ==
    /\ Plain /\ TrustGood
    /\ AttemptTypes /\ (\A a \in Attempts : AttemptGood(a))
    /\ IndicatorsGood /\ MonitorGood

-----------------------------------------------------------------------------
(* Connection: the parts of a step *)

\* Moving an attempt changes its stage and nothing of the others.
LEMMA MoveEffect ==
  ASSUME ConnectionAssumption, AttemptTypes, NEW a \in Attempts, NEW s \in Stages, Move(a, s)
  PROVE  /\ AttemptTypes'
         /\ attempt'[a].at = s /\ attempt'[a].kind = attempt[a].kind /\ attempt'[a].tries = 0
         /\ \A b \in Attempts \ {a} : attempt'[b] = attempt[b]
<1>1. 0 \in 0..(MaxPolls + MaxActivations)
  BY SMTT(60) DEF ConnectionAssumption
<1> QED BY <1>1 DEF Move, AttemptTypes, AttemptRecords

\* An attempt that ends is idle, the others are as they were.
LEMMA LeaveEffect ==
  ASSUME ConnectionAssumption, AttemptTypes, NEW a \in Attempts,
         attempt' = [attempt EXCEPT ![a] = Idle]
  PROVE  /\ AttemptTypes'
         /\ attempt'[a].at = "idle"
         /\ \A b \in Attempts \ {a} : attempt'[b] = attempt[b]
<1>1. 0 \in 0..(MaxPolls + MaxActivations)
  BY SMTT(60) DEF ConnectionAssumption
<1>2. Idle \in AttemptRecords /\ Idle.at = "idle"
  BY <1>1 DEF Idle, AttemptRecords, Kinds, Stages
<1> QED BY <1>2 DEF AttemptTypes

\* An alert that is dropped or shown by showAlertOnce asks for no consent.
LEMMA AlertEffect ==
  ASSUME Plain, NEW x \in {"info", "scan", "reconnect"}, ShowAlertOnce(x)
  PROVE  /\ alert' \in Alerts
         /\ alert' = "confirm" <=> alert = "confirm"
  BY DEF Plain, ShowAlertOnce, Alerts

\* The credential is never lost, nor its approval while there is one.
TrustKept == (credential => credential') /\ (credential /\ approvedOnce => approvedOnce')

\* An attempt that a step leaves alone stays good.
LEMMA AttemptKept ==
  ASSUME ConnectionInv, NEW a \in Attempts, attempt'[a] = attempt[a], TrustKept
  PROVE  AttemptGood(a)'
<1>1. AttemptGood(a)
  BY DEF ConnectionInv
<1> QED BY <1>1 DEF AttemptGood, TrustKept

\* What a step does to the indicators when it changes attempt a only: the claim,
\* the approval banner and the question about HTTP.
ClaimFollows(a) ==
    \/ isConnecting' = FALSE /\ connectionAttemptRef' = FALSE
    \/ isConnecting' \in BOOLEAN /\ connectionAttemptRef' \in BOOLEAN /\ IsClaimed(a)'
    \/ UNCHANGED <<isConnecting, connectionAttemptRef>> /\ ~IsClaimed(a)

BannerFollows(a) ==
    \/ pairingDesktopName' = FALSE
    \/ pairingDesktopName' = TRUE /\ AwaitsApproval(a)'
    \/ UNCHANGED pairingDesktopName /\ (AwaitsApproval(a) => AwaitsApproval(a)')

QuestionFollows(a) ==
    \/ ~AwaitsConsent(a) /\ ~AwaitsConsent(a)' /\ (alert' = "confirm" <=> alert = "confirm")
    \/ AwaitsConsent(a) /\ ~AwaitsConsent(a)' /\ alert' # "confirm"
    \/ AwaitsConsent(a)' /\ alert = "none" /\ alert' = "confirm"

\* A step that changes attempt a only.
LEMMA OneAttempt ==
  ASSUME ConnectionInv, NEW a \in Attempts, AttemptTypes', AttemptGood(a)',
         \A b \in Attempts \ {a} : attempt'[b] = attempt[b],
         ClaimFollows(a), BannerFollows(a), QuestionFollows(a),
         Plain', TrustGood', TrustKept, MonitorGood'
  PROVE  ConnectionInv'
<1>1. \A b \in Attempts : AttemptGood(b)'
  BY AttemptKept
<1>2. IndicatorsGood
  BY DEF ConnectionInv
<1>3. \A b \in Attempts \ {a} : /\ IsClaimed(b)' <=> IsClaimed(b)
                               /\ AwaitsApproval(b)' <=> AwaitsApproval(b)
  BY DEF IsClaimed, AwaitsApproval
<1>4. IndicatorsGood'
  <2>1. /\ isConnecting' \in BOOLEAN /\ connectionAttemptRef' \in BOOLEAN
        /\ pairingDesktopName' \in BOOLEAN
    BY <1>2 DEF IndicatorsGood, ClaimFollows, BannerFollows
  <2>2. isConnecting' \/ connectionAttemptRef' => \E b \in Attempts : IsClaimed(b)'
    <3>1. isConnecting \/ connectionAttemptRef => \E b \in Attempts : IsClaimed(b)
      BY <1>2 DEF IndicatorsGood
    <3> QED BY <1>3, <3>1 DEF ClaimFollows, IsClaimed
  <2>3. pairingDesktopName' => \E b \in Attempts : AwaitsApproval(b)'
    <3>1. pairingDesktopName => \E b \in Attempts : AwaitsApproval(b)
      BY <1>2 DEF IndicatorsGood
    <3> QED BY <1>3, <3>1 DEF BannerFollows, AwaitsApproval
  <2>4. /\ alert = "confirm" <=> \E b \in Attempts : AwaitsConsent(b)
        /\ \A b, c \in Attempts : AwaitsConsent(b) /\ AwaitsConsent(c) => b = c
    BY <1>2 DEF IndicatorsGood
  <2>5. \A b \in Attempts \ {a} : AwaitsConsent(b)' <=> AwaitsConsent(b)
    BY DEF AwaitsConsent
  <2>6. /\ alert' = "confirm" <=> \E b \in Attempts : AwaitsConsent(b)'
        /\ \A b, c \in Attempts : AwaitsConsent(b)' /\ AwaitsConsent(c)' => b = c
    <3>1. CASE ~AwaitsConsent(a) /\ ~AwaitsConsent(a)' /\ (alert' = "confirm" <=> alert = "confirm")
      BY ONLY SMTT(60), <2>4, <2>5, <3>1 DEF AwaitsConsent
    <3>2. CASE AwaitsConsent(a) /\ ~AwaitsConsent(a)' /\ alert' # "confirm"
      BY ONLY SMTT(60), <2>4, <2>5, <3>2 DEF AwaitsConsent
    <3>3. CASE AwaitsConsent(a)' /\ alert = "none" /\ alert' = "confirm"
      BY ONLY ZenonT(60), <2>4, <2>5, <3>3, a \in Attempts DEF AwaitsConsent
    <3> QED BY ONLY SMTT(60), <3>1, <3>2, <3>3, QuestionFollows(a) DEF QuestionFollows
  <2> QED BY <2>1, <2>2, <2>3, <2>6 DEF IndicatorsGood
<1> QED BY <1>1, <1>4 DEF ConnectionInv

\* A step in which attempt a goes from one await to the next.
LEMMA StageStep ==
  ASSUME ConnectionAssumption, ConnectionInv, NEW a \in Attempts, NEW s \in Stages,
         s \notin {"idle", "lookup", "confirm"}, ~AwaitsConsent(a),
         AttemptTypes', attempt'[a].at = s, AttemptGood(a)',
         \A b \in Attempts \ {a} : attempt'[b] = attempt[b],
         UNCHANGED <<isConnecting, connectionAttemptRef>>, BannerFollows(a),
         alert' = "confirm" <=> alert = "confirm",
         Plain', TrustGood', TrustKept, MonitorGood'
  PROVE  ConnectionInv'
<1>1. IsClaimed(a)' /\ ~AwaitsConsent(a)'
  BY DEF IsClaimed, AwaitsConsent
<1>2. ClaimFollows(a)
  BY <1>1 DEF ClaimFollows, ConnectionInv, IndicatorsGood
<1>3. QuestionFollows(a)
  BY <1>1 DEF QuestionFollows
<1> QED BY <1>2, <1>3, OneAttempt

\* A step in which attempt a ends.
LEMMA EndStep ==
  ASSUME ConnectionAssumption, ConnectionInv, NEW a \in Attempts,
         attempt' = [attempt EXCEPT ![a] = Idle],
         connectionAttemptRef' = FALSE, isConnecting' = FALSE,
         \/ pairingDesktopName' = FALSE
         \/ pairingDesktopName' = pairingDesktopName /\ ~AwaitsApproval(a),
         ~AwaitsConsent(a), alert' = "confirm" <=> alert = "confirm",
         Plain', TrustGood', TrustKept, MonitorGood'
  PROVE  ConnectionInv'
<1>1. /\ AttemptTypes' /\ attempt'[a].at = "idle"
      /\ \A b \in Attempts \ {a} : attempt'[b] = attempt[b]
  BY LeaveEffect DEF ConnectionInv
<1>2. AttemptGood(a)' /\ ~AwaitsConsent(a)'
  BY <1>1 DEF AttemptGood, AwaitsConsent
<1>3. ClaimFollows(a) /\ BannerFollows(a) /\ QuestionFollows(a)
  BY <1>2 DEF ClaimFollows, BannerFollows, QuestionFollows
<1> QED BY <1>1, <1>2, <1>3, OneAttempt

\* A step that changes no attempt may clear the indicators.
LEMMA QuietStep ==
  ASSUME ConnectionInv, UNCHANGED attempt,
         isConnecting' \in {FALSE, isConnecting},
         connectionAttemptRef' \in {FALSE, connectionAttemptRef},
         pairingDesktopName' \in {FALSE, pairingDesktopName},
         alert' = "confirm" <=> alert = "confirm",
         Plain', TrustGood', TrustKept, MonitorGood'
  PROVE  ConnectionInv'
<1>1. \A b \in Attempts : AttemptGood(b)'
  BY AttemptKept
<1>2. AttemptTypes' /\ IndicatorsGood
  BY DEF ConnectionInv, AttemptTypes
<1>3. \A b : /\ AwaitsConsent(b)' <=> AwaitsConsent(b)
             /\ AwaitsApproval(b)' <=> AwaitsApproval(b)
             /\ IsClaimed(b)' <=> IsClaimed(b)
  BY DEF AwaitsConsent, AwaitsApproval, IsClaimed
<1>4. IndicatorsGood'
  <2>1. isConnecting' \in BOOLEAN /\ connectionAttemptRef' \in BOOLEAN /\ pairingDesktopName' \in BOOLEAN
    BY <1>2 DEF IndicatorsGood
  <2>2. isConnecting' \/ connectionAttemptRef' => \E b \in Attempts : IsClaimed(b)'
    BY <1>2, <1>3 DEF IndicatorsGood
  <2>3. pairingDesktopName' => \E b \in Attempts : AwaitsApproval(b)'
    BY <1>2, <1>3 DEF IndicatorsGood
  <2>4. alert' = "confirm" <=> \E b \in Attempts : AwaitsConsent(b)'
    BY <1>2, <1>3 DEF IndicatorsGood
  <2>5. \A b, c \in Attempts : AwaitsConsent(b)' /\ AwaitsConsent(c)' => b = c
    BY <1>2, <1>3 DEF IndicatorsGood
  <2> QED BY <2>1, <2>2, <2>3, <2>4, <2>5 DEF IndicatorsGood
<1> QED BY <1>1, <1>2, <1>4 DEF ConnectionInv

-----------------------------------------------------------------------------
(* Connection: the monitor *)

\* validateConnection leaves a ping in flight, or one that is answered at once.
LEMMA ValidateEffect ==
  ASSUME ConnectionAssumption, NEW h, NEW f \in 0..MaxFailures, f < MaxFailures,
         h \in [failures : 0..MaxFailures, ping : {"no", "sent", "unsent"}, timer : BOOLEAN],
         h.failures = f, health' = Validate(h)
  PROVE  MonitorGood'
<1>1. /\ health' \in [failures : 0..MaxFailures, ping : {"no", "sent", "unsent"}, timer : BOOLEAN]
      /\ health'.failures = f /\ health'.ping # "no"
  BY DEF Validate
<1> QED BY <1>1 DEF MonitorGood

\* A change of screen starts a monitor on the tabs of the dashboard.
LEMMA MonitorStarted ==
  ASSUME ConnectionAssumption, MonitorGood, MonitorEffect
  PROVE  MonitorGood'
<1>1. /\ 0 \in 0..MaxFailures /\ 0 < MaxFailures /\ NoMonitor.failures = 0
      /\ NoMonitor \in [failures : 0..MaxFailures, ping : {"no", "sent", "unsent"}, timer : BOOLEAN]
  BY SMTT(60) DEF ConnectionAssumption, NoMonitor
<1>2. CASE appState' = appState
  BY <1>2 DEF MonitorEffect, MonitorGood, Lost
<1>3. CASE appState' # appState /\ appState' \in Monitored
  BY <1>1, <1>3, ValidateEffect DEF MonitorEffect, FreshMonitor
<1>4. CASE appState' # appState /\ appState' \notin Monitored
  BY <1>1, <1>4 DEF MonitorEffect, MonitorGood, NoMonitor
<1> QED BY <1>2, <1>3, <1>4

\* A step that changes neither the screen nor the monitor.
LEMMA MonitorKept ==
  ASSUME ConnectionInv, UNCHANGED <<appState, health>>
  PROVE  MonitorGood'
  BY DEF ConnectionInv, MonitorGood, Lost

-----------------------------------------------------------------------------
(* Connection: steps of several handlers *)

\* The effects of React keep the types of what they set.
LEMMA ScanTyped ==
  ASSUME NEW s \in Scanners, ScanEffect(s)
  PROVE  scanner' \in Scanners
<1>1. PICK open \in BOOLEAN : scanner' = [s EXCEPT !.open = open]
  BY DEF ScanEffect
<1> QED BY <1>1 DEF Scanners

LEMMA ShellTyped ==
  ASSUME Plain, TrustGood', ShellEffects
  PROVE  savedReceiver' \in BOOLEAN /\ requests' \in BOOLEAN
<1>1. requests' \in BOOLEAN
  BY DEF Plain, ShellEffects, RequestEffect
<1>2. savedReceiver' \in BOOLEAN
  BY DEF Plain, TrustGood, ShellEffects, SavedEffect
<1> QED BY <1>1, <1>2

LEMMA EffectsTyped ==
  ASSUME Plain, TrustGood', Effects
  PROVE  scanner' \in Scanners /\ savedReceiver' \in BOOLEAN /\ requests' \in BOOLEAN
<1>1. scanner \in Scanners /\ ScanEffect(scanner) /\ ShellEffects
  BY DEF Plain, Effects
<1> QED BY <1>1, ScanTyped, ShellTyped

\* The client forgets the address and the pinned transport.
LEMMA ForgetTyped ==
  ASSUME Forget
  PROVE  /\ api' \in AddressStates
         /\ native' \in Transports
  BY DEF Forget, Unset, AddressStates, Transports

\* The failure paths of handleConnect and of connectTrusted.
LEMMA FailStep ==
  ASSUME ConnectionAssumption, ConnectionInv, NEW a \in Attempts, ~AwaitsConsent(a),
         NEW m \in {"info", "reconnect"}, Fail(a, m), TrustGood', TrustKept
  PROVE  ConnectionInv'
<1>1. /\ Forget /\ MarkDisconnected /\ Leave(a) /\ ShowAlertOnce(m) /\ Effects
      /\ UNCHANGED <<appState, allowInsecureHttp, httpConfirmed, closing>>
  BY DEF Fail, consent
<1>2. Plain /\ MonitorGood
  BY DEF ConnectionInv
<1>3. /\ alert' \in Alerts
      /\ alert' = "confirm" <=> alert = "confirm"
  BY <1>1, <1>2, AlertEffect
<1>4. isServerConnected' \in BOOLEAN /\ mode' \in {"disconnected", "https", "http"}
  BY <1>1 DEF MarkDisconnected
<1>5. Plain'
  BY <1>1, <1>2, <1>3, <1>4, EffectsTyped, ForgetTyped DEF Plain
<1>6. MonitorGood'
  BY <1>1, <1>2, MonitorStarted DEF Effects, ShellEffects
<1> QED BY <1>1, <1>3, <1>5, <1>6, EndStep DEF Leave, MarkDisconnected

\* A ping that is answered may complete the verification of the certificate.
LEMMA VerifiedTyped ==
  ASSUME Plain, Verified
  PROVE  native' \in Transports
  BY DEF Plain, Verified, Transports

\* What a handler leaves alone while it waits: the screen and what is on it.
OnlyTransport == UNCHANGED <<appState, scanner, alert, isServerConnected, mode, effects>>

\* A stage in which nothing but the transport, the stores and the consent change.
LEMMA OffScreen ==
  ASSUME ConnectionInv, OnlyTransport,
         allowInsecureHttp' \in BOOLEAN, httpConfirmed' \in BOOLEAN, closing' \in BOOLEAN,
         api' \in AddressStates,
         native' \in Transports
  PROVE  Plain' /\ MonitorGood' /\ (alert' = "confirm" <=> alert = "confirm")
<1>1. UNCHANGED <<appState, scanner, alert, isServerConnected, mode,
                  savedReceiver, health, requests>>
  BY DEF OnlyTransport, effects
<1>2. Plain'
  BY <1>1 DEF ConnectionInv, Plain
<1> QED BY <1>1, <1>2, MonitorKept

\* A stage in which only the attempt and the receiver's opinion change.
LEMMA WaitStep ==
  ASSUME ConnectionInv, OnlyTransport, UNCHANGED <<consent, transport>>
  PROVE  Plain' /\ MonitorGood' /\ (alert' = "confirm" <=> alert = "confirm")
  BY OffScreen DEF ConnectionInv, Plain, consent, transport

\* Only the alert of the screen changes.
LEMMA AlertStep ==
  ASSUME ConnectionInv,
         UNCHANGED <<appState, isServerConnected, mode, transport, consent, effects>>,
         scanner' \in Scanners, alert' \in Alerts
  PROVE  Plain' /\ MonitorGood'
<1>1. UNCHANGED <<appState, isServerConnected, mode, api, native,
                  allowInsecureHttp, httpConfirmed, closing,
                  savedReceiver, health, requests>>
  BY DEF transport, consent, effects
<1>2. Plain'
  BY <1>1 DEF ConnectionInv, Plain
<1> QED BY <1>1, <1>2, MonitorKept

-----------------------------------------------------------------------------
(* Connection: the awaits of an attempt *)

\* configureSecureConnection and setConfig.
LEMMA ConfiguredStep ==
  ASSUME ConnectionAssumption, ConnectionInv, NEW a \in Attempts, Configured(a)
  PROVE  ConnectionInv'
<1>1. AttemptTypes /\ AttemptGood(a) /\ Plain /\ TrustGood
  BY DEF ConnectionInv
<1>2. /\ AttemptTypes' /\ attempt'[a].at = "ping"
      /\ \A b \in Attempts \ {a} : attempt'[b] = attempt[b]
  <2>1. attempt' = [attempt EXCEPT ![a].at = "ping", ![a].confirmed = FALSE] /\ "ping" \in Stages
    BY DEF Configured, Stages
  <2> QED BY ONLY ZenonT(60), <1>1, <2>1, a \in Attempts DEF AttemptTypes, AttemptRecords
<1>3. attempt[a].confirmed \in BOOLEAN
  BY <1>1 DEF AttemptTypes, AttemptRecords
<1>4. /\ httpConfirmed' \in BOOLEAN /\ native' \in Transports
      /\ allowInsecureHttp' \in BOOLEAN /\ closing' \in BOOLEAN
  BY <1>1, <1>3 DEF Configured, Plain, Transports
<1>5. api' \in AddressStates
  BY DEF Configured, AddressStates
<1>6. /\ OnlyTransport /\ TrustGood' /\ TrustKept
      /\ UNCHANGED <<isConnecting, connectionAttemptRef, pairingDesktopName>>
  BY <1>1 DEF Configured, OnlyTransport, connectionVars, store, TrustGood, TrustKept
<1>7. Plain' /\ MonitorGood' /\ (alert' = "confirm" <=> alert = "confirm")
  BY <1>4, <1>5, <1>6, OffScreen
<1>8. /\ ~AwaitsConsent(a) /\ AttemptGood(a)' /\ ~AwaitsApproval(a) /\ "ping" \in Stages
      /\ "ping" \notin {"idle", "lookup", "confirm"}
  BY <1>2 DEF Configured, AwaitsConsent, AwaitsApproval, Approval, AttemptGood, Stages
<1> QED BY <1>2, <1>6, <1>7, <1>8, StageStep DEF BannerFollows

\* A stage of which the next await is reached by Move.
LEMMA MoveStep ==
  ASSUME ConnectionAssumption, ConnectionInv, NEW a \in Attempts, NEW s \in Stages,
         s \notin {"idle", "lookup", "confirm"}, ~AwaitsConsent(a), Move(a, s),
         AttemptGood(a)', AwaitsApproval(a) => s \in Approval,
         UNCHANGED <<isConnecting, connectionAttemptRef, pairingDesktopName>>,
         alert' = "confirm" <=> alert = "confirm",
         Plain', TrustGood', TrustKept, MonitorGood'
  PROVE  ConnectionInv'
<1>1. /\ AttemptTypes' /\ attempt'[a].at = s /\ attempt'[a].kind = attempt[a].kind
      /\ \A b \in Attempts \ {a} : attempt'[b] = attempt[b]
  BY MoveEffect DEF ConnectionInv
<1>2. BannerFollows(a)
  BY <1>1 DEF BannerFollows, AwaitsApproval
<1> QED BY <1>1, <1>2, StageStep

\* The pinned transport could not be configured.
LEMMA PinningStep ==
  ASSUME ConnectionAssumption, ConnectionInv, NEW a \in Attempts, PinningUnavailable(a)
  PROVE  ConnectionInv'
<1>1. ~AwaitsConsent(a)
  <2>1. attempt[a].at = "configure"
    BY DEF PinningUnavailable
  <2> QED BY <2>1 DEF AwaitsConsent
<1>2. Plain /\ TrustGood
  BY DEF ConnectionInv
<1>3. CASE Leave(a) /\ pairingDesktopName' = FALSE /\ ShowAlertOnce("info")
           /\ UNCHANGED <<appState, isServerConnected, mode, transport,
                          store, consent, effects>>
           /\ ScanEffect(scanner)
  <2>1. /\ alert' \in Alerts
        /\ alert' = "confirm" <=> alert = "confirm"
    BY <1>2, <1>3, AlertEffect
  <2>2. Plain' /\ MonitorGood'
    <3>1. scanner' \in Scanners
      BY <1>2, <1>3, ScanTyped DEF Plain
    <3> QED BY <1>3, <2>1, <3>1, AlertStep
  <2>3. TrustGood' /\ TrustKept
    BY <1>2, <1>3 DEF store, TrustGood, TrustKept
  <2> QED BY <1>1, <1>3, <2>1, <2>2, <2>3, EndStep DEF Leave
<1>4. CASE FailTrusted(a) /\ UNCHANGED store
  <2>1. TrustGood' /\ TrustKept
    BY <1>2, <1>4 DEF store, TrustGood, TrustKept
  <2> QED BY <1>1, <1>4, <2>1, FailStep DEF FailTrusted
<1> QED BY <1>3, <1>4 DEF PinningUnavailable

\* An HTTP connection is complete.
LEMMA ConnectHttpStep ==
  ASSUME ConnectionAssumption, ConnectionInv, NEW a \in Attempts, ~AwaitsConsent(a),
         ConnectHttp(a), UNCHANGED api, Verified
  PROVE  ConnectionInv'
<1>1. /\ MarkConnected("http") /\ Effects /\ appState' = "home"
      /\ attempt' = [attempt EXCEPT ![a] = Idle] /\ connectionAttemptRef' = FALSE
      /\ UNCHANGED <<alert, saved, credential, device, approvedOnce,
                     allowInsecureHttp, httpConfirmed, closing>>
  BY DEF ConnectHttp, store, consent
<1>2. Plain /\ MonitorGood /\ TrustGood
  BY DEF ConnectionInv
<1>3. TrustGood' /\ TrustKept
  BY <1>1, <1>2 DEF TrustGood, TrustKept
<1>4. MonitorGood'
  BY <1>1, <1>2, MonitorStarted DEF Effects, ShellEffects
<1>5. Plain'
  BY <1>1, <1>2, <1>3, EffectsTyped, VerifiedTyped DEF Plain, MarkConnected, Tabs
<1> QED BY <1>1, <1>3, <1>4, <1>5, EndStep DEF MarkConnected

\* The answer to the first ping.
LEMMA PingAnsweredStep ==
  ASSUME ConnectionAssumption, ConnectionInv, NEW a \in Attempts, PingAnswered(a)
  PROVE  ConnectionInv'
<1>1. attempt[a].at = "ping" /\ ~AwaitsConsent(a) /\ ~AwaitsApproval(a)
  BY DEF PingAnswered, AwaitsConsent, AwaitsApproval, Approval
<1>2. Plain /\ TrustGood /\ AttemptTypes
  BY DEF ConnectionInv
<1>3. ASSUME NEW s \in {"identity", "state"}, Move(a, s),
             s = "identity" => attempt[a].kind \in Pairings,
             s = "state" => attempt[a].kind \in {"discovered", "trusted"},
             UNCHANGED <<appState, scanner, alert, connectionAttemptRef,
                         connectionVars, store, consent, effects>>
      PROVE  ConnectionInv'
  <2>1. s \in Stages /\ s \notin {"idle", "lookup", "confirm"}
    BY DEF Stages
  <2>2. attempt'[a].at = s /\ attempt'[a].kind = attempt[a].kind
    BY <1>2, <1>3, <2>1, MoveEffect
  <2>3. AttemptGood(a)'
    BY <1>3, <2>2 DEF AttemptGood
  <2>4. TrustGood' /\ TrustKept
    BY <1>2, <1>3 DEF store, TrustGood, TrustKept
  <2>5. OnlyTransport /\ native' \in Transports /\ UNCHANGED api
    BY <1>2, <1>3, VerifiedTyped DEF OnlyTransport, connectionVars, PingAnswered
  <2>6. Plain' /\ MonitorGood' /\ (alert' = "confirm" <=> alert = "confirm")
    BY <1>2, <1>3, <2>5, OffScreen DEF Plain, consent
  <2> QED BY <1>1, <1>3, <2>1, <2>3, <2>4, <2>6, MoveStep DEF connectionVars
<1>4. CASE ConnectHttp(a)
  BY <1>1, <1>4, ConnectHttpStep DEF PingAnswered
<1> QED BY <1>3, <1>4 DEF PingAnswered, Pairings

\* A first ping that fails, and any await of handleConnect that throws.
LEMMA ThrowsStep ==
  ASSUME ConnectionAssumption, ConnectionInv, NEW a \in Attempts,
         PingFails(a) \/ ConnectThrows(a)
  PROVE  ConnectionInv'
<1>1. ~AwaitsConsent(a) /\ UNCHANGED store
  BY DEF PingFails, ConnectThrows, AwaitsConsent
<1>2. TrustGood' /\ TrustKept
  BY <1>1 DEF store, ConnectionInv, TrustGood, TrustKept
<1> QED BY <1>1, <1>2, FailStep DEF PingFails, ConnectThrows, FailConnect, FailTrusted

\* getDeviceIdentity: a new credential is one the receiver has not approved.
LEMMA IdentityStep ==
  ASSUME ConnectionAssumption, ConnectionInv, NEW a \in Attempts, GetDeviceIdentity(a)
  PROVE  ConnectionInv'
<1>1. attempt[a].at = "identity" /\ ~AwaitsConsent(a) /\ ~AwaitsApproval(a)
  BY DEF GetDeviceIdentity, AwaitsConsent, AwaitsApproval, Approval
<1>2. Plain /\ TrustGood /\ AttemptTypes /\ AttemptGood(a)
  BY DEF ConnectionInv
<1>3. TrustGood' /\ TrustKept /\ credential'
  BY <1>2 DEF GetDeviceIdentity, TrustGood, TrustKept
<1>4. "request" \in Stages /\ "request" \notin {"idle", "lookup", "confirm"}
  BY DEF Stages
<1>5. Move(a, "request")
  BY DEF GetDeviceIdentity
<1>6. attempt'[a].at = "request" /\ attempt'[a].kind = attempt[a].kind
  BY <1>2, <1>4, <1>5, MoveEffect
<1>7. AttemptGood(a)'
  BY <1>1, <1>2, <1>3, <1>6 DEF AttemptGood
<1>8. Plain' /\ MonitorGood' /\ (alert' = "confirm" <=> alert = "confirm")
  BY WaitStep DEF GetDeviceIdentity, OnlyTransport, connectionVars
<1> QED BY <1>1, <1>3, <1>4, <1>5, <1>7, <1>8, MoveStep DEF GetDeviceIdentity, connectionVars

\* activatePairingCredential, when the receiver has approved the credential.
LEMMA ActivateStep ==
  ASSUME ConnectionAssumption, ConnectionInv, NEW a \in Attempts,
         attempt[a].at \in {"request", "poll"}, Activate(a),
         TrustGood', TrustKept, credential', approvedOnce'
  PROVE  ConnectionInv'
<1>1. ~AwaitsConsent(a) /\ "activate" \in Approval
  BY DEF AwaitsConsent, Approval
<1>2. Plain /\ AttemptTypes /\ AttemptGood(a)
  BY DEF ConnectionInv
<1>3. "activate" \in Stages /\ "activate" \notin {"idle", "lookup", "confirm"}
  BY DEF Stages
<1>4. Move(a, "activate")
  BY DEF Activate
<1>5. attempt'[a].at = "activate" /\ attempt'[a].kind = attempt[a].kind /\ attempt'[a].tries = 0
  BY <1>2, <1>3, <1>4, MoveEffect
<1>6. AttemptGood(a)'
  <2>1. 0 < MaxActivations
    BY SMTT(60) DEF ConnectionAssumption
  <2>2. attempt[a].kind \in Pairings
    BY <1>2 DEF AttemptGood
  <2>3. "activate" \notin {"save", "state", "store", "poll"}
    OBVIOUS
  <2> QED BY <1>5, <2>1, <2>2, <2>3 DEF AttemptGood
<1>7. api' \in AddressStates
  BY DEF Activate, AddressStates
<1>8. OnlyTransport /\ UNCHANGED <<native, allowInsecureHttp, httpConfirmed, closing,
                                   isConnecting, connectionAttemptRef, pairingDesktopName>>
  BY DEF Activate, OnlyTransport, connectionVars, consent
<1>9. Plain' /\ MonitorGood' /\ (alert' = "confirm" <=> alert = "confirm")
  BY <1>2, <1>7, <1>8, OffScreen DEF Plain
<1> QED BY <1>1, <1>3, <1>4, <1>6, <1>8, <1>9, MoveStep

\* The request for approval is answered.
LEMMA RequestStep ==
  ASSUME ConnectionAssumption, ConnectionInv, NEW a \in Attempts, RequestPairing(a)
  PROVE  ConnectionInv'
<1>1. attempt[a].at = "request" /\ ~AwaitsConsent(a)
  <2>1. attempt[a].at = "request"
    BY DEF RequestPairing
  <2> QED BY <2>1 DEF AwaitsConsent
<1>2. /\ Plain /\ TrustGood /\ AttemptTypes /\ AttemptGood(a)
      /\ UNCHANGED <<saved, credential, approvedOnce>>
  BY DEF ConnectionInv, RequestPairing
<1>3. credential /\ attempt[a].kind \in Pairings
  BY <1>1, <1>2 DEF AttemptGood
<1>4. TrustGood' /\ TrustKept /\ (device' = "approved" => approvedOnce')
  <2>1. device' \in {"pending", "refused", device}
    BY DEF RequestPairing
  <2>2. device' \in {"refused", "pending", "approved"} /\ (device' = "approved" => device = "approved")
    BY <1>2, <2>1 DEF TrustGood
  <2> QED BY <1>2, <1>3, <2>2 DEF TrustGood, TrustKept
<1>5. CASE device' = "approved" /\ Activate(a)
  BY <1>1, <1>2, <1>3, <1>4, <1>5, ActivateStep
<1>6. CASE FailConnect(a)
  BY <1>1, <1>4, <1>6, FailStep DEF FailConnect
<1>7. CASE Move(a, "poll") /\ pairingDesktopName' = TRUE
           /\ UNCHANGED <<appState, scanner, alert, connectionAttemptRef,
                          isServerConnected, isConnecting, mode, transport, consent, effects>>
  <2>1. "poll" \in Stages /\ "poll" \notin {"idle", "lookup", "confirm"}
    BY DEF Stages
  <2>2. /\ AttemptTypes' /\ attempt'[a].at = "poll" /\ attempt'[a].kind = attempt[a].kind
        /\ attempt'[a].tries = 0 /\ \A b \in Attempts \ {a} : attempt'[b] = attempt[b]
    BY <1>2, <1>7, <2>1, MoveEffect
  <2>3. AttemptGood(a)' /\ AwaitsApproval(a)'
    <3>1. 0 < MaxPolls
      BY ONLY SMTT(60), ConnectionAssumption DEF ConnectionAssumption
    <3>2. credential' = credential /\ attempt'[a].kind \in Pairings /\ attempt'[a].tries < MaxPolls
      BY <1>2, <1>3, <2>2, <3>1
    <3>3. AttemptGood(a)'
      BY ONLY SMTT(60), <1>3, <2>2, <3>2 DEF AttemptGood
    <3>4. AwaitsApproval(a)'
      BY ONLY ZenonT(60), <2>2, <3>2 DEF AwaitsApproval, Approval
    <3> QED BY <3>3, <3>4
  <2>4. Plain' /\ MonitorGood' /\ (alert' = "confirm" <=> alert = "confirm")
    BY <1>7, WaitStep DEF OnlyTransport
  <2> QED BY <1>1, <1>4, <1>7, <2>1, <2>2, <2>3, <2>4, StageStep DEF BannerFollows
<1> QED BY <1>5, <1>6, <1>7 DEF RequestPairing

\* The receiver is asked again whether it has approved.
LEMMA PollStep ==
  ASSUME ConnectionAssumption, ConnectionInv, NEW a \in Attempts, Poll(a)
  PROVE  ConnectionInv'
<1>1. attempt[a].at = "poll" /\ ~AwaitsConsent(a) /\ "poll" \in Approval
  BY DEF Poll, AwaitsConsent, Approval
<1>2. Plain /\ TrustGood /\ AttemptTypes /\ AttemptGood(a)
  BY DEF ConnectionInv
<1>3. TrustGood' /\ TrustKept /\ UNCHANGED <<device, credential, approvedOnce>>
  BY <1>2 DEF Poll, store, TrustGood, TrustKept
<1>4. credential /\ attempt[a].kind \in Pairings
  BY <1>1, <1>2 DEF AttemptGood
<1>5. CASE device = "approved" /\ Activate(a)
  BY <1>1, <1>2, <1>3, <1>4, <1>5, ActivateStep DEF TrustGood
<1>6. CASE FailConnect(a)
  BY <1>1, <1>3, <1>6, FailStep DEF FailConnect
<1>7. CASE attempt[a].tries + 1 < MaxPolls /\ attempt' = [attempt EXCEPT ![a].tries = @ + 1]
           /\ UNCHANGED <<appState, scanner, alert, connectionAttemptRef,
                          connectionVars, transport, consent, effects>>
  <2>1. "poll" \in Stages /\ "poll" \notin {"idle", "lookup", "confirm"}
    BY DEF Stages
  <2>2. attempt[a].tries + 1 \in 0..(MaxPolls + MaxActivations)
    BY SMTT(60), <1>2, <1>7 DEF AttemptTypes, AttemptRecords, ConnectionAssumption
  <2>3. /\ AttemptTypes' /\ attempt'[a].at = "poll" /\ attempt'[a].kind = attempt[a].kind
        /\ attempt'[a].tries = attempt[a].tries + 1
        /\ \A b \in Attempts \ {a} : attempt'[b] = attempt[b]
    BY <1>1, <1>2, <1>7, <2>2 DEF AttemptTypes, AttemptRecords
  <2>4. AttemptGood(a)' /\ AwaitsApproval(a)'
    BY <1>2, <1>3, <1>4, <1>7, <2>3 DEF AttemptGood, AwaitsApproval, Approval
  <2>5. Plain' /\ MonitorGood' /\ (alert' = "confirm" <=> alert = "confirm")
    BY <1>7, WaitStep DEF OnlyTransport, connectionVars
  <2> QED BY <1>1, <1>3, <1>7, <2>1, <2>3, <2>4, <2>5, StageStep
          DEF BannerFollows, connectionVars
<1> QED BY <1>5, <1>6, <1>7 DEF Poll

\* The credential is accepted: it is an approved one.
LEMMA AcceptedStep ==
  ASSUME ConnectionAssumption, ConnectionInv, NEW a \in Attempts, CredentialAccepted(a)
  PROVE  ConnectionInv'
<1>1. attempt[a].at = "activate" /\ ~AwaitsConsent(a) /\ "save" \in Approval
  BY DEF CredentialAccepted, AwaitsConsent, Approval
<1>2. Plain /\ TrustGood /\ AttemptTypes /\ AttemptGood(a)
  BY DEF ConnectionInv
<1>3. CASE attempt[a].kind = "pair" /\ Move(a, "save")
           /\ UNCHANGED <<appState, scanner, alert, connectionAttemptRef,
                          connectionVars, store, consent, effects>>
  <2>1. "save" \in Stages /\ "save" \notin {"idle", "lookup", "confirm"}
    BY DEF Stages
  <2>2. attempt'[a].at = "save" /\ attempt'[a].kind = attempt[a].kind
    BY <1>2, <1>3, <2>1, MoveEffect
  <2>3. TrustGood' /\ TrustKept /\ UNCHANGED <<credential, approvedOnce>>
    BY <1>2, <1>3 DEF store, TrustGood, TrustKept
  <2>4. AttemptGood(a)'
    BY <1>1, <1>2, <1>3, <2>2, <2>3 DEF AttemptGood
  <2>5. OnlyTransport /\ native' \in Transports /\ UNCHANGED api
    BY <1>2, <1>3, VerifiedTyped DEF OnlyTransport, connectionVars, CredentialAccepted
  <2>6. Plain' /\ MonitorGood' /\ (alert' = "confirm" <=> alert = "confirm")
    BY <1>2, <1>3, <2>5, OffScreen DEF Plain, consent
  <2> QED BY <1>1, <1>3, <2>1, <2>3, <2>4, <2>6, MoveStep DEF connectionVars
<1>4. CASE ConnectHttp(a)
  BY <1>1, <1>4, ConnectHttpStep DEF CredentialAccepted
<1> QED BY <1>3, <1>4 DEF CredentialAccepted

\* The credential is not accepted, and may be tried again after a pause.
LEMMA RejectedStep ==
  ASSUME ConnectionAssumption, ConnectionInv, NEW a \in Attempts,
         CredentialRejected(a) \/ PauseOver(a)
  PROVE  ConnectionInv'
<1>1. attempt[a].at \in {"activate", "pause"} /\ ~AwaitsConsent(a)
  BY DEF CredentialRejected, PauseOver, AwaitsConsent
<1>2. Plain /\ TrustGood /\ AttemptTypes /\ AttemptGood(a)
  BY DEF ConnectionInv
<1>3. TrustGood' /\ TrustKept /\ UNCHANGED <<credential, approvedOnce>>
  BY <1>2 DEF CredentialRejected, PauseOver, store, TrustGood, TrustKept
<1>4. CASE FailConnect(a)
  BY <1>1, <1>3, <1>4, FailStep DEF FailConnect
<1>5. ASSUME NEW s \in {"activate", "pause"}, NEW n \in Nat, n < MaxActivations,
             attempt' = [attempt EXCEPT ![a] = [attempt[a] EXCEPT !.at = s, !.tries = n]],
             UNCHANGED <<appState, scanner, alert, connectionAttemptRef,
                         connectionVars, transport, consent, effects>>
      PROVE  ConnectionInv'
  <2>1. s \in Stages /\ s \notin {"idle", "lookup", "confirm"} /\ s \in Approval
    BY DEF Stages, Approval
  <2>2. n \in 0..(MaxPolls + MaxActivations)
    BY SMTT(60), <1>5 DEF ConnectionAssumption
  <2>3. /\ AttemptTypes' /\ attempt'[a].at = s /\ attempt'[a].kind = attempt[a].kind
        /\ attempt'[a].tries = n /\ \A b \in Attempts \ {a} : attempt'[b] = attempt[b]
    BY ONLY ZenonT(60), <1>2, <1>5, <2>1, <2>2, a \in Attempts DEF AttemptTypes, AttemptRecords
  <2>4. attempt[a].kind \in Pairings /\ credential /\ approvedOnce
    BY <1>1, <1>2 DEF AttemptGood
  <2>5. AttemptGood(a)' /\ AwaitsApproval(a)'
    BY <1>3, <1>5, <2>1, <2>3, <2>4 DEF AttemptGood, AwaitsApproval
  <2>6. Plain' /\ MonitorGood' /\ (alert' = "confirm" <=> alert = "confirm")
    BY <1>5, WaitStep DEF OnlyTransport, connectionVars
  <2> QED BY <1>1, <1>3, <1>5, <2>1, <2>3, <2>5, <2>6, StageStep
          DEF BannerFollows, connectionVars
<1>6. attempt[a].tries \in Nat /\ attempt[a].tries < MaxActivations
  BY SMTT(60), <1>1, <1>2 DEF AttemptTypes, AttemptRecords, AttemptGood, ConnectionAssumption
<1>7. CASE CredentialRejected(a)
  <2>1. ASSUME attempt[a].tries + 1 # MaxActivations,
               attempt' = [attempt EXCEPT ![a].at = "pause", ![a].tries = @ + 1]
        PROVE  /\ attempt[a].tries + 1 \in Nat /\ attempt[a].tries + 1 < MaxActivations
               /\ attempt' = [attempt EXCEPT ![a] = [attempt[a] EXCEPT !.at = "pause",
                                                       !.tries = attempt[a].tries + 1]]
    BY SMTT(60), <1>2, <1>6, <2>1 DEF AttemptTypes, AttemptRecords, ConnectionAssumption
  <2> QED BY <1>4, <1>5, <1>7, <2>1 DEF CredentialRejected
<1>8. CASE PauseOver(a)
  <2>1. ASSUME attempt' = [attempt EXCEPT ![a].at = "activate"]
        PROVE  attempt' = [attempt EXCEPT ![a] = [attempt[a] EXCEPT !.at = "activate",
                                                    !.tries = attempt[a].tries]]
    BY <1>2, <2>1 DEF AttemptTypes, AttemptRecords
  <2> QED BY <1>4, <1>5, <1>6, <1>8, <2>1 DEF PauseOver
<1> QED BY <1>7, <1>8

\* The trust is stored.
LEMMA SaveStep ==
  ASSUME ConnectionAssumption, ConnectionInv, NEW a \in Attempts, SaveTrust(a)
  PROVE  ConnectionInv'
<1>1. attempt[a].at = "save" /\ ~AwaitsConsent(a) /\ "state" \in Approval
  BY DEF SaveTrust, AwaitsConsent, Approval
<1>2. Plain /\ TrustGood /\ AttemptTypes /\ AttemptGood(a)
  BY DEF ConnectionInv
<1>3. TrustGood' /\ TrustKept
  BY <1>2 DEF SaveTrust, TrustGood, TrustKept
<1>4. "state" \in Stages /\ "state" \notin {"idle", "lookup", "confirm"} /\ Move(a, "state")
  BY DEF Stages, SaveTrust
<1>5. attempt'[a].at = "state" /\ attempt'[a].kind = attempt[a].kind
  BY <1>2, <1>4, MoveEffect
<1>6. AttemptGood(a)'
  BY <1>1, <1>2, <1>5 DEF AttemptGood
<1>7. Plain' /\ MonitorGood' /\ (alert' = "confirm" <=> alert = "confirm")
  BY WaitStep DEF SaveTrust, OnlyTransport, connectionVars
<1> QED BY <1>1, <1>3, <1>4, <1>6, <1>7, MoveStep DEF SaveTrust, connectionVars

\* securityState answers, and the connection is complete or refused.
LEMMA SecuredStep ==
  ASSUME ConnectionAssumption, ConnectionInv, NEW a \in Attempts, Secured(a)
  PROVE  ConnectionInv'
<1>1. attempt[a].at = "state" /\ ~AwaitsConsent(a)
  BY DEF Secured, AwaitsConsent
<1>2. Plain /\ TrustGood /\ AttemptTypes /\ AttemptGood(a) /\ MonitorGood
  BY DEF ConnectionInv
<1>3. TrustGood' /\ TrustKept
  BY <1>2 DEF Secured, store, TrustGood, TrustKept
<1>4. CASE FailTrusted(a)
  BY <1>1, <1>3, <1>4, FailStep DEF FailTrusted
<1>5. ASSUME appState' = "home", isServerConnected' = TRUE, mode' = "https", Effects,
             UNCHANGED <<alert, transport, store, consent>>
      PROVE  Plain' /\ MonitorGood' /\ (alert' = "confirm" <=> alert = "confirm")
  <2>1. MonitorGood'
    BY <1>2, <1>5, MonitorStarted DEF Effects, ShellEffects
  <2>2. Plain'
    BY <1>2, <1>3, <1>5, EffectsTyped DEF Plain, transport, consent, Tabs
  <2> QED BY <1>5, <2>1, <2>2
<1>6. CASE attempt[a].kind = "pair" /\ MarkConnected("https") /\ appState' = "home"
           /\ attempt' = [attempt EXCEPT ![a] = Idle] /\ connectionAttemptRef' = FALSE
           /\ UNCHANGED <<alert, transport, store, consent>> /\ Effects
  BY <1>1, <1>3, <1>5, <1>6, EndStep DEF MarkConnected
<1>7. CASE attempt[a].kind # "pair"
           /\ isServerConnected' = TRUE /\ mode' = "https" /\ appState' = "home"
           /\ (IF attempt[a].kind = "trusted" THEN Leave(a)
               ELSE Move(a, "store") /\ UNCHANGED <<connectionAttemptRef, isConnecting>>)
           /\ UNCHANGED <<alert, pairingDesktopName, transport, store, consent>> /\ Effects
  <2>1. attempt[a].kind \in {"discovered", "trusted"} /\ ~AwaitsApproval(a)
    BY <1>1, <1>2, <1>7 DEF AttemptGood, AwaitsApproval, Pairings
  <2>2. Plain' /\ MonitorGood' /\ (alert' = "confirm" <=> alert = "confirm")
    BY <1>5, <1>7
  <2>3. CASE Leave(a)
    BY <1>1, <1>3, <1>7, <2>1, <2>2, <2>3, EndStep DEF Leave
  <2>4. CASE attempt[a].kind = "discovered" /\ Move(a, "store")
             /\ UNCHANGED <<connectionAttemptRef, isConnecting>>
    <3>1. "store" \in Stages /\ "store" \notin {"idle", "lookup", "confirm"}
      BY DEF Stages
    <3>2. attempt'[a].at = "store" /\ attempt'[a].kind = attempt[a].kind
      BY <1>2, <2>4, <3>1, MoveEffect
    <3>3. AttemptGood(a)'
      BY <2>4, <3>2 DEF AttemptGood
    <3> QED BY <1>1, <1>3, <1>7, <2>1, <2>2, <2>4, <3>1, <3>3, MoveStep
  <2> QED BY <1>7, <2>1, <2>3, <2>4
<1> QED BY <1>4, <1>6, <1>7 DEF Secured

\* Only the QR code can connect, or the refreshed receiver is stored.
LEMMA NearbyEnds ==
  ASSUME ConnectionAssumption, ConnectionInv, NEW a \in Attempts,
         ScanFirst(a) \/ StoreRefreshed(a)
  PROVE  ConnectionInv'
<1>1. ~AwaitsConsent(a) /\ ~AwaitsApproval(a)
  BY DEF ScanFirst, StoreRefreshed, AwaitsConsent, AwaitsApproval, Approval
<1>2. /\ Leave(a) /\ saved' \in {TRUE, FALSE, saved} /\ (ShowAlertOnce("scan") \/ UNCHANGED alert)
      /\ UNCHANGED <<appState, isServerConnected, pairingDesktopName, mode,
                     transport, credential, device, approvedOnce, consent, effects>>
      /\ ScanEffect(scanner)
  BY DEF ScanFirst, StoreRefreshed
<1>3. Plain /\ TrustGood
  BY DEF ConnectionInv
<1>4. TrustGood' /\ TrustKept
  BY <1>2, <1>3 DEF TrustGood, TrustKept
<1>5. alert' \in Alerts /\ (alert' = "confirm" <=> alert = "confirm")
  <2>1. CASE UNCHANGED alert
    BY <1>3, <2>1 DEF Plain
  <2> QED BY <1>2, <1>3, <2>1, AlertEffect
<1>6. Plain' /\ MonitorGood'
  <2>1. scanner' \in Scanners
    BY <1>2, <1>3, ScanTyped DEF Plain
  <2> QED BY <1>2, <1>5, <2>1, AlertStep
<1> QED BY <1>1, <1>2, <1>4, <1>5, <1>6, EndStep DEF Leave

\* The stored receiver and the credential are read.
LEMMA ReadSavedStep ==
  ASSUME ConnectionAssumption, ConnectionInv, NEW a \in Attempts, ReadSaved(a)
  PROVE  ConnectionInv'
<1>1. ~AwaitsConsent(a) /\ ~AwaitsApproval(a)
  BY DEF ReadSaved, AwaitsConsent, AwaitsApproval, Approval
<1>2. Plain /\ TrustGood /\ AttemptTypes
  BY DEF ConnectionInv
<1>3. PICK s \in {"credential", "configure"} : Move(a, s)
  BY DEF ReadSaved
<1>4. s \in Stages /\ s \notin {"idle", "lookup", "confirm"}
  BY DEF Stages
<1>5. attempt'[a].at = s
  BY <1>2, <1>3, <1>4, MoveEffect
<1>6. AttemptGood(a)'
  BY <1>5 DEF AttemptGood
<1>7. TrustGood' /\ TrustKept
  BY <1>2 DEF ReadSaved, store, TrustGood, TrustKept
<1>8. Plain' /\ MonitorGood' /\ (alert' = "confirm" <=> alert = "confirm")
  BY WaitStep DEF ReadSaved, OnlyTransport, connectionVars
<1> QED BY <1>1, <1>3, <1>4, <1>6, <1>7, <1>8, MoveStep DEF ReadSaved, connectionVars

\* handleTrustedReconnect takes the claim after its first await.
LEMMA LookupStep ==
  ASSUME ConnectionAssumption, ConnectionInv, NEW a \in Attempts, LookupCredential(a)
  PROVE  ConnectionInv'
<1>1. ~AwaitsConsent(a) /\ ~AwaitsApproval(a) /\ ~IsClaimed(a)
  BY DEF LookupCredential, AwaitsConsent, AwaitsApproval, Approval, IsClaimed
<1>2. Plain /\ TrustGood /\ AttemptTypes
  BY DEF ConnectionInv
<1>3. /\ TrustGood' /\ TrustKept
      /\ UNCHANGED <<appState, scanner, isServerConnected, pairingDesktopName, mode,
                     transport, consent, effects>>
  BY <1>2 DEF LookupCredential, store, TrustGood, TrustKept
<1>4. alert' \in Alerts /\ (alert' = "confirm" <=> alert = "confirm")
  <2>1. CASE UNCHANGED alert
    BY <1>2, <2>1 DEF Plain
  <2> QED BY <1>2, <2>1, AlertEffect DEF LookupCredential
<1>5. Plain' /\ MonitorGood'
  BY <1>2, <1>3, <1>4, AlertStep DEF Plain
<1>6. CASE Move(a, "configure") /\ connectionAttemptRef' = TRUE /\ isConnecting' = TRUE
  <2>1. "configure" \in Stages
    BY DEF Stages
  <2>2. /\ AttemptTypes' /\ attempt'[a].at = "configure"
        /\ \A b \in Attempts \ {a} : attempt'[b] = attempt[b]
    BY <1>2, <1>6, <2>1, MoveEffect
  <2>3. AttemptGood(a)' /\ IsClaimed(a)' /\ ~AwaitsConsent(a)'
    BY <2>2 DEF AttemptGood, IsClaimed, AwaitsConsent
  <2>4. ClaimFollows(a) /\ BannerFollows(a) /\ QuestionFollows(a)
    BY <1>1, <1>3, <1>4, <1>6, <2>3 DEF ClaimFollows, BannerFollows, QuestionFollows
  <2> QED BY <1>3, <1>5, <2>2, <2>3, <2>4, OneAttempt
<1>7. CASE attempt' = [attempt EXCEPT ![a] = Idle] /\ UNCHANGED <<connectionAttemptRef, isConnecting>>
  <2>1. /\ AttemptTypes' /\ attempt'[a].at = "idle"
        /\ \A b \in Attempts \ {a} : attempt'[b] = attempt[b]
    BY <1>2, <1>7, LeaveEffect
  <2>2. AttemptGood(a)' /\ ~AwaitsConsent(a)'
    BY <2>1 DEF AttemptGood, AwaitsConsent
  <2>3. ClaimFollows(a) /\ BannerFollows(a) /\ QuestionFollows(a)
    BY <1>1, <1>3, <1>4, <1>7, <2>2 DEF ClaimFollows, BannerFollows, QuestionFollows
  <2> QED BY <1>3, <1>5, <2>1, <2>2, <2>3, OneAttempt
<1> QED BY <1>6, <1>7 DEF LookupCredential

\* An await of an attempt settles.
LEMMA AttemptStepGood ==
  ASSUME ConnectionAssumption, ConnectionInv, NEW a \in Attempts, AttemptStep(a)
  PROVE  ConnectionInv'
  BY ConfiguredStep, PinningStep, PingAnsweredStep, ThrowsStep, IdentityStep, RequestStep,
     PollStep, AcceptedStep, RejectedStep, SaveStep, SecuredStep, NearbyEnds, ReadSavedStep,
     LookupStep DEF AttemptStep

-----------------------------------------------------------------------------
(* Connection: the monitor, the receiver and the requests *)

\* The answer to the monitor's ping, and the timer that sends the next one.
LEMMA MonitorStepGood ==
  ASSUME ConnectionAssumption, ConnectionInv, MonitorStep
  PROVE  ConnectionInv'
<1>1. Plain /\ TrustGood /\ MonitorGood
  BY DEF ConnectionInv
<1>2. /\ TrustGood' /\ TrustKept
      /\ UNCHANGED <<appState, scanner, alert, connectionAttemptRef, isConnecting,
                     pairingDesktopName, mode, api, allowInsecureHttp, httpConfirmed, closing,
                     attempt, savedReceiver>>
  BY <1>1 DEF MonitorStep, HealthAnswered, HealthTimer, connectionVars, transport, store,
     consent, TrustGood, TrustKept
<1>3. native' \in Transports /\ isServerConnected' \in BOOLEAN /\ requests' \in BOOLEAN
  BY <1>1, VerifiedTyped DEF MonitorStep, HealthAnswered, HealthTimer, connectionVars,
     transport, RequestEffect, Plain
<1>4. Plain'
  BY <1>1, <1>2, <1>3 DEF Plain
<1>5. MonitorGood'
  <2>1. /\ health \in [failures : 0..MaxFailures, ping : {"no", "sent", "unsent"}, timer : BOOLEAN]
        /\ health.ping # "no" \/ health.timer => health.failures < MaxFailures
    BY <1>1 DEF MonitorGood
  <2>2. CASE HealthAnswered
    <3>1. health.failures \in 0..MaxFailures /\ health.failures < MaxFailures
      BY <2>1, <2>2 DEF HealthAnswered
    <3>2. PICK n \in {0, health.failures + 1} :
            health' = [failures |-> n, ping |-> "no", timer |-> n < MaxFailures]
      BY <2>2 DEF HealthAnswered
    <3>3. n \in 0..MaxFailures /\ (n < MaxFailures \/ n = MaxFailures)
      BY SMTT(60), <3>1 DEF ConnectionAssumption
    <3>4. CASE n < MaxFailures
      <4>1. health' = [failures |-> n, ping |-> "no", timer |-> TRUE]
        BY <3>2, <3>4
      <4> QED BY <3>3, <3>4, <4>1 DEF MonitorGood
    <3>5. CASE n = MaxFailures
      <4>1. (n < MaxFailures) = FALSE
        BY SMTT(60), <3>5 DEF ConnectionAssumption
      <4>2. health' = [failures |-> n, ping |-> "no", timer |-> FALSE]
        BY <3>2, <4>1
      <4> QED BY <3>3, <3>5, <4>2 DEF MonitorGood, Lost
    <3> QED BY <3>3, <3>4, <3>5
  <2>3. CASE HealthTimer
    <3> DEFINE h == [health EXCEPT !.timer = FALSE]
    <3>1. /\ h \in [failures : 0..MaxFailures, ping : {"no", "sent", "unsent"}, timer : BOOLEAN]
          /\ h.failures \in 0..MaxFailures /\ h.failures < MaxFailures /\ health' = Validate(h)
      BY <2>1, <2>3 DEF HealthTimer
    <3> QED BY <3>1, ValidateEffect
  <2> QED BY <2>2, <2>3 DEF MonitorStep
<1> QED BY <1>2, <1>4, <1>5, QuietStep

\* The person at the receiver decides.
LEMMA ReceiverStep ==
  ASSUME ConnectionInv, ReceiverDecides
  PROVE  ConnectionInv'
<1>1. TrustGood
  BY DEF ConnectionInv
<1>2. credential
  BY <1>1 DEF TrustGood, ReceiverDecides
<1>3. TrustGood' /\ TrustKept
  BY <1>1, <1>2 DEF ReceiverDecides, TrustGood, TrustKept
<1>4. Plain' /\ MonitorGood' /\ (alert' = "confirm" <=> alert = "confirm")
  BY WaitStep DEF ReceiverDecides, OnlyTransport, connectionVars
<1> QED BY <1>3, <1>4, QuietStep DEF ReceiverDecides, connectionVars

\* The answer to a request of the connection.
LEMMA AnsweredStep ==
  ASSUME ConnectionInv, RequestAnswered
  PROVE  ConnectionInv'
<1>1. /\ UNCHANGED <<appState, scanner, alert, connectionAttemptRef, isServerConnected,
                     isConnecting, pairingDesktopName, mode, api, saved, credential,
                     device, approvedOnce, allowInsecureHttp, httpConfirmed, closing, attempt,
                     savedReceiver, health>>
      /\ requests' = FALSE /\ (Verified \/ UNCHANGED native)
  BY DEF RequestAnswered, connectionVars, store, consent
<1>2. Plain'
  <2>1. Plain
    BY DEF ConnectionInv
  <2>2. native' \in Transports
    BY <1>1, <2>1, VerifiedTyped DEF Plain
  <2> QED BY <1>1, <2>1, <2>2 DEF Plain
<1>3. TrustGood' /\ TrustKept
  BY <1>1 DEF ConnectionInv, TrustGood, TrustKept
<1> QED BY <1>1, <1>2, <1>3, MonitorKept, QuietStep

\* The connection, and perhaps the stored trust, are given up.
LEMMA GiveUpStep ==
  ASSUME ConnectionAssumption, ConnectionInv,
         Forget, MarkDisconnected, MonitorEffect, UNCHANGED attempt,
         appState' = "connect", alert' \in Alerts, alert' = "confirm" <=> alert = "confirm",
         UNCHANGED connectionAttemptRef, TrustGood', TrustKept,
         scanner' \in Scanners, savedReceiver' \in BOOLEAN,
         requests' \in BOOLEAN, allowInsecureHttp' \in BOOLEAN, httpConfirmed' \in BOOLEAN,
         closing' \in BOOLEAN
  PROVE  ConnectionInv'
<1>1. MonitorGood'
  BY MonitorStarted DEF ConnectionInv
<1>2. isServerConnected' \in BOOLEAN /\ mode' \in {"disconnected", "https", "http"}
  BY DEF MarkDisconnected
<1>3. appState' \in Tabs
  BY DEF Tabs
<1>4. Plain'
  BY <1>2, <1>3, ForgetTyped DEF Plain
<1> QED BY <1>1, <1>4, QuietStep DEF MarkDisconnected

\* A 401 answers a request: the trust is given up.
LEMMA AuthenticationStep ==
  ASSUME ConnectionAssumption, ConnectionInv, AuthenticationFailure
  PROVE  ConnectionInv'
<1>1. Plain /\ TrustGood
  BY DEF ConnectionInv
<1>2. TrustGood' /\ TrustKept
  BY <1>1 DEF AuthenticationFailure, TrustGood, TrustKept
<1>3. scanner' \in Scanners /\ savedReceiver' \in BOOLEAN /\ requests' \in BOOLEAN
  <2>1. [scanner EXCEPT !.asked = FALSE] \in Scanners
    BY <1>1 DEF Plain, Scanners
  <2>2. scanner' \in Scanners
    BY <2>1, ScanTyped DEF AuthenticationFailure
  <2> QED BY <1>1, <1>2, <2>2 DEF AuthenticationFailure, SavedEffect, Plain, TrustGood
<1>4. /\ allowInsecureHttp' \in BOOLEAN /\ httpConfirmed' \in BOOLEAN /\ closing' \in BOOLEAN
      /\ alert' \in Alerts
  BY <1>1 DEF AuthenticationFailure, consent, Plain
<1> QED BY <1>2, <1>3, <1>4, GiveUpStep DEF AuthenticationFailure

\* The HTTP connection is closed after HTTP was turned off.
LEMMA CloseStep ==
  ASSUME ConnectionAssumption, ConnectionInv, CloseHttp
  PROVE  ConnectionInv'
<1>1. Plain /\ TrustGood
  BY DEF ConnectionInv
<1>2. TrustGood' /\ TrustKept
  BY <1>1 DEF CloseHttp, store, TrustGood, TrustKept
<1>3. scanner' \in Scanners /\ savedReceiver' \in BOOLEAN /\ requests' \in BOOLEAN
  BY <1>1, <1>2, EffectsTyped DEF CloseHttp
<1>4. allowInsecureHttp' \in BOOLEAN /\ httpConfirmed' \in BOOLEAN /\ closing' \in BOOLEAN
  BY <1>1 DEF CloseHttp, Plain
<1>5. alert' \in Alerts /\ (alert' = "confirm" <=> alert = "confirm")
  BY <1>1, AlertEffect DEF CloseHttp
<1> QED BY <1>2, <1>3, <1>4, <1>5, GiveUpStep DEF CloseHttp, Effects, ShellEffects

-----------------------------------------------------------------------------
(* Connection: the user *)

\* A change of screen.
LEMMA GotoStep ==
  ASSUME ConnectionAssumption, ConnectionInv, NEW x \in Tabs \cup {"picker", "transfer"}, Goto(x)
  PROVE  ConnectionInv'
<1>1. Plain /\ TrustGood /\ MonitorGood
  BY DEF ConnectionInv
<1>2. /\ UNCHANGED <<alert, connectionAttemptRef, isServerConnected, isConnecting,
                     pairingDesktopName, mode, api, native, saved, credential, device,
                     approvedOnce, allowInsecureHttp, httpConfirmed, closing, attempt>>
      /\ appState' = x /\ Effects
  BY DEF Goto, connectionVars, transport, store, consent
<1>3. TrustGood' /\ TrustKept
  BY <1>1, <1>2 DEF TrustGood, TrustKept
<1>4. MonitorGood'
  BY <1>1, <1>2, MonitorStarted DEF Effects, ShellEffects
<1>5. Plain'
  BY <1>1, <1>2, <1>3, EffectsTyped DEF Plain
<1> QED BY <1>2, <1>3, <1>4, <1>5, QuietStep

\* The screens the user may choose.
LEMMA NavigationStep ==
  ASSUME ConnectionAssumption, ConnectionInv,
         SelectTab \/ OpenPicker \/ CancelPicker \/ HandleTransfer \/ LeaveTransfer
  PROVE  ConnectionInv'
<1>1. "home" \in Tabs
  BY DEF Tabs
<1>2. CASE SelectTab
  <2>1. PICK tab \in Tabs \ {appState} : Goto(tab)
    BY <1>2 DEF SelectTab
  <2> QED BY <2>1, GotoStep
<1>3. CASE OpenPicker \/ CancelPicker \/ HandleTransfer \/ LeaveTransfer
  BY <1>1, <1>3, GotoStep DEF OpenPicker, CancelPicker, HandleTransfer, LeaveTransfer
<1> QED BY <1>2, <1>3

\* The user disconnects.
LEMMA DisconnectStep ==
  ASSUME ConnectionAssumption, ConnectionInv, HandleDisconnect
  PROVE  ConnectionInv'
<1>1. Plain /\ TrustGood
  BY DEF ConnectionInv
<1>2. TrustGood' /\ TrustKept
  BY <1>1 DEF HandleDisconnect, store, TrustGood, TrustKept
<1>3. scanner' \in Scanners /\ savedReceiver' \in BOOLEAN /\ requests' \in BOOLEAN
  <2>1. [scanner EXCEPT !.asked = FALSE] \in Scanners
    BY <1>1 DEF Plain, Scanners
  <2>2. scanner' \in Scanners
    BY <2>1, ScanTyped DEF HandleDisconnect
  <2> QED BY <1>1, <1>2, <2>2, ShellTyped DEF HandleDisconnect
<1>4. /\ allowInsecureHttp' \in BOOLEAN /\ httpConfirmed' \in BOOLEAN /\ closing' \in BOOLEAN
      /\ alert' \in Alerts
  BY <1>1 DEF HandleDisconnect, Plain
<1> QED BY <1>2, <1>3, <1>4, GiveUpStep DEF HandleDisconnect, ShellEffects

\* The camera is opened or closed, HTTP is allowed or disallowed, an alert is
\* shown that asks for no consent or is answered.
LEMMA ScreenStep ==
  ASSUME ConnectionInv,
         UNCHANGED <<appState, connectionAttemptRef, isServerConnected, mode, transport, store,
                     attempt, effects>>,
         isConnecting' \in {FALSE, isConnecting},
         pairingDesktopName' \in {FALSE, pairingDesktopName},
         scanner' \in Scanners, alert' \in Alerts, alert' = "confirm" <=> alert = "confirm",
         allowInsecureHttp' \in BOOLEAN, httpConfirmed' \in BOOLEAN, closing' \in BOOLEAN
  PROVE  ConnectionInv'
<1>1. Plain /\ TrustGood
  BY DEF ConnectionInv
<1>2. UNCHANGED <<api, native, savedReceiver, health, requests,
                  saved, credential, device, approvedOnce>>
  BY DEF transport, effects, store
<1>3. Plain'
  BY <1>1, <1>2 DEF Plain
<1>4. TrustGood' /\ TrustKept
  BY <1>1, <1>2 DEF TrustGood, TrustKept
<1> QED BY <1>2, <1>3, <1>4, MonitorKept, QuietStep

\* What the user does to the camera, the alerts and the consent to HTTP.
LEMMA AnswersStep ==
  ASSUME ConnectionInv,
         \/ StartScanning \/ StopScanning \/ RefuseTransport \/ AskAllowHttp \/ DisallowHttp
         \/ DismissAlert \/ AllowHttp
  PROVE  ConnectionInv'
<1>1. Plain
  BY DEF ConnectionInv
<1>2. "none" \in Alerts /\ "allow" \in Alerts /\ "info" # "confirm"
  BY DEF Alerts
<1>9. \A open \in BOOLEAN : [scanner EXCEPT !.open = open] \in Scanners
  BY <1>1 DEF Plain, Scanners
<1>3. CASE StartScanning \/ StopScanning
  <2>1. scanner' \in Scanners
    BY <1>3, <1>9 DEF StartScanning, StopScanning
  <2> QED BY <1>1, <1>3, <2>1, ScreenStep DEF StartScanning, StopScanning, connectionVars, consent,
          Plain
<1>4. CASE RefuseTransport
  <2>1. alert' \in Alerts /\ (alert' = "confirm" <=> alert = "confirm")
    BY <1>1, <1>4, AlertEffect DEF RefuseTransport
  <2>2. scanner' \in Scanners
    BY <1>4, <1>9 DEF RefuseTransport
  <2> QED BY <1>1, <1>4, <2>1, <2>2, ScreenStep DEF RefuseTransport, consent, Plain
<1>5. CASE AskAllowHttp
  BY <1>1, <1>2, <1>5, ScreenStep DEF AskAllowHttp, connectionVars, consent, Plain
<1>6. CASE DisallowHttp
  BY <1>1, <1>6, ScreenStep DEF DisallowHttp, connectionVars, Plain
<1>7. CASE DismissAlert
  BY <1>1, <1>2, <1>7, ScreenStep DEF DismissAlert, connectionVars, consent, Plain
<1>8. CASE AllowHttp
  BY <1>1, <1>2, <1>8, ScreenStep DEF AllowHttp, connectionVars, Plain
<1> QED BY <1>3, <1>4, <1>5, <1>6, <1>7, <1>8

\* openQrScanner gives up the claim, whatever attempt holds it.
LEMMA ScannerStep ==
  ASSUME ConnectionAssumption, ConnectionInv, OpenQrScanner
  PROVE  ConnectionInv'
<1>1. Plain /\ TrustGood /\ MonitorGood
  BY DEF ConnectionInv
<1>2. /\ UNCHANGED <<isServerConnected, mode, api, native, saved, credential, device, approvedOnce,
                     allowInsecureHttp, httpConfirmed, closing, attempt>>
      /\ appState' = "connect" /\ ShellEffects /\ alert' = "none" /\ alert # "confirm"
      /\ connectionAttemptRef' = FALSE /\ isConnecting' = FALSE /\ pairingDesktopName' = FALSE
  BY DEF OpenQrScanner, transport, store, consent
<1>3. TrustGood' /\ TrustKept
  BY <1>1, <1>2 DEF TrustGood, TrustKept
<1>4. MonitorGood'
  BY <1>1, <1>2, MonitorStarted DEF ShellEffects
<1>5. appState' \in Tabs /\ alert' \in Alerts
  BY <1>2 DEF Tabs, Alerts
<1>6. Plain'
  <2>1. \A due \in BOOLEAN : [scanner EXCEPT !.due = due] \in Scanners
    BY <1>1 DEF Plain, Scanners
  <2>2. scanner.due \in BOOLEAN
    BY <1>1 DEF Plain, Scanners
  <2>3. scanner' \in Scanners
    BY <2>1, <2>2, ScanTyped DEF OpenQrScanner
  <2> QED BY <1>1, <1>2, <1>3, <1>5, <2>3, ShellTyped DEF Plain
<1> QED BY <1>2, <1>3, <1>4, <1>6, QuietStep

\* The timer of the scan shows the connect screen.
LEMMA ScanRequestStep ==
  ASSUME ConnectionAssumption, ConnectionInv, RequestQrScan
  PROVE  ConnectionInv'
<1>1. Plain /\ TrustGood /\ MonitorGood
  BY DEF ConnectionInv
<1>2. /\ UNCHANGED <<alert, connectionAttemptRef, isServerConnected, isConnecting,
                     pairingDesktopName, mode, api, native, saved, credential, device,
                     approvedOnce, allowInsecureHttp, httpConfirmed, closing, attempt>>
      /\ appState' = "connect" /\ ShellEffects
  BY DEF RequestQrScan, connectionVars, transport, store, consent
<1>3. TrustGood' /\ TrustKept
  BY <1>1, <1>2 DEF TrustGood, TrustKept
<1>4. MonitorGood'
  BY <1>1, <1>2, MonitorStarted DEF ShellEffects
<1>5. scanner' \in Scanners
  <2>1. PICK open \in BOOLEAN : scanner' = [open |-> open, due |-> FALSE, asked |-> TRUE]
    BY DEF RequestQrScan
  <2> QED BY <2>1 DEF Scanners
<1>6. Plain'
  <2>1. appState' \in Tabs
    BY <1>2 DEF Tabs
  <2> QED BY <1>1, <1>2, <1>3, <1>5, <2>1, ShellTyped DEF Plain
<1> QED BY <1>2, <1>3, <1>4, <1>6, QuietStep

\* The monitor is started anew, or validates the connection at once.
LEMMA RetryStep ==
  ASSUME ConnectionAssumption, ConnectionInv, RetryConnection \/ Foreground
  PROVE  ConnectionInv'
<1>1. Plain /\ TrustGood /\ MonitorGood
  BY DEF ConnectionInv
<1>2. UNCHANGED <<appState, scanner, alert, connectionAttemptRef, isServerConnected, isConnecting,
                  pairingDesktopName, mode, api, native, saved, credential, device, approvedOnce,
                  allowInsecureHttp, httpConfirmed, closing, attempt, savedReceiver, requests>>
  BY DEF RetryConnection, Foreground, connectionVars, transport, store, consent
<1>4. Plain'
  BY <1>1, <1>2 DEF Plain
<1>5. TrustGood' /\ TrustKept
  BY <1>1, <1>2 DEF TrustGood, TrustKept
<1>6. 0 \in 0..MaxFailures /\ 0 < MaxFailures
  BY SMTT(60) DEF ConnectionAssumption
<1>7. MonitorGood'
  <2>1. CASE RetryConnection
    <3>1. /\ NoMonitor.failures = 0
          /\ NoMonitor \in [failures : 0..MaxFailures, ping : {"no", "sent", "unsent"}, timer : BOOLEAN]
      BY <1>6 DEF NoMonitor
    <3> QED BY <1>6, <2>1, <3>1, ValidateEffect DEF RetryConnection, FreshMonitor
  <2>2. CASE Foreground
    <3> DEFINE h == [health EXCEPT !.failures = 0, !.timer = FALSE]
    <3>1. /\ h.failures = 0
          /\ h \in [failures : 0..MaxFailures, ping : {"no", "sent", "unsent"}, timer : BOOLEAN]
      BY <1>1, <1>6 DEF MonitorGood
    <3> QED BY <1>6, <2>2, <3>1, ValidateEffect DEF Foreground
  <2> QED BY <2>1, <2>2
<1> QED BY <1>2, <1>4, <1>5, <1>7, QuietStep

\* The user begins an attempt.
LEMMA BeginStep ==
  ASSUME ConnectionAssumption, ConnectionInv, NEW a \in Attempts,
         \/ PairSecurely(a) \/ ConnectOverHttp(a)
         \/ HandleDiscoveredServer(a) \/ HandleTrustedReconnect(a)
  PROVE  ConnectionInv'
<1>1. Plain /\ TrustGood /\ AttemptTypes
  BY DEF ConnectionInv
<1>2. attempt[a] = Idle
  BY DEF PairSecurely, ConnectOverHttp, MayConnect, HandleDiscoveredServer,
     HandleTrustedReconnect, Free
<1>3. ~AwaitsConsent(a) /\ ~AwaitsApproval(a) /\ ~IsClaimed(a)
  BY SMTT(60), <1>2 DEF AwaitsConsent, AwaitsApproval, Approval, IsClaimed, Idle
<1>4. /\ UNCHANGED <<appState, isServerConnected, pairingDesktopName, mode, native,
                     store, consent, effects>>
      /\ scanner' \in Scanners
  <2>1. scanner \in Scanners /\ [scanner EXCEPT !.open = FALSE] \in Scanners
    BY <1>1 DEF Plain, Scanners
  <2> QED BY <2>1 DEF PairSecurely, ConnectOverHttp, HandleDiscoveredServer,
          HandleTrustedReconnect, connectionVars, transport
<1>5. TrustGood' /\ TrustKept
  BY <1>1, <1>4 DEF store, TrustGood, TrustKept
<1>6. api' \in AddressStates
  <2>1. CASE UNCHANGED api
    BY <1>1, <2>1 DEF Plain
  <2>2. [url |-> "http", token |-> "session"] \in AddressStates
    BY DEF AddressStates
  <2> QED BY <2>1, <2>2 DEF PairSecurely, ConnectOverHttp, HandleDiscoveredServer,
          HandleTrustedReconnect, transport
<1>7. PICK r \in AttemptRecords, s \in {"configure", "ping", "confirm", "read", "lookup"} :
        /\ attempt' = [attempt EXCEPT ![a] = r] /\ r.at = s
        /\ IF s = "confirm" THEN alert = "none" /\ alert' = "confirm" ELSE UNCHANGED alert
        /\ IF s = "lookup" THEN UNCHANGED <<isConnecting, connectionAttemptRef>>
           ELSE isConnecting' = TRUE /\ connectionAttemptRef' = TRUE
  <2>0. MaxPolls \in Nat /\ MaxActivations \in Nat
    BY DEF ConnectionAssumption
  <2>1. 0 \in 0..(MaxPolls + MaxActivations)
    BY ONLY SMTT(60), <2>0
  <2>2. Idle \in AttemptRecords
    BY <2>1 DEF Idle, AttemptRecords, Kinds, Stages
  <2>3. \A k \in Kinds, s \in Stages :
          /\ [Idle EXCEPT !.kind = k, !.at = s] \in AttemptRecords
          /\ [Idle EXCEPT !.kind = k, !.at = s].at = s
    BY <2>2 DEF AttemptRecords
  <2>4. CASE PairSecurely(a)
    <3> DEFINE r == [kind |-> "pair", at |-> "configure", tries |-> 0, confirmed |-> httpConfirmed]
    <3>1. r \in AttemptRecords /\ r.at = "configure"
      BY <1>1, <2>1 DEF AttemptRecords, Kinds, Stages, Plain
    <3> QED BY <2>4, <3>1 DEF PairSecurely
  <2>5. CASE ConnectOverHttp(a)
    <3>1. PICK s \in {"ping", "confirm"} :
            /\ attempt' = [attempt EXCEPT ![a] = [Idle EXCEPT !.kind = "http", !.at = s]]
            /\ IF s = "confirm" THEN alert = "none" /\ alert' = "confirm" ELSE UNCHANGED alert
      BY <2>5 DEF ConnectOverHttp
    <3>2. "http" \in Kinds /\ s \in Stages
      BY DEF Kinds, Stages
    <3>3. [Idle EXCEPT !.kind = "http", !.at = s] \in AttemptRecords
      BY <2>3, <3>2
    <3>4. [Idle EXCEPT !.kind = "http", !.at = s].at = s
      BY <2>3, <3>2
    <3> QED BY <2>5, <3>1, <3>3, <3>4 DEF ConnectOverHttp
  <2>6. CASE HandleDiscoveredServer(a)
    <3>1. "discovered" \in Kinds /\ "read" \in Stages
      BY DEF Kinds, Stages
    <3> QED BY <2>3, <2>6, <3>1 DEF HandleDiscoveredServer
  <2>7. CASE HandleTrustedReconnect(a)
    <3>1. "trusted" \in Kinds /\ "lookup" \in Stages
      BY DEF Kinds, Stages
    <3> QED BY <2>3, <2>7, <3>1 DEF HandleTrustedReconnect, connectionVars
  <2> QED BY <2>4, <2>5, <2>6, <2>7
<1>8. /\ AttemptTypes' /\ attempt'[a].at = s
      /\ \A b \in Attempts \ {a} : attempt'[b] = attempt[b]
  BY <1>1, <1>7 DEF AttemptTypes
<1>9. /\ AttemptGood(a)'
      /\ IsClaimed(a)' <=> s # "lookup"
      /\ AwaitsConsent(a)' <=> s = "confirm"
  BY <1>8 DEF AttemptGood, IsClaimed, AwaitsConsent
<1>10. ClaimFollows(a) /\ BannerFollows(a) /\ QuestionFollows(a)
  BY <1>3, <1>4, <1>7, <1>9 DEF ClaimFollows, BannerFollows, QuestionFollows
<1>11. alert' \in Alerts
  BY <1>1, <1>7 DEF Alerts, Plain
<1>12. Plain'
  BY <1>1, <1>4, <1>6, <1>11 DEF Plain, consent, effects
<1>13. MonitorGood'
  BY <1>4, MonitorKept DEF effects
<1> QED BY <1>5, <1>8, <1>9, <1>10, <1>12, <1>13, OneAttempt

\* The question about HTTP is answered.
LEMMA ConfirmationStep ==
  ASSUME ConnectionAssumption, ConnectionInv, NEW a \in Attempts, AnswerConfirmation(a)
  PROVE  ConnectionInv'
<1>1. Plain /\ TrustGood /\ AttemptTypes
  BY DEF ConnectionInv
<1>2. AwaitsConsent(a) /\ ~AwaitsApproval(a)
  BY DEF AnswerConfirmation, AwaitsConsent, AwaitsApproval, Approval
<1>3. alert' \in Alerts /\ alert' # "confirm"
  BY DEF AnswerConfirmation, Alerts
<1>4. /\ UNCHANGED <<appState, isServerConnected, mode, native, saved, credential, device,
                     approvedOnce, allowInsecureHttp, closing, savedReceiver, health, requests>>
      /\ httpConfirmed' \in BOOLEAN /\ scanner' \in Scanners
  <2>1. scanner' \in Scanners
    BY <1>1, ScanTyped DEF AnswerConfirmation, Plain
  <2> QED BY <1>1, <2>1 DEF AnswerConfirmation, store, effects, Plain
<1>5. api' \in AddressStates
  <2>1. [url |-> "http", token |-> "session"] \in AddressStates
    BY DEF AddressStates
  <2> QED BY <1>1, <2>1 DEF AnswerConfirmation, Plain
<1>6. Plain' /\ MonitorGood'
  BY <1>1, <1>3, <1>4, <1>5, MonitorKept DEF Plain
<1>7. TrustGood' /\ TrustKept
  BY <1>1, <1>4 DEF TrustGood, TrustKept
<1>8. CASE Move(a, "ping") /\ UNCHANGED <<connectionAttemptRef, isConnecting, pairingDesktopName>>
  <2>1. "ping" \in Stages
    BY DEF Stages
  <2>2. /\ AttemptTypes' /\ attempt'[a].at = "ping"
        /\ \A b \in Attempts \ {a} : attempt'[b] = attempt[b]
    BY <1>1, <1>8, <2>1, MoveEffect
  <2>3. AttemptGood(a)' /\ IsClaimed(a)' /\ ~AwaitsConsent(a)'
    BY <2>2 DEF AttemptGood, IsClaimed, AwaitsConsent
  <2>4. ClaimFollows(a) /\ BannerFollows(a) /\ QuestionFollows(a)
    BY <1>2, <1>3, <1>8, <2>3 DEF ClaimFollows, BannerFollows, QuestionFollows,
       ConnectionInv, IndicatorsGood
  <2> QED BY <1>6, <1>7, <2>2, <2>3, <2>4, OneAttempt
<1>9. CASE Leave(a) /\ pairingDesktopName' = FALSE
  <2>1. /\ AttemptTypes' /\ attempt'[a].at = "idle"
        /\ \A b \in Attempts \ {a} : attempt'[b] = attempt[b]
    BY <1>1, <1>9, LeaveEffect DEF Leave
  <2>2. AttemptGood(a)' /\ ~AwaitsConsent(a)'
    BY <2>1 DEF AttemptGood, AwaitsConsent
  <2>3. ClaimFollows(a) /\ BannerFollows(a) /\ QuestionFollows(a)
    BY <1>2, <1>3, <1>9, <2>2 DEF Leave, ClaimFollows, BannerFollows, QuestionFollows
  <2> QED BY <1>6, <1>7, <2>1, <2>2, <2>3, OneAttempt
<1> QED BY <1>8, <1>9 DEF AnswerConfirmation

-----------------------------------------------------------------------------
(* Connection: the theorems *)

\* Every step keeps the invariant.
LEMMA ConnectionStep ==
  ASSUME ConnectionAssumption, ConnectionInv, [Next]_vars
  PROVE  ConnectionInv'
<1>1. CASE UNCHANGED vars
  <2>1. UNCHANGED <<appState, scanner, alert, connectionAttemptRef, isServerConnected, isConnecting,
                    pairingDesktopName, mode, api, native, saved, savedReceiver, credential, device,
                    allowInsecureHttp, httpConfirmed, closing, attempt, health, requests,
                    approvedOnce>>
    BY <1>1 DEF vars, connectionVars, transport, store, consent, effects
  <2>2. Plain' /\ MonitorGood'
    BY <2>1, MonitorKept DEF ConnectionInv, Plain
  <2>3. TrustGood' /\ TrustKept
    BY <2>1 DEF ConnectionInv, TrustGood, TrustKept
  <2> QED BY <2>1, <2>2, <2>3, QuietStep
<1>2. ASSUME NEW a \in Attempts, AttemptStep(a) PROVE ConnectionInv'
  BY <1>2, AttemptStepGood
<1>3. CASE MonitorStep
  BY <1>3, MonitorStepGood
<1>4. CASE OtherStep
  BY <1>4, ReceiverStep, AnsweredStep, CloseStep, AuthenticationStep, ScanRequestStep DEF OtherStep
<1>5. CASE UserBegins
  BY <1>5, AnswersStep, BeginStep, NavigationStep, DisconnectStep, RetryStep DEF UserBegins
<1>6. CASE UserAnswers
  BY <1>6, AnswersStep, NavigationStep, ConfirmationStep, ScannerStep DEF UserAnswers
<1> QED BY <1>1, <1>2, <1>3, <1>4, <1>5, <1>6 DEF Next

\* ConnectionInv holds in every state, for any number of overlapping attempts
\* of any kind and any limits on polls, activations and failures.
THEOREM ConnectionInvariant == Spec => []ConnectionInv
<1>1. Init => ConnectionInv
  <2> SUFFICES ASSUME Init PROVE ConnectionInv
    OBVIOUS
  <2>1. Plain
    <3>1. api \in AddressStates
      BY DEF Init, Unset, AddressStates
    <3>2. scanner \in Scanners
      BY DEF Init, Scanners
    <3> QED BY <3>1, <3>2 DEF Init, Plain, Tabs, Alerts, Transports
  <2>2. TrustGood
    BY DEF Init, TrustGood
  <2>3. 0 \in 0..(MaxPolls + MaxActivations) /\ 0 \in 0..MaxFailures /\ 0 < MaxFailures
    BY SMTT(60), ConnectionAssumption DEF ConnectionAssumption
  <2>4. AttemptTypes /\ \A a \in Attempts : attempt[a].at = "idle"
    <3>1. Idle \in AttemptRecords /\ Idle.at = "idle"
      BY <2>3 DEF Idle, AttemptRecords, Kinds, Stages
    <3> QED BY <3>1 DEF Init, AttemptTypes
  <2>5. \A a \in Attempts : AttemptGood(a) /\ ~AwaitsConsent(a)
    BY <2>4 DEF AttemptGood, AwaitsConsent
  <2>6. IndicatorsGood
    <3>1. alert # "confirm"
      BY DEF Init
    <3> QED BY <2>5, <3>1 DEF Init, IndicatorsGood
  <2>7. MonitorGood
    BY <2>3 DEF Init, MonitorGood, NoMonitor, Monitored
  <2> QED BY <2>1, <2>2, <2>4, <2>5, <2>6, <2>7 DEF ConnectionInv
<1>2. ConnectionInv /\ [Next]_vars => ConnectionInv'
  BY ConnectionAssumption, ConnectionStep
<1> QED BY <1>1, <1>2, PTL DEF Spec

\* However attempts, authentication failures, the scanner and the monitor
\* interleave, isConnecting, the claim and the approval banner always have an
\* attempt that will clear them, the question about HTTP has the attempt that
\* waits for the answer, and a monitor that has not given up is not silent.
THEOREM IndicatorsAreReal == Spec => []BusyIsReal
<1>1. ConnectionInv => BusyIsReal
  <2> SUFFICES ASSUME ConnectionInv PROVE BusyIsReal
    OBVIOUS
  <2>1. Plain /\ TrustGood /\ AttemptTypes /\ IndicatorsGood /\ MonitorGood
    BY DEF ConnectionInv
  <2>2. TypeOK
    <3>1. \A flag \in {connectionAttemptRef, isServerConnected, isConnecting,
                       pairingDesktopName, savedReceiver, credential, allowInsecureHttp,
                       httpConfirmed, closing, saved, requests,
                       approvedOnce} : flag \in BOOLEAN
      <4>1. /\ savedReceiver \in BOOLEAN /\ allowInsecureHttp \in BOOLEAN
            /\ httpConfirmed \in BOOLEAN /\ closing \in BOOLEAN
            /\ requests \in BOOLEAN /\ isServerConnected \in BOOLEAN
        BY <2>1 DEF Plain
      <4>2. saved \in BOOLEAN /\ credential \in BOOLEAN /\ approvedOnce \in BOOLEAN
        BY <2>1 DEF TrustGood
      <4>3. /\ isConnecting \in BOOLEAN /\ connectionAttemptRef \in BOOLEAN
            /\ pairingDesktopName \in BOOLEAN
        BY <2>1 DEF IndicatorsGood
      <4> QED BY ONLY ZenonT(60), <4>1, <4>2, <4>3
    <3>2. /\ appState \in Tabs \cup {"picker", "transfer"} /\ alert \in Alerts
          /\ mode \in {"disconnected", "https", "http"} /\ api \in AddressStates /\ native \in Transports
          /\ device \in {"refused", "pending", "approved"} /\ scanner \in Scanners
      BY <2>1 DEF Plain, TrustGood
    <3>3. /\ health \in [failures : 0..MaxFailures, ping : {"no", "sent", "unsent"}, timer : BOOLEAN]
          /\ alert = "confirm" <=> \E a \in Attempts : attempt[a].at = "confirm"
      BY <2>1 DEF MonitorGood, IndicatorsGood, AwaitsConsent
    <3>4. attempt \in [Attempts -> AttemptRecords]
      BY <2>1 DEF AttemptTypes
    <3> QED BY ONLY ZenonT(60), <3>1, <3>2, <3>3, <3>4
            DEF TypeOK, Alerts, AddressStates, Transports, AttemptRecords
  <2>3. \A a \in Attempts : IsClaimed(a) <=> a \in Claimed
    BY DEF IsClaimed, Claimed
  <2>4. \A a \in Attempts : AwaitsApproval(a) => a \in Claimed /\ attempt[a].at \in Approval
    BY DEF AwaitsApproval, Approval, Claimed
  <2> QED BY <2>1, <2>2, <2>3, <2>4 DEF BusyIsReal, IndicatorsGood, MonitorGood, Approval
<1> QED BY <1>1, ConnectionInvariant, PTL

\* The record of a receiver appears in the store only after the receiver has
\* approved the credential in use, or as what a nearby reconnection read there.
THEOREM TrustIsAlwaysEarned == Spec => TrustIsEarned
<1>1. ConnectionInv /\ [Next]_vars =>
        [~saved /\ saved' =>
           \/ approvedOnce
           \/ \E a \in Attempts : attempt[a].kind = "discovered" /\ attempt[a].at = "store"]_vars
  <2> SUFFICES ASSUME ConnectionInv, Next, ~saved, saved'
               PROVE  \/ approvedOnce
                      \/ \E a \in Attempts : attempt[a].kind = "discovered" /\ attempt[a].at = "store"
    OBVIOUS
  <2>1. ASSUME NEW a \in Attempts, SaveTrust(a) PROVE approvedOnce
    BY <2>1 DEF SaveTrust, ConnectionInv, AttemptGood
  <2>2. ASSUME NEW a \in Attempts, StoreRefreshed(a)
        PROVE  attempt[a].kind = "discovered" /\ attempt[a].at = "store"
    BY <2>2 DEF StoreRefreshed, ConnectionInv, AttemptGood
  <2>3. ASSUME NEW a \in Attempts, AttemptStep(a) PROVE SaveTrust(a) \/ StoreRefreshed(a)
    BY <2>3 DEF AttemptStep, store, Configured, PinningUnavailable, PingAnswered, ConnectHttp,
       PingFails, GetDeviceIdentity, RequestPairing, Poll, CredentialAccepted, CredentialRejected,
       PauseOver, Secured, ConnectThrows, ScanFirst, ReadSaved, LookupCredential
  <2>4. ~MonitorStep /\ ~OtherStep
    BY DEF MonitorStep, OtherStep, store, HealthAnswered, HealthTimer, ReceiverDecides,
       CloseHttp, RequestAnswered, AuthenticationFailure, RequestQrScan
  <2>5. ~UserBegins
    <3>1. /\ ~StartScanning /\ ~RefuseTransport /\ ~SelectTab /\ ~OpenPicker /\ ~HandleTransfer
          /\ ~HandleDisconnect /\ ~AskAllowHttp /\ ~DisallowHttp /\ ~RetryConnection /\ ~Foreground
      BY DEF store, StartScanning, RefuseTransport, SelectTab, OpenPicker, HandleTransfer, Goto,
         HandleDisconnect, AskAllowHttp, DisallowHttp, RetryConnection, Foreground
    <3>2. ASSUME NEW a \in Attempts
          PROVE  /\ ~PairSecurely(a) /\ ~ConnectOverHttp(a)
                 /\ ~HandleDiscoveredServer(a) /\ ~HandleTrustedReconnect(a)
      BY DEF store, PairSecurely, ConnectOverHttp, HandleDiscoveredServer, HandleTrustedReconnect
    <3> QED BY <3>1, <3>2 DEF UserBegins
  <2>6. ~UserAnswers
    BY DEF UserAnswers, store, StopScanning, CancelPicker, LeaveTransfer, Goto,
       AnswerConfirmation, DismissAlert, OpenQrScanner, AllowHttp
  <2> QED BY <2>1, <2>2, <2>3, <2>4, <2>5, <2>6 DEF Next
<1> QED BY <1>1, ConnectionInvariant, PTL DEF Spec, TrustIsEarned

=============================================================================
